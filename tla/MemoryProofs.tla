---------------------------- MODULE MemoryProofs ----------------------------
(***************************************************************************)
(* Proofs about Memory, for every number of facts, tags, edges and times:  *)
(* its types, that replay rebuilds the state, one vector space, what a     *)
(* verb never does to what is recorded, the order of versions of an edge   *)
(* and of revisions of a fact, that the indexes agree with the facts, and  *)
(* that every image of it loads (Image); about the catalog of its tags     *)
(* (TagCatalog), that a walk through its pages returns it; and about the   *)
(* detector of near-duplicates (Similar), that it spares no duplicate.     *)
(*                                                                         *)
(* CatalogInv: no name is overridden in two places, the catalog counts     *)
(* what is there, the fingerprint is that of its entries, and a walk that  *)
(* can go on has each entry its fingerprint names up to where it stands.   *)
(* SimilarInv: today's index has every word of each fact that no reindex   *)
(* cut short, and a document of exactly those words.                       *)
(***************************************************************************)
EXTENDS Image, EngineProofs, TagCatalog, Similar, FiniteSetTheorems, WellFoundedInduction

-----------------------------------------------------------------------------
(* Types, replay, and the order of versions.                               *)

\* The engine is a memory; while no caller's clock has moved back everything in it
\* is past; a journal without a refused verb replays to it.
MemoryInv ==
  /\ Shape(mem) /\ mem.next <= MaxFacts
  /\ clock \in Times /\ steady \in BOOLEAN /\ sound \in BOOLEAN
  /\ steady => Dated(mem, clock)
  /\ sound => replayed = Loaded(mem)
  /\ OneVectorSpace

\* The arguments a verb takes are arguments replay takes.
LEMMA InputsAreWanted ==
  ASSUME MemoryInv, NEW in \in Inputs(Links, InputVectors)
  PROVE  /\ in \in Wanted /\ in.now \in Times /\ in.from \in Times
         /\ in.vec \in Spaces => in.vec = mem.space
<1>1. InputVectors \subseteq Vectors
  BY MemoryAssumption DEF InputVectors, Vectors
<1>2. Links \subseteq Seq(Edges \cup {BadName}) BY MemoryAssumption
<1>3. in.vec \in InputVectors BY DEF Inputs
<1>4. in.vec \in Spaces => in.vec = mem.space
  BY <1>3, MemoryAssumption, EngineAssumption DEF InputVectors
<1> QED BY <1>1, <1>2, <1>4 DEF Inputs, Wanted

\* What was dated stays dated when the clock moves on.
LEMMA TickDated ==
  ASSUME MemoryInv, NEW now \in Times, Tick(now)
  PROVE  clock' = now /\ steady' \in BOOLEAN /\ (steady' => Dated(mem, now))
<1>1. steady' => steady /\ clock <= now BY DEF Tick, MemoryInv, Times
<1> QED BY <1>1, DatedLater DEF Tick, MemoryInv

\* A remember, of a new fact or of a successor.
LEMMA RememberStep ==
  ASSUME MemoryInv, NEW in \in Inputs(Links, InputVectors), NEW revises \in Nat \cup {NoFact},
         NEW x, x = ApplyRemember(mem, in, revises)
  PROVE  /\ Shape(x) /\ x.next = mem.next + 1 /\ x.space = mem.space
         /\ IdsOf(x) = IdsOf(mem) \cup {mem.next} /\ mem.next \notin IdsOf(mem)
         /\ x.facts[mem.next] = [revises |-> revises, from |-> in.from, to |-> OpenEnd,
                                 tomb |-> FALSE, vec |-> in.vec]
         /\ \A id \in IdsOf(mem) : x.facts[id] = Facts[id]
         /\ \A id \in DOMAIN mem.aux : x.aux[id] = mem.aux[id]
         /\ GraphGrows(mem, x)
         /\ Dated(mem, in.now) => Dated(x, in.now)
<1>1. Shape(mem) /\ in \in Wanted BY InputsAreWanted DEF MemoryInv
<1>2. Remembered(mem, x, in, revises) BY <1>1, RememberFields
<1>3. Shape(x) BY <1>1, <1>2, RememberShape
<1>4. mem.next \notin IdsOf(mem) /\ mem.next \in Nat BY <1>1 DEF Shape, FactsShape
<1>5. \A id \in DOMAIN mem.aux : x.aux[id] = mem.aux[id] BY <1>2 DEF Remembered, Put
<1>6. /\ IdsOf(x) = IdsOf(mem) \cup {mem.next}
      /\ x.facts[mem.next] = [revises |-> revises, from |-> in.from, to |-> OpenEnd,
                              tomb |-> FALSE, vec |-> in.vec]
      /\ \A id \in IdsOf(mem) : x.facts[id] = Facts[id]
  BY <1>2, <1>4 DEF Remembered, Put, IdsOf, Facts
<1> QED BY <1>2, <1>3, <1>4, <1>5, <1>6 DEF Remembered

\* A successor, and the end of the fact it succeeds.
LEMMA ReviseStep ==
  ASSUME MemoryInv, NEW in \in Inputs(Links, InputVectors), NEW target \in IdsOf(mem),
         NEW y, y = ApplyRevise(mem, in, target)
  PROVE  /\ Shape(y) /\ y.next = mem.next + 1 /\ y.space = mem.space
         /\ IdsOf(y) = IdsOf(mem) \cup {mem.next} /\ mem.next \notin IdsOf(mem)
         /\ y.facts[mem.next] = [revises |-> target, from |-> in.from, to |-> OpenEnd,
                                 tomb |-> FALSE, vec |-> in.vec]
         /\ \A id \in IdsOf(mem) : y.facts[id] = IF id = target
                                                 THEN [Facts[id] EXCEPT !.to = in.from]
                                                 ELSE Facts[id]
         /\ \A id \in DOMAIN mem.aux : y.aux[id] = mem.aux[id]
         /\ GraphGrows(mem, y)
         /\ Dated(mem, in.now) => Dated(y, in.now)
<1> DEFINE x == ApplyRemember(mem, in, target)
<1>1. target \in Nat BY DEF MemoryInv, Shape, FactsShape
<1>2. /\ Shape(x) /\ x.next = mem.next + 1 /\ x.space = mem.space
      /\ IdsOf(x) = IdsOf(mem) \cup {mem.next} /\ mem.next \notin IdsOf(mem)
      /\ x.facts[mem.next] = [revises |-> target, from |-> in.from, to |-> OpenEnd,
                              tomb |-> FALSE, vec |-> in.vec]
      /\ \A id \in IdsOf(mem) : x.facts[id] = Facts[id]
      /\ \A id \in DOMAIN mem.aux : x.aux[id] = mem.aux[id]
      /\ GraphGrows(mem, x)
      /\ Dated(mem, in.now) => Dated(x, in.now)
  BY <1>1, RememberStep
<1>3. y = CloseTarget(x, target, in.from) BY DEF ApplyRevise
<1> HIDE DEF x
<1>4. target \in IdsOf(x) /\ in.from \in Times BY <1>2, InputsAreWanted
<1>5. /\ Revalued(x, y) /\ Shape(y)
      /\ \A i \in IdsOf(x) : y.facts[i] = IF i = target THEN [x.facts[target] EXCEPT !.to = in.from]
                                          ELSE x.facts[i]
  BY <1>2, <1>3, <1>4, CloseTargetFields
<1>6. /\ y.next = mem.next + 1 /\ y.space = mem.space /\ IdsOf(y) = IdsOf(mem) \cup {mem.next}
      /\ \A id \in DOMAIN mem.aux : y.aux[id] = mem.aux[id]
  BY <1>2, <1>5 DEF Revalued
<1>7. y.facts[mem.next] = [revises |-> target, from |-> in.from, to |-> OpenEnd,
                           tomb |-> FALSE, vec |-> in.vec]
  BY <1>2, <1>5
<1>8. \A id \in IdsOf(mem) : y.facts[id] = IF id = target THEN [Facts[id] EXCEPT !.to = in.from]
                                           ELSE Facts[id]
  BY <1>2, <1>5
<1>9. GraphGrows(mem, y) /\ (Dated(mem, in.now) => Dated(y, in.now))
  BY <1>2, <1>5, SameGraphShape DEF Revalued, SameGraph, GraphGrows
<1> QED BY <1>2, <1>5, <1>6, <1>7, <1>8, <1>9

\* A journaled verb whose record replays to what it did.
LEMMA JournalReplays ==
  ASSUME MemoryInv, NEW op, Journal(op), ReplayOp(mem, op) = Loaded(mem')
  PROVE  sound' = sound /\ (sound' => replayed' = Loaded(mem'))
<1>1. sound' = sound /\ replayed' = Replay(replayed, op) BY DEF Journal
<1>2. Replay(Loaded(mem), op) = ReplayOp(mem, op) BY DEF Replay, Loaded
<1> QED BY <1>1, <1>2 DEF MemoryInv

\* Every verb keeps it.
LEMMA MemoryStep ==
  ASSUME MemoryInv, [Next]_vars
  PROVE  MemoryInv'
<1>0. /\ Shape(mem) /\ mem.next \in Nat /\ IdsOf(mem) \subseteq Nat
      /\ \A id \in IdsOf(mem) : id < mem.next /\ Facts[id] \in FactShape
      /\ NoFact \notin Nat /\ MaxFacts \in Nat
  BY EngineAssumption DEF MemoryInv, Shape, FactsShape, Facts
<1>1. CASE Remember
  <2>1. PICK in \in Inputs(Links, InputVectors) :
          /\ Argument(in, 0)
          /\ mem' = ApplyRemember(mem, in, NoFact)
          /\ Journal(RememberOp(in, NoFact, mem.next))
    BY <1>1 DEF Remember
  <2>2. in.now \in Times /\ in.from \in Times /\ (in.vec \in Spaces => in.vec = mem.space)
    BY InputsAreWanted
  <2>3. /\ Shape(mem') /\ mem'.next = mem.next + 1 /\ mem'.space = mem.space
        /\ IdsOf(mem') = IdsOf(mem) \cup {mem.next}
        /\ mem'.facts[mem.next] = [revises |-> NoFact, from |-> in.from, to |-> OpenEnd,
                                   tomb |-> FALSE, vec |-> in.vec]
        /\ \A id \in IdsOf(mem) : mem'.facts[id] = Facts[id]
        /\ Dated(mem, in.now) => Dated(mem', in.now)
    BY <2>1, RememberStep
  <2>4. clock' = in.now /\ steady' \in BOOLEAN /\ (steady' => Dated(mem', clock'))
    BY <2>1, <2>2, <2>3, TickDated DEF Argument
  <2>5. ReplayOp(mem, RememberOp(in, NoFact, mem.next)) = Loaded(mem')
    BY <1>0, <2>1 DEF ReplayOp, ReplayRemember, RememberOp
  <2>6. sound' = sound /\ (sound' => replayed' = Loaded(mem'))
    BY <2>1, <2>5, JournalReplays
  <2>7. OneVectorSpace' BY <2>2, <2>3 DEF OneVectorSpace, Facts, MemoryInv
  <2> QED BY <1>0, <2>1, <2>2, <2>3, <2>4, <2>6, <2>7 DEF MemoryInv, Argument
<1>2. CASE Revise
  <2>1. PICK in \in Inputs(Links, InputVectors), id \in IdsOf(mem) :
          /\ Revisable(mem, id)
          /\ Argument(in, mem.facts[id].from)
          /\ mem' = ApplyRevise(mem, in, id)
          /\ Journal(RememberOp(in, id, mem.next))
    BY <1>2 DEF Revise
  <2>2. in.now \in Times /\ in.from \in Times /\ (in.vec \in Spaces => in.vec = mem.space)
    BY InputsAreWanted
  <2>3. /\ Shape(mem') /\ mem'.next = mem.next + 1 /\ mem'.space = mem.space
        /\ IdsOf(mem') = IdsOf(mem) \cup {mem.next}
        /\ mem'.facts[mem.next] = [revises |-> id, from |-> in.from, to |-> OpenEnd,
                                   tomb |-> FALSE, vec |-> in.vec]
        /\ \A i \in IdsOf(mem) : mem'.facts[i] = IF i = id THEN [Facts[i] EXCEPT !.to = in.from]
                                                 ELSE Facts[i]
        /\ Dated(mem, in.now) => Dated(mem', in.now)
    BY <2>1, ReviseStep
  <2>4. clock' = in.now /\ steady' \in BOOLEAN /\ (steady' => Dated(mem', clock'))
    BY <2>1, <2>2, <2>3, TickDated DEF Argument
  <2>5. ReplayOp(mem, RememberOp(in, id, mem.next)) = Loaded(mem')
    BY <1>0, <2>1 DEF ReplayOp, ReplayRemember, RememberOp
  <2>6. sound' = sound /\ (sound' => replayed' = Loaded(mem'))
    BY <2>1, <2>5, JournalReplays
  <2>7. \A i \in IdsOf(mem) : mem'.facts[i].vec = Facts[i].vec BY <1>0, <2>3 DEF FactShape
  <2>8. OneVectorSpace' BY <2>2, <2>3, <2>7 DEF OneVectorSpace, Facts, MemoryInv
  <2> QED BY <1>0, <2>1, <2>2, <2>3, <2>4, <2>6, <2>8 DEF MemoryInv, Argument
<1>3. CASE RefusedRemember
  <2>1. PICK in \in Inputs(Links, InputVectors) : Argument(in, 0) /\ mem' = HalfRemembered(mem, in)
    BY <1>3 DEF RefusedRemember
  <2>2. in \in Wanted /\ in.now \in Times BY InputsAreWanted
  <2>3. /\ Shape(mem') /\ mem'.facts = mem.facts /\ mem'.next = mem.next
        /\ mem'.space = mem.space /\ (Dated(mem, in.now) => Dated(mem', in.now))
    BY <1>0, <2>1, <2>2, HalfRememberedShape
  <2>4. clock' = in.now /\ steady' \in BOOLEAN /\ (steady' => Dated(mem', clock'))
    BY <2>1, <2>2, <2>3, TickDated DEF Argument
  <2>5. OneVectorSpace' BY <2>3 DEF OneVectorSpace, Facts, IdsOf, MemoryInv
  <2> QED BY <1>3, <2>2, <2>3, <2>4, <2>5 DEF RefusedRemember, MemoryInv
<1>4. CASE Forget
  <2>1. PICK id \in IdsOf(mem) : /\ mem' = ApplyForget(mem, id)
                                 /\ Journal(ForgetOp(id)) /\ UNCHANGED <<clock, steady>>
    BY <1>4 DEF Forget
  <2>2. /\ Revalued(mem, mem') /\ Shape(mem')
        /\ \A i \in IdsOf(mem) : mem'.facts[i] = IF i = id THEN [Facts[i] EXCEPT !.tomb = TRUE]
                                                 ELSE Facts[i]
    <3> DEFINE x == ApplyForget(mem, id)
    <3>1. /\ Revalued(mem, x) /\ Shape(x)
          /\ \A i \in IdsOf(mem) : x.facts[i] = IF i = id THEN [mem.facts[id] EXCEPT !.tomb = TRUE]
                                              ELSE mem.facts[i]
      BY <1>0, ForgetFields
    <3> HIDE DEF x
    <3>2. mem' = x BY <2>1 DEF x
    <3> QED BY <3>1, <3>2 DEF Facts
  <2>3. steady' => Dated(mem', clock')
    BY <1>0, <2>1, <2>2, SameGraphShape DEF MemoryInv, Revalued, Shape
  <2>4. ReplayOp(mem, ForgetOp(id)) = Loaded(mem')
    BY <2>1 DEF ReplayOp, ForgetOp
  <2>5. sound' = sound /\ (sound' => replayed' = Loaded(mem'))
    BY <2>1, <2>4, JournalReplays
  <2>6. \A i \in IdsOf(mem) : mem'.facts[i].vec = Facts[i].vec BY <1>0, <2>2 DEF FactShape
  <2>7. OneVectorSpace' BY <2>2, <2>6 DEF OneVectorSpace, Facts, Revalued, MemoryInv
  <2> QED BY <2>1, <2>2, <2>3, <2>5, <2>7 DEF MemoryInv, Revalued
<1>5. CASE RemoveTag
  <2>1. PICK tag \in Tags, now \in Times :
          /\ Tick(now) /\ mem.next + Len(RemoveTagTargets(mem, tag)) <= MaxFacts
          /\ mem' = ApplyRemoveTag(mem, now, tag) /\ Journal(RemoveTagOp(tag, now))
    BY <1>5 DEF RemoveTag
  <2>2. Retagged(mem, mem', now, tag) /\ Shape(mem')
    BY <1>0, <2>1, RemoveTagFields, RemoveTagShape
  <2>3. mem'.next <= MaxFacts BY <2>1, <2>2 DEF Retagged
  <2>4. clock' = now /\ steady' \in BOOLEAN /\ (steady' => Dated(mem', clock'))
    BY <1>0, <2>1, <2>2, TickDated, SameGraphShape DEF Retagged, Shape
  <2>5. ReplayOp(mem, RemoveTagOp(tag, now)) = Loaded(mem')
    BY <2>1 DEF ReplayOp, RemoveTagOp
  <2>6. sound' = sound /\ (sound' => replayed' = Loaded(mem'))
    BY <2>1, <2>5, JournalReplays
  <2>7. OneVectorSpace'
    <3>1. \A i \in IdsOf(mem) : mem'.facts[i].vec = Facts[i].vec
      BY <1>0, <2>2 DEF FactShape, Retagged, Facts
    <3>2. \A i \in NewIds(mem, tag) : /\ Succeeded(mem, tag, i) \in IdsOf(mem)
                                      /\ mem'.facts[i] = Successor(mem, now, Succeeded(mem, tag, i))
      BY <1>0, <2>2, TargetsAreCurrent DEF Retagged
    <3>3. \A j \in IdsOf(mem) : Successor(mem, now, j).vec = Facts[j].vec
      BY <1>0 DEF Successor, FactShape, Facts
    <3>4. IdsOf(mem') = IdsOf(mem) \cup NewIds(mem, tag) /\ mem'.space = mem.space
      BY <2>2 DEF Retagged
    <3> QED BY <3>1, <3>2, <3>3, <3>4 DEF OneVectorSpace, Facts, MemoryInv
  <2> QED BY <2>1, <2>2, <2>3, <2>4, <2>6, <2>7 DEF MemoryInv
<1>6. CASE Link
  <2>1. PICK e \in Edges, now \in Times, fact \in {NoFact} \cup (0..mem.next - 1) :
          Tick(now) /\ mem' = OpenEdge(mem, e, now, fact) /\ Journal(LinkOp(e, now, fact))
    BY <1>6 DEF Link
  <2>2. Grown(mem, mem') /\ (Dated(mem, now) => Dated(mem', now)) /\ Shape(mem')
    <3>1. fact \in Nat \cup {NoFact} BY <1>0, <2>1
    <3> QED BY <1>0, <2>1, <3>1, OpenEdgeGrows, OpenEdgeDated, GrownShape
  <2>3. clock' = now /\ steady' \in BOOLEAN /\ (steady' => Dated(mem', clock'))
    BY <2>1, <2>2, TickDated
  <2>4. ReplayOp(mem, LinkOp(e, now, fact)) = Loaded(mem')
    BY <2>1 DEF ReplayOp, LinkOp
  <2>5. sound' = sound /\ (sound' => replayed' = Loaded(mem'))
    BY <2>1, <2>4, JournalReplays
  <2> QED BY <2>1, <2>2, <2>3, <2>5 DEF MemoryInv, Grown, OneVectorSpace, Facts, IdsOf
<1>7. CASE Unlink
  <2>1. PICK e \in Edges, now \in Times :
          Tick(now) /\ mem' = CloseEdge(mem, e, now) /\ Journal(UnlinkOp(e, now))
    BY <1>7 DEF Unlink
  <2>2. Grown(mem, mem') /\ (Dated(mem, now) => Dated(mem', now)) /\ Shape(mem')
    BY <1>0, <2>1, CloseEdgeGrows, CloseEdgeDated, GrownShape
  <2>3. clock' = now /\ steady' \in BOOLEAN /\ (steady' => Dated(mem', clock'))
    BY <2>1, <2>2, TickDated
  <2>4. ReplayOp(mem, UnlinkOp(e, now)) = Loaded(mem')
    BY <2>1 DEF ReplayOp, UnlinkOp
  <2>5. sound' = sound /\ (sound' => replayed' = Loaded(mem'))
    BY <2>1, <2>4, JournalReplays
  <2> QED BY <2>1, <2>2, <2>3, <2>5 DEF MemoryInv, Grown, OneVectorSpace, Facts, IdsOf
<1>8. CASE ClaimVectorSpace
  <2>1. PICK s \in Spaces : /\ s # mem.space /\ MayClaim(mem, s) /\ mem' = [mem EXCEPT !.space = s]
                            /\ Journal(SetSpaceOp(s)) /\ UNCHANGED <<clock, steady>>
    BY <1>8 DEF ClaimVectorSpace
  <2>2. Shape(mem') BY <1>0, <2>1, SetSpaceShape
  <2>3. mem'.facts = mem.facts /\ mem'.next = mem.next /\ SameGraph(mem, mem')
    BY <1>0, <2>1 DEF Shape, MemoryFields, SameGraph
  <2>4. steady' => Dated(mem', clock')
    BY <1>0, <2>1, <2>3, SameGraphShape DEF MemoryInv, Shape
  <2>5. ReplayOp(mem, SetSpaceOp(s)) = Loaded(mem')
    BY <2>1 DEF ReplayOp, SetSpaceOp
  <2>6. sound' = sound /\ (sound' => replayed' = Loaded(mem'))
    BY <2>1, <2>5, JournalReplays
  <2>7. OneVectorSpace'
    BY <2>1, <2>3, EngineAssumption DEF MayClaim, PoolEmpty, OneVectorSpace, Facts, IdsOf
  <2> QED BY <2>1, <2>2, <2>3, <2>4, <2>6, <2>7 DEF MemoryInv
<1>9. CASE Maintain
  <2>1. Journal(MaintainOp) /\ mem' = Purge(mem) /\ UNCHANGED <<clock, steady>>
    BY <1>9 DEF Maintain
  <2>2. Shape(mem') BY <1>0, <2>1, PurgeShape
  <2>3. /\ IdsOf(mem') \subseteq IdsOf(mem) /\ \A id \in IdsOf(mem') : mem'.facts[id] = Facts[id]
        /\ mem'.next = mem.next /\ mem'.space = mem.space /\ SameGraph(mem, mem')
    BY <1>0, <2>1, PurgeFields DEF Facts
  <2>4. steady' => Dated(mem', clock')
    BY <1>0, <2>1, <2>3, SameGraphShape DEF MemoryInv, Shape
  <2>5. ReplayOp(mem, MaintainOp) = Loaded(mem')
    BY <2>1 DEF ReplayOp, MaintainOp
  <2>6. sound' = sound /\ (sound' => replayed' = Loaded(mem'))
    BY <2>1, <2>5, JournalReplays
  <2>7. OneVectorSpace' BY <2>3 DEF OneVectorSpace, Facts, MemoryInv
  <2> QED BY <2>1, <2>2, <2>3, <2>4, <2>6, <2>7 DEF MemoryInv
<1>10. CASE UNCHANGED vars
  BY <1>10 DEF vars, MemoryInv, OneVectorSpace, Facts
<1> QED BY <1>1, <1>2, <1>3, <1>4, <1>5, <1>6, <1>7, <1>8, <1>9, <1>10 DEF Next

\* Types, and with them the next three.
THEOREM MemoryHolds == Spec => []MemoryInv
<1>1. Init => MemoryInv
  <2> SUFFICES ASSUME Init PROVE MemoryInv OBVIOUS
  <2>1. /\ IdsOf(EmptyMemory) = {} /\ EmptyMemory.next = 0 /\ DOMAIN EmptyMemory.history = {}
    BY DEF EmptyMemory, IdsOf
  <2>2. OneVectorSpace BY <2>1 DEF Init, OneVectorSpace
  <2>3. Dated(mem, clock) BY <2>1 DEF Init, Dated
  <2> QED BY <2>1, <2>2, <2>3, EmptyShape, EngineAssumption DEF Init, MemoryInv, Times
<1> QED BY <1>1, MemoryStep, PTL DEF Spec

\* What is replayed from the journal is the state that was journaled, whatever the
\* verbs and the clocks, until a remember has been refused half-way.
THEOREM ReplayIsExact == Spec => []ReplayRebuilds
<1>1. MemoryInv => ReplayRebuilds BY DEF MemoryInv, ReplayRebuilds
<1> QED BY <1>1, MemoryHolds, PTL

\* Every automatic vector that is stored is of the recorded space, after any claims,
\* forgets and purges.
THEOREM SpacesDoNotMix == Spec => []OneVectorSpace
<1>1. MemoryInv => OneVectorSpace BY DEF MemoryInv
<1> QED BY <1>1, MemoryHolds, PTL

\* No version of an edge ends before it began; versions of an edge never overlap while
\* the clock has not moved back.
THEOREM VersionsInOrder == Spec => []VersionsOrdered
<1>1. MemoryInv => VersionsOrdered
  BY DEF MemoryInv, VersionsOrdered, Shape, GraphShape, Dated
<1> QED BY <1>1, MemoryHolds, PTL

-----------------------------------------------------------------------------
(* What is recorded stays.                                                 *)

\* A fact before and after a verb.
Kept(f, g) ==
  /\ [g EXCEPT !.to = OpenEnd, !.tomb = FALSE] = [f EXCEPT !.to = OpenEnd, !.tomb = FALSE]
  /\ IsClosed(f) => g.to = f.to
  /\ f.tomb => g.tomb

\* The records of a memory before and after a verb.
OnlyCloses(m, x) ==
  /\ \A id \in IdsOf(m) : IF id \in IdsOf(x)
                          THEN Kept(m.facts[id], x.facts[id]) /\ x.aux[id] = m.aux[id]
                          ELSE m.facts[id].tomb
  /\ \A id \in IdsOf(x) \ IdsOf(m) : id >= m.next
  /\ x.next >= m.next
  /\ \A v \in DOMAIN m.history : /\ v \in DOMAIN x.history
                                 /\ m.history[v].to # OpenEnd => x.history[v] = m.history[v]

\* Closing a current fact, and tombstoning one.
LEMMA KeptFacts ==
  ASSUME NEW f \in FactShape
  PROVE  /\ Kept(f, f) /\ Kept(f, [f EXCEPT !.tomb = TRUE])
         /\ IsCurrent(f) => \A at : Kept(f, [f EXCEPT !.to = at])
BY DEF FactShape, Kept, IsCurrent, IsClosed

\* Verbs that leave the versions of edges alone.
LEMMA SameGraphCloses ==
  ASSUME NEW m, NEW x, SameGraph(m, x)
  PROVE  \A v \in DOMAIN m.history : v \in DOMAIN x.history /\ x.history[v] = m.history[v]
BY DEF SameGraph

\* Every verb.
LEMMA OnlyClosesStep ==
  ASSUME MemoryInv, [Next]_vars
  PROVE  OnlyCloses(mem, mem')
<1>0. /\ Shape(mem) /\ mem.next \in Nat
      /\ \A id \in IdsOf(mem) : /\ id < mem.next /\ mem.facts[id] \in FactShape
                                /\ id \in DOMAIN mem.aux /\ Kept(mem.facts[id], mem.facts[id])
  BY KeptFacts DEF MemoryInv, Shape, FactsShape
<1>1. CASE Remember
  <2>1. PICK in \in Inputs(Links, InputVectors) : mem' = ApplyRemember(mem, in, NoFact)
    BY <1>1 DEF Remember
  <2>2. /\ Shape(mem') /\ mem'.next = mem.next + 1 /\ mem'.space = mem.space
        /\ IdsOf(mem') = IdsOf(mem) \cup {mem.next} /\ mem.next \notin IdsOf(mem)
        /\ mem'.facts[mem.next] = [revises |-> NoFact, from |-> in.from, to |-> OpenEnd,
                                   tomb |-> FALSE, vec |-> in.vec]
        /\ \A id \in IdsOf(mem) : mem'.facts[id] = Facts[id]
        /\ \A id \in DOMAIN mem.aux : mem'.aux[id] = mem.aux[id]
        /\ GraphGrows(mem, mem')
        /\ Dated(mem, in.now) => Dated(mem', in.now)
    <3>1. NoFact \in Nat \cup {NoFact} OBVIOUS
    <3> QED BY <2>1, <3>1, RememberStep
  <2> QED BY <1>0, <2>2 DEF OnlyCloses, GraphGrows, Facts
<1>2. CASE Revise
  <2>1. PICK in \in Inputs(Links, InputVectors), id \in IdsOf(mem) :
          Revisable(mem, id) /\ mem' = ApplyRevise(mem, in, id)
    BY <1>2 DEF Revise
  <2>2. /\ Shape(mem') /\ mem'.next = mem.next + 1 /\ mem'.space = mem.space
        /\ IdsOf(mem') = IdsOf(mem) \cup {mem.next} /\ mem.next \notin IdsOf(mem)
        /\ mem'.facts[mem.next] = [revises |-> id, from |-> in.from, to |-> OpenEnd,
                                   tomb |-> FALSE, vec |-> in.vec]
        /\ \A i \in IdsOf(mem) : mem'.facts[i] = IF i = id THEN [Facts[i] EXCEPT !.to = in.from]
                                                 ELSE Facts[i]
        /\ \A i \in DOMAIN mem.aux : mem'.aux[i] = mem.aux[i]
        /\ GraphGrows(mem, mem')
        /\ Dated(mem, in.now) => Dated(mem', in.now)
    BY <2>1, ReviseStep
  <2>3. \A i \in IdsOf(mem) : Kept(mem.facts[i], mem'.facts[i])
    <3>1. Kept(mem.facts[id], [mem.facts[id] EXCEPT !.to = in.from])
      BY <1>0, <2>1, KeptFacts DEF Revisable
    <3> QED BY <1>0, <2>2, <3>1 DEF Facts
  <2> QED BY <1>0, <2>2, <2>3 DEF OnlyCloses, GraphGrows
<1>3. CASE RefusedRemember
  <2>1. PICK in \in Inputs(Links, InputVectors) : mem' = HalfRemembered(mem, in)
    BY <1>3 DEF RefusedRemember
  <2>2. in \in Wanted BY InputsAreWanted
  <2>3. /\ mem'.facts = mem.facts /\ mem'.next = mem.next /\ GraphGrows(mem, mem')
        /\ \A id \in IdsOf(mem) : mem'.aux[id] = mem.aux[id]
    BY <1>0, <2>1, <2>2, HalfRememberedShape
  <2> QED BY <1>0, <2>3 DEF OnlyCloses, GraphGrows, IdsOf
<1>4. CASE Forget
  <2>1. PICK id \in IdsOf(mem) : mem' = ApplyForget(mem, id) BY <1>4 DEF Forget
  <2> DEFINE x == ApplyForget(mem, id)
  <2>2. /\ Revalued(mem, x)
        /\ \A i \in IdsOf(mem) : x.facts[i] = IF i = id THEN [mem.facts[id] EXCEPT !.tomb = TRUE]
                                              ELSE mem.facts[i]
    BY <1>0, ForgetFields
  <2> HIDE DEF x
  <2>3. \A i \in IdsOf(mem) : Kept(mem.facts[i], x.facts[i])
    BY <1>0, <2>2, KeptFacts
  <2>4. OnlyCloses(mem, x)
    BY <1>0, <2>2, <2>3, SameGraphCloses DEF OnlyCloses, Revalued
  <2> QED BY <2>1, <2>4 DEF x
<1>5. CASE RemoveTag
  <2>1. PICK tag \in Tags, now \in Times : mem' = ApplyRemoveTag(mem, now, tag)
    BY <1>5 DEF RemoveTag
  <2>2. Retagged(mem, mem', now, tag) BY <1>0, <2>1, RemoveTagFields
  <2>3. \A id \in IdsOf(mem) : Kept(mem.facts[id], mem'.facts[id])
    <3>1. RemoveTagTargets(mem, tag) \in Seq({id \in IdsOf(mem) : Revisable(mem, id)})
      BY <1>0, TargetsAreCurrent
    <3>2. \A id \in ToSet(RemoveTagTargets(mem, tag)) : Revisable(mem, id)
      BY <3>1 DEF ToSet
    <3>3. \A id \in IdsOf(mem) : Revisable(mem, id) => Kept(mem.facts[id], [mem.facts[id] EXCEPT !.to = now])
      BY <1>0, KeptFacts DEF Revisable
    <3> QED BY <1>0, <2>2, <3>2, <3>3 DEF Retagged
  <2>4. mem'.next >= mem.next /\ \A id \in NewIds(mem, tag) : id >= mem.next
    <3>1. /\ Len(RemoveTagTargets(mem, tag)) \in Nat
          /\ \A id \in NewIds(mem, tag) : id >= mem.next
      BY <1>0, TargetsAreCurrent
    <3>2. mem'.next = mem.next + Len(RemoveTagTargets(mem, tag)) BY <2>2 DEF Retagged
    <3> QED BY <1>0, <3>1, <3>2
  <2> QED BY <1>0, <2>2, <2>3, <2>4, SameGraphCloses DEF OnlyCloses, Retagged
<1>6. CASE Link
  <2>1. PICK e \in Edges, now \in Times, fact \in {NoFact} \cup (0..mem.next - 1) :
          mem' = OpenEdge(mem, e, now, fact)
    BY <1>6 DEF Link
  <2>2. fact \in Nat \cup {NoFact} BY <1>0, <2>1
  <2>3. Grown(mem, mem') BY <1>0, <2>1, <2>2, OpenEdgeGrows
  <2> QED BY <1>0, <2>3 DEF Grown, GraphGrows, OnlyCloses, IdsOf
<1>7. CASE Unlink
  <2>1. PICK e \in Edges, now \in Times : mem' = CloseEdge(mem, e, now)
    BY <1>7 DEF Unlink
  <2>2. Grown(mem, mem') BY <1>0, <2>1, CloseEdgeGrows
  <2> QED BY <1>0, <2>2 DEF Grown, GraphGrows, OnlyCloses, IdsOf
<1>8. CASE ClaimVectorSpace
  <2>1. PICK s \in Spaces : mem' = [mem EXCEPT !.space = s] BY <1>8 DEF ClaimVectorSpace
  <2>2. mem'.facts = mem.facts /\ mem'.aux = mem.aux /\ mem'.next = mem.next /\ SameGraph(mem, mem')
    BY <1>0, <2>1 DEF Shape, MemoryFields, SameGraph
  <2> QED BY <1>0, <2>2, SameGraphCloses DEF OnlyCloses, IdsOf
<1>9. CASE Maintain
  <2>1. mem' = Purge(mem) BY <1>9 DEF Maintain
  <2> DEFINE live == {id \in IdsOf(mem) : ~mem.facts[id].tomb}
  <2>2. /\ IdsOf(mem') = live /\ \A id \in live : mem'.facts[id] = mem.facts[id]
        /\ \A id \in live : mem'.aux[id] = mem.aux[id]
        /\ mem'.next = mem.next /\ SameGraph(mem, mem')
    BY <1>0, <2>1, PurgeFields
  <2> QED BY <1>0, <2>2, SameGraphCloses DEF OnlyCloses
<1>10. CASE UNCHANGED vars
  BY <1>0, <1>10 DEF vars, OnlyCloses
<1> QED BY <1>1, <1>2, <1>3, <1>4, <1>5, <1>6, <1>7, <1>8, <1>9, <1>10 DEF Next

\* No verb moves a fact's beginning, reopens it, un-forgets it, changes its tags, gives
\* its id away, drops it before it was forgotten, or rewrites an ended version.
THEOREM NothingIsRewritten == Spec => RecordsOnlyClose
<1>1. OnlyCloses(mem, mem') =>
        /\ \A id \in IdsOf(mem) :
             IF id \in IdsOf(mem')
             THEN /\ [mem'.facts[id] EXCEPT !.to = OpenEnd, !.tomb = FALSE]
                       = [Facts[id] EXCEPT !.to = OpenEnd, !.tomb = FALSE]
                  /\ IsClosed(Facts[id]) => mem'.facts[id].to = Facts[id].to
                  /\ Facts[id].tomb => mem'.facts[id].tomb
                  /\ mem'.aux[id] = mem.aux[id]
             ELSE Facts[id].tomb
        /\ \A id \in IdsOf(mem') \ IdsOf(mem) : id >= mem.next
        /\ mem'.next >= mem.next
        /\ \A v \in DOMAIN mem.history :
             /\ v \in DOMAIN mem'.history
             /\ mem.history[v].to # OpenEnd => mem'.history[v] = mem.history[v]
  BY DEF OnlyCloses, Kept, Facts
<1> QED BY <1>1, MemoryHolds, OnlyClosesStep, PTL DEF Spec, RecordsOnlyClose

-----------------------------------------------------------------------------
(* Ascending lists of ids.                                                 *)

\* It depends on the ids below n only.
LEMMA AscendingSame ==
  ASSUME NEW S, NEW U, NEW n \in Nat, \A i \in 0..n - 1 : i \in S <=> i \in U
  PROVE  Ascending(S, n) = Ascending(U, n)
<1> DEFINE R == 0..n - 1
<1>1. [i \in 1..n |-> i - 1] \in Seq(R) OBVIOUS
<1>2. R \cap S = R \cap U OBVIOUS
<1> HIDE DEF R
<1> QED BY <1>1, <1>2, KeepSame DEF Ascending

\* The ids below n, then those from n on.
LEMMA AscendingOn ==
  ASSUME NEW S, NEW n \in Nat, NEW k \in Nat
  PROVE  Ascending(S, n + k) = Ascending(S, n) \o KeepIn([i \in 1..k |-> n + i - 1], S)
<1> DEFINE a == [i \in 1..n |-> i - 1]
           b == [i \in 1..k |-> n + i - 1]
<1>1. a \in Seq(Nat) /\ b \in Seq(Nat) OBVIOUS
<1>2. a \o b = [i \in 1..n + k |-> i - 1]
  OBVIOUS
<1> HIDE DEF a, b
<1>3. KeepIn(a \o b, S) = KeepIn(a, S) \o KeepIn(b, S) BY <1>1, KeepConcat
<1> QED BY <1>2, <1>3 DEF Ascending, a, b

\* The next id is last, if it is there.
LEMMA AscendingNext ==
  ASSUME NEW S, NEW n \in Nat
  PROVE  /\ n \in S => Ascending(S, n + 1) = Append(Ascending(S, n), n)
         /\ n \notin S => Ascending(S, n + 1) = Ascending(S, n)
<1> DEFINE a == [i \in 1..n |-> i - 1]
<1>1. a \in Seq(Nat) OBVIOUS
<1>2. Append(a, n) = [i \in 1..n + 1 |-> i - 1] OBVIOUS
<1> HIDE DEF a
<1>3. /\ n \in S => KeepIn(Append(a, n), S) = Append(KeepIn(a, S), n)
      /\ n \notin S => KeepIn(Append(a, n), S) = KeepIn(a, S)
  BY <1>1, KeepAppend
<1> QED BY <1>2, <1>3 DEF Ascending, a

\* A filter of it.
LEMMA AscendingKeep ==
  ASSUME NEW S, NEW U, NEW n \in Nat
  PROVE  KeepIn(Ascending(S, n), U) = Ascending(S \cap U, n)
<1> DEFINE a == [i \in 1..n |-> i - 1]
<1>1. a \in Seq(Nat) OBVIOUS
<1> HIDE DEF a
<1>2. KeepIn(KeepIn(a, S), U) = KeepIn(a, S \cap U) BY <1>1, KeepTwice
<1> QED BY <1>2 DEF Ascending, a

\* It lists each id of a set once.
LEMMA AscendingLists ==
  ASSUME NEW n \in Nat, NEW S \in SUBSET (0..n - 1)
  PROVE  LET s == Ascending(S, n)
         IN  /\ Len(s) = Cardinality(S) /\ {s[i] : i \in 1..Len(s)} = S
             /\ \A i, j \in 1..Len(s) : s[i] = s[j] => i = j
<1> DEFINE Lists(s, U) == /\ IsFiniteSet(U) /\ s \in Seq(Nat)
                          /\ Len(s) = Cardinality(U) /\ {s[i] : i \in 1..Len(s)} = U
                          /\ \A i, j \in 1..Len(s) : s[i] = s[j] => i = j
           T == {k \in Nat : \A U \in SUBSET (0..k - 1) : Lists(Ascending(U, k), U)}
<1>1. 0 \in T
  <2>1. Lists(<<>>, {}) BY FS_EmptySet
  <2>2. \A U \in SUBSET (0..0 - 1) : U = {} OBVIOUS
  <2>3. Ascending({}, 0) = <<>>
    <3>1. [i \in 1..0 |-> i - 1] = <<>> OBVIOUS
    <3> QED BY <3>1, KeepEmpty DEF Ascending
  <2> HIDE DEF Lists
  <2> QED BY <2>1, <2>2, <2>3
<1>2. ASSUME NEW k \in Nat, k \in T PROVE k + 1 \in T
  <2>1. SUFFICES ASSUME NEW U \in SUBSET (0..k) PROVE Lists(Ascending(U, k + 1), U)
    <3>1. (k + 1) - 1 = k OBVIOUS
    <3> HIDE DEF Lists
    <3> QED BY <3>1
  <2> DEFINE V == U \ {k}
             s == Ascending(V, k)
  <2>2. V \in SUBSET (0..k - 1) BY <2>1
  <2>3. /\ IsFiniteSet(V) /\ s \in Seq(Nat)
        /\ Len(s) = Cardinality(V) /\ {s[i] : i \in 1..Len(s)} = V
        /\ \A i, j \in 1..Len(s) : s[i] = s[j] => i = j
    <3>1. Lists(s, V)
      <4> HIDE DEF Lists, s, V
      <4> QED BY <1>2, <2>2 DEF s
    <3> QED BY <3>1
  <2>4. Ascending(U, k) = s BY AscendingSame
  <2> HIDE DEF s
  <2>5. CASE k \in U
    <3>1. Ascending(U, k + 1) = Append(s, k) BY <2>4, <2>5, AscendingNext
    <3>2. U = V \cup {k} /\ k \notin V BY <2>5
    <3>3. IsFiniteSet(U) /\ Cardinality(U) = Cardinality(V) + 1
      <4> HIDE DEF V
      <4> QED BY <2>3, <3>2, FS_AddElement
    <3> DEFINE t == Append(s, k)
    <3> HIDE DEF V
    <3>4. /\ t \in Seq(Nat) /\ Len(t) = Len(s) + 1 /\ Len(s) \in Nat /\ t[Len(s) + 1] = k
          /\ \A i \in 1..Len(s) : t[i] = s[i] /\ s[i] \in V
      BY <2>3
    <3> HIDE DEF t, V
    <3>5. {t[i] : i \in 1..Len(t)} = U
      <4>1. \A u \in U : \E i \in 1..Len(t) : t[i] = u
        <5>1. \A v \in V : \E i \in 1..Len(s) : s[i] = v BY <2>3
        <5>2. Len(s) + 1 \in 1..Len(t) /\ 1..Len(s) \subseteq 1..Len(t) BY <3>4
        <5> QED BY <3>2, <3>4, <5>1, <5>2
      <4>2. \A i \in 1..Len(t) : t[i] \in U
        <5>1. \A i \in 1..Len(t) : i \in 1..Len(s) \/ i = Len(s) + 1 BY <3>4
        <5> QED BY <3>2, <3>4, <5>1
      <4> QED BY <4>1, <4>2
    <3>6. \A i, j \in 1..Len(t) : t[i] = t[j] => i = j
      <4>1. \A i \in 1..Len(t) : i \in 1..Len(s) \/ i = Len(s) + 1 BY <3>4
      <4> QED BY <2>3, <3>2, <3>4, <4>1
    <3>7. Lists(t, U) BY <2>3, <3>3, <3>4, <3>5, <3>6
    <3> QED BY <3>1, <3>7 DEF t
  <2>6. CASE k \notin U
    <3>1. Ascending(U, k + 1) = s /\ U = V BY <2>4, <2>6, AscendingNext
    <3> HIDE DEF V
    <3> QED BY <2>3, <3>1
  <2> QED BY <2>5, <2>6
<1> HIDE DEF T
<1>3. n \in T BY <1>1, <1>2, Naturally!Inductive
<1> QED BY <1>3 DEF T

-----------------------------------------------------------------------------
(* The indexes and the facts.                                              *)

\* The facts that carry a tag, and those of them that are current.
Carriers(m, t) == {id \in IdsOf(m) : t \in m.aux[id]}
Counting(m, t) == {id \in Carriers(m, t) : IsCurrent(m.facts[id])}

\* IndexesAgree of a memory.
Indexed(m) ==
  /\ m.docs = Ascending(IdsOf(m), m.next)
  /\ DOMAIN m.aux = IdsOf(m)
  /\ \A t \in Tags : /\ m.tagIdx[t] = Ascending(Carriers(m, t), m.next)
                     /\ m.catalog[t] = Cardinality(Counting(m, t))

\* They are ids that were handed out, a finite number of them.
LEMMA FewFacts ==
  ASSUME NEW m, Shape(m), NEW t
  PROVE  /\ IdsOf(m) \in SUBSET (0..m.next - 1) /\ Carriers(m, t) \in SUBSET (0..m.next - 1)
         /\ IsFiniteSet(Carriers(m, t)) /\ IsFiniteSet(Counting(m, t))
         /\ Cardinality(Counting(m, t)) \in Nat
         /\ m.next \in Nat /\ m.next \notin IdsOf(m)
<1>1. /\ m.next \in Nat /\ m.next \notin IdsOf(m)
      /\ \A id \in IdsOf(m) : id \in 0..m.next - 1
  BY DEF Shape, FactsShape
<1>2. Carriers(m, t) \in SUBSET (0..m.next - 1) /\ Counting(m, t) \in SUBSET Carriers(m, t)
  BY <1>1 DEF Carriers, Counting
<1>3. IsFiniteSet(0..m.next - 1) BY <1>1, FS_Interval
<1>4. IsFiniteSet(Carriers(m, t)) BY <1>2, <1>3, FS_Subset
<1>5. IsFiniteSet(Counting(m, t)) BY <1>2, <1>4, FS_Subset
<1>6. Cardinality(Counting(m, t)) \in Nat BY <1>5, FS_CardinalityType
<1> QED BY <1>1, <1>2, <1>4, <1>5, <1>6

\* A new fact comes last in the lists it belongs in, and counts once.
LEMMA RememberIndexed ==
  ASSUME NEW m, Shape(m), Indexed(m), NEW in \in Wanted, NEW revises, NEW x,
         Remembered(m, x, in, revises)
  PROVE  Indexed(x)
<1> DEFINE n == m.next
<1>1. n \in Nat /\ n \notin IdsOf(m) /\ IdsOf(m) \in SUBSET (0..n - 1)
  BY FewFacts
<1>2. /\ x.next = n + 1 /\ x.docs = Append(m.docs, n) /\ x.aux = Put(m.aux, n, in.tags)
      /\ x.facts = Put(m.facts, n, [revises |-> revises, from |-> in.from, to |-> OpenEnd,
                                    tomb |-> FALSE, vec |-> in.vec])
      /\ \A t \in Tags : x.tagIdx[t] = IF t \in in.tags THEN Append(m.tagIdx[t], n)
                                       ELSE m.tagIdx[t]
      /\ \A t \in Tags : x.catalog[t] = IF t \in in.tags THEN m.catalog[t] + 1 ELSE m.catalog[t]
  BY <1>1 DEF Remembered, Indexed, Counted
<1> HIDE DEF n
<1>3. /\ IdsOf(x) = IdsOf(m) \cup {n} /\ DOMAIN x.aux = IdsOf(x)
      /\ x.aux[n] = in.tags /\ \A id \in IdsOf(m) : x.aux[id] = m.aux[id]
      /\ IsCurrent(x.facts[n]) /\ \A id \in IdsOf(m) : x.facts[id] = m.facts[id]
  BY <1>1, <1>2 DEF Put, IdsOf, IsCurrent, IsClosed, Indexed
<1>4. x.docs = Ascending(IdsOf(x), n + 1)
  <2>1. Ascending(IdsOf(x), n) = Ascending(IdsOf(m), n) BY <1>1, <1>3, AscendingSame
  <2>2. Ascending(IdsOf(x), n + 1) = Append(Ascending(IdsOf(x), n), n)
    BY <1>1, <1>3, AscendingNext
  <2> QED BY <1>2, <2>1, <2>2 DEF Indexed, n
<1>5. ASSUME NEW t \in Tags
      PROVE  x.tagIdx[t] = Ascending(Carriers(x, t), n + 1)
  <2>1. \A i \in 0..n - 1 : i \in Carriers(x, t) <=> i \in Carriers(m, t)
    BY <1>1, <1>3 DEF Carriers
  <2>2. Ascending(Carriers(x, t), n) = Ascending(Carriers(m, t), n)
    BY <1>1, <2>1, AscendingSame
  <2>3. n \in Carriers(x, t) <=> t \in in.tags BY <1>3 DEF Carriers
  <2>4. /\ n \in Carriers(x, t) => Ascending(Carriers(x, t), n + 1) = Append(Ascending(Carriers(x, t), n), n)
        /\ n \notin Carriers(x, t) => Ascending(Carriers(x, t), n + 1) = Ascending(Carriers(x, t), n)
    BY <1>1, AscendingNext
  <2>5. m.tagIdx[t] = Ascending(Carriers(m, t), n) BY DEF Indexed, n
  <2> QED BY <1>2, <2>2, <2>3, <2>4, <2>5
<1>6. ASSUME NEW t \in Tags
      PROVE  x.catalog[t] = Cardinality(Counting(x, t))
  <2> DEFINE C == Counting(m, t)
  <2>1. IsFiniteSet(C) BY FewFacts
  <2>2. n \notin C BY <1>1 DEF Counting, Carriers
  <2>3. Counting(x, t) = IF t \in in.tags THEN C \cup {n} ELSE C
    BY <1>1, <1>3 DEF Counting, Carriers
  <2>4. m.catalog[t] = Cardinality(C) BY DEF Indexed
  <2> HIDE DEF C
  <2>5. Cardinality(C \cup {n}) = Cardinality(C) + 1 BY <2>1, <2>2, FS_AddElement
  <2> QED BY <1>2, <2>3, <2>4, <2>5
<1> QED BY <1>2, <1>3, <1>4, <1>5, <1>6 DEF Indexed

\* A fact that is no longer current leaves the lists as they are, and counts no more.
LEMMA EndedIndexed ==
  ASSUME NEW m, Shape(m), Indexed(m), NEW ended \in IdsOf(m), IsCurrent(m.facts[ended]), NEW x,
         Revalued(m, x), x.catalog = Discounted(m.catalog, m.aux[ended], 1),
         ~IsCurrent(x.facts[ended]),
         \A id \in IdsOf(m) : id # ended => x.facts[id] = m.facts[id]
  PROVE  Indexed(x)
<1>1. /\ x.docs = m.docs /\ x.next = m.next /\ x.aux = m.aux /\ x.tagIdx = m.tagIdx
      /\ IdsOf(x) = IdsOf(m) /\ \A t : Carriers(x, t) = Carriers(m, t)
  BY DEF Revalued, Carriers
<1>2. ASSUME NEW t \in Tags PROVE x.catalog[t] = Cardinality(Counting(x, t))
  <2> DEFINE C == Counting(m, t)
  <2>1. IsFiniteSet(C) /\ Cardinality(C) \in Nat BY FewFacts
  <2>2. m.catalog[t] = Cardinality(C) BY DEF Indexed
  <2>3. x.catalog[t] = IF t \notin m.aux[ended] THEN m.catalog[t]
                       ELSE IF m.catalog[t] >= 1 THEN m.catalog[t] - 1 ELSE 0
    BY DEF Discounted
  <2>4. Counting(x, t) = C \ {ended} BY <1>1 DEF Counting, Carriers
  <2>5. ended \in C <=> t \in m.aux[ended] BY DEF Counting, Carriers
  <2> HIDE DEF C
  <2>6. Cardinality(C \ {ended}) = IF ended \in C THEN Cardinality(C) - 1 ELSE Cardinality(C)
    BY <2>1, FS_RemoveElement
  <2>7. ended \in C => Cardinality(C) >= 1 BY <2>1, FS_EmptySet
  <2> QED BY <2>1, <2>2, <2>3, <2>4, <2>5, <2>6, <2>7
<1> QED BY <1>1, <1>2 DEF Indexed

\* A purge keeps what is current and rebuilds the lists from what it keeps.
LEMMA PurgeIndexed ==
  ASSUME NEW m, Shape(m), Indexed(m)
  PROVE  Indexed(Purge(m))
<1> DEFINE x == Purge(m)
           live == {id \in IdsOf(m) : ~m.facts[id].tomb}
<1>1. /\ IdsOf(x) = live /\ \A id \in live : x.facts[id] = m.facts[id]
      /\ DOMAIN x.aux = live /\ \A id \in live : x.aux[id] = m.aux[id]
      /\ x.docs = KeepIn(m.docs, live)
      /\ x.tagIdx = [t \in Tags |-> Ascending({id \in live : t \in m.aux[id]}, m.next)]
      /\ x.catalog = m.catalog /\ x.next = m.next
  BY PurgeFields
<1> HIDE DEF x
<1>2. x.docs = Ascending(IdsOf(x), x.next)
  <2>1. IdsOf(m) \cap live = live OBVIOUS
  <2>2. m.next \in Nat BY FewFacts
  <2>3. m.docs = Ascending(IdsOf(m), m.next) BY DEF Indexed
  <2> HIDE DEF live
  <2>4. KeepIn(Ascending(IdsOf(m), m.next), live) = Ascending(IdsOf(m) \cap live, m.next)
    BY <2>2, AscendingKeep
  <2> QED BY <1>1, <2>1, <2>3, <2>4
<1>3. ASSUME NEW t \in Tags
      PROVE  x.tagIdx[t] = Ascending(Carriers(x, t), x.next)
  <2>1. {id \in live : t \in m.aux[id]} = Carriers(x, t) BY <1>1 DEF Carriers
  <2> QED BY <1>1, <2>1
<1>4. ASSUME NEW t \in Tags
      PROVE  x.catalog[t] = Cardinality(Counting(x, t))
  <2>1. Counting(x, t) = Counting(m, t) BY <1>1 DEF Counting, Carriers, IsCurrent
  <2> QED BY <1>1, <2>1 DEF Indexed
<1> QED BY <1>1, <1>2, <1>3, <1>4 DEF Indexed, x

\* What is all in S is all kept.
LEMMA KeepAll ==
  ASSUME NEW S, NEW s \in Seq(S) PROVE KeepIn(s, S) = s
<1> DEFINE T == {t \in Seq(S) : KeepIn(t, S) = t}
<1>1. <<>> \in T
  <2>1. <<>> \in Seq(S) OBVIOUS
  <2> QED BY <2>1, KeepEmpty
<1>2. ASSUME NEW t \in Seq(S), NEW e \in S, t \in T PROVE Append(t, e) \in T
  <2>1. Append(t, e) \in Seq(S) OBVIOUS
  <2> QED BY <1>2, <2>1, KeepAppend
<1> HIDE DEF T
<1>3. s \in T BY <1>1, <1>2, Naturally!InductiveSeq
<1> QED BY <1>3 DEF T

\* remove_tag replaces the current carriers of the tag, each once.
LEMMA TargetsAreCounted ==
  ASSUME NEW m, Shape(m), Indexed(m), NEW tag \in Tags
  PROVE  LET s == RemoveTagTargets(m, tag)
         IN  /\ Len(s) = Cardinality(Counting(m, tag)) /\ Len(s) \in Nat
             /\ {s[i] : i \in 1..Len(s)} = Counting(m, tag)
             /\ \A i, j \in 1..Len(s) : s[i] = s[j] => i = j
<1> DEFINE C == Counting(m, tag)
           R == {id \in IdsOf(m) : Revisable(m, id)}
<1>1. m.next \in Nat /\ C \in SUBSET (0..m.next - 1) /\ Cardinality(C) \in Nat
  BY FewFacts DEF Counting
<1>2. Carriers(m, tag) \cap R = C
  BY DEF Counting, Carriers, Revisable
<1>3. m.tagIdx[tag] = Ascending(Carriers(m, tag), m.next) BY DEF Indexed
<1> HIDE DEF C
<1>4. RemoveTagTargets(m, tag) = KeepIn(Ascending(Carriers(m, tag), m.next), R)
  BY <1>3 DEF RemoveTagTargets
<1> HIDE DEF R
<1>5. RemoveTagTargets(m, tag) = Ascending(C, m.next)
  BY <1>1, <1>2, <1>4, AscendingKeep
<1> QED BY <1>1, <1>5, AscendingLists DEF C

\* The successors come last in the lists of the tags they keep, and take their
\* targets' places in the counts.
LEMMA RemoveTagIndexed ==
  ASSUME NEW m, Shape(m), Indexed(m), NEW tag \in Tags, NEW now \in Times, NEW x,
         Retagged(m, x, now, tag)
  PROVE  Indexed(x)
<1> DEFINE n   == m.next
           s   == RemoveTagTargets(m, tag)
           k   == Len(s)
           new == NewIds(m, tag)
           ids == [i \in 1..k |-> n + i - 1]
           of(id) == Succeeded(m, tag, id)
<1>1. n \in Nat /\ n \notin IdsOf(m) /\ IdsOf(m) \in SUBSET (0..n - 1)
  BY FewFacts
<1>2. /\ k \in Nat /\ k = Cardinality(Counting(m, tag))
      /\ {s[i] : i \in 1..k} = Counting(m, tag)
      /\ \A i, j \in 1..k : s[i] = s[j] => i = j
  BY TargetsAreCounted
<1>3. new = n..n + k - 1 /\ \A id : of(id) = s[id - n + 1]
  BY DEF NewIds, Succeeded
<1>4. ids \in Seq(new) /\ ToSet(s) = Counting(m, tag)
  <2>1. \A i \in 1..k : n + i - 1 \in n..n + k - 1 BY <1>1, <1>2
  <2>2. ToSet(s) = {s[i] : i \in 1..k}
    <3>1. s \in Seq({id \in IdsOf(m) : Revisable(m, id)}) BY TargetsAreCurrent
    <3> HIDE DEF s
    <3> QED BY <3>1 DEF ToSet
  <2>3. ids \in Seq(n..n + k - 1)
    <3> HIDE DEF n, k
    <3> DEFINE R == n..n + k - 1
    <3>1. ids \in [1..k -> R] BY <2>1
    <3>2. k \in Nat BY <1>2
    <3> HIDE DEF ids, R
    <3>3. ids \in Seq(R) BY <3>1, <3>2
    <3> QED BY <3>3 DEF R
  <2> HIDE DEF ids, new, s
  <2> QED BY <1>2, <1>3, <2>2, <2>3
<1>5. /\ IdsOf(x) = IdsOf(m) \cup new /\ x.next = n + k
      /\ \A id \in new : x.facts[id] = Successor(m, now, of(id))
      /\ \A id \in IdsOf(m) : x.facts[id] = IF id \in Counting(m, tag)
                                            THEN [m.facts[id] EXCEPT !.to = now] ELSE m.facts[id]
      /\ x.docs = m.docs \o ids
      /\ \A t \in Tags : x.tagIdx[t] = m.tagIdx[t] \o KeepIn(ids, {id \in new : t \in LeftTags(m, tag, id)})
      /\ x.catalog = Discounted(m.catalog, {tag}, k)
  BY <1>4 DEF Retagged
<1>6. /\ DOMAIN x.aux = IdsOf(m) \cup new
      /\ \A id \in IdsOf(m) : x.aux[id] = m.aux[id] /\ id \notin new
      /\ \A id \in new : x.aux[id] = LeftTags(m, tag, id) /\ id \notin IdsOf(m)
  <2>1. /\ DOMAIN m.aux = IdsOf(m)
        /\ DOMAIN x.aux = DOMAIN m.aux \cup new /\ \A id \in DOMAIN m.aux : x.aux[id] = m.aux[id]
        /\ \A id \in new \ DOMAIN m.aux : x.aux[id] = LeftTags(m, tag, id)
    BY DEF Retagged, Indexed
  <2>2. \A id \in IdsOf(m) : id \notin new BY <1>1, <1>2, <1>3
  <2> HIDE DEF new
  <2> QED BY <2>1, <2>2
<1>7. \A id \in new : of(id) \in Counting(m, tag) /\ id - n + 1 \in 1..k
  BY <1>1, <1>2, <1>3
<1>8. \A id \in Counting(m, tag) : id \in IdsOf(m) /\ tag \in m.aux[id] /\ IsCurrent(m.facts[id])
  BY DEF Counting, Carriers
<1> HIDE DEF n, s, k, new, ids
<1>9. x.docs = Ascending(IdsOf(x), n + k)
  <2>1. Ascending(IdsOf(x), n + k) = Ascending(IdsOf(x), n) \o KeepIn(ids, IdsOf(x))
    BY <1>1, <1>2, AscendingOn DEF ids
  <2>2. Ascending(IdsOf(x), n) = Ascending(IdsOf(m), n)
    <3>1. \A i \in 0..n - 1 : i \in IdsOf(x) <=> i \in IdsOf(m) BY <1>1, <1>3, <1>5
    <3> QED BY <1>1, <3>1, AscendingSame
  <2>3. KeepIn(ids, IdsOf(x)) = ids
    <3>1. new \cap IdsOf(x) = new \cap new BY <1>5
    <3>2. KeepIn(ids, IdsOf(x)) = KeepIn(ids, new) BY <1>4, <3>1, KeepSame
    <3> QED BY <1>4, <3>2, KeepAll
  <2> QED BY <1>5, <2>1, <2>2, <2>3 DEF Indexed, n
<1>10. ASSUME NEW t \in Tags PROVE x.tagIdx[t] = Ascending(Carriers(x, t), n + k)
  <2> DEFINE L == {id \in new : t \in LeftTags(m, tag, id)}
             S == Carriers(x, t)
  <2>1. Ascending(S, n + k) = Ascending(S, n) \o KeepIn(ids, S)
    <3> HIDE DEF S
    <3> QED BY <1>1, <1>2, AscendingOn DEF ids
  <2>2. Ascending(S, n) = Ascending(Carriers(m, t), n)
    <3>1. \A i \in 0..n - 1 : i \in S <=> i \in Carriers(m, t)
      BY <1>1, <1>3, <1>5, <1>6 DEF Carriers
    <3> HIDE DEF S
    <3> QED BY <1>1, <3>1, AscendingSame
  <2>3. KeepIn(ids, S) = KeepIn(ids, L)
    <3>1. new \cap S = new \cap L BY <1>5, <1>6 DEF Carriers
    <3> HIDE DEF S, L
    <3> QED BY <1>4, <3>1, KeepSame
  <2>4. m.tagIdx[t] = Ascending(Carriers(m, t), n) BY DEF Indexed, n
  <2>5. x.tagIdx[t] = m.tagIdx[t] \o KeepIn(ids, L) BY <1>5
  <2> HIDE DEF S, L
  <2> QED BY <2>1, <2>2, <2>3, <2>4, <2>5 DEF S
<1>11. x.catalog[tag] = Cardinality(Counting(x, tag))
  <2>1. Counting(x, tag) = {}
    <3>1. \A id \in new : tag \notin x.aux[id] BY <1>6 DEF LeftTags
    <3>2. \A id \in Counting(m, tag) : ~IsCurrent(x.facts[id])
      <4>1. \A id \in Counting(m, tag) : x.facts[id].to = now
        <5>1. \A id \in IdsOf(m) : m.facts[id] \in FactShape BY DEF Shape, FactsShape
        <5> QED BY <1>5, <1>8, <5>1 DEF FactShape
      <4> QED BY <4>1, EngineAssumption DEF IsCurrent, IsClosed, Times, OpenEnd
    <3>3. \A id \in IdsOf(m) \ Counting(m, tag) : tag \in m.aux[id] => ~IsCurrent(x.facts[id])
      BY <1>5 DEF Counting, Carriers
    <3> QED BY <1>5, <1>6, <3>1, <3>2, <3>3 DEF Counting, Carriers
  <2>2. m.catalog[tag] = k BY <1>2 DEF Indexed
  <2>3. x.catalog[tag] = 0 BY <1>2, <1>5, <2>2 DEF Discounted
  <2> QED BY <2>1, <2>3, FS_EmptySet
<1>12. ASSUME NEW t \in Tags, t # tag PROVE x.catalog[t] = Cardinality(Counting(x, t))
  <2> DEFINE C == Counting(m, t)
             D == Counting(x, t)
             f == [id \in D |-> IF id \in new THEN of(id) ELSE id]
  <2>1. x.catalog[t] = Cardinality(C) BY <1>5, <1>12 DEF Discounted, Indexed
  <2>2. IsFiniteSet(D) BY RemoveTagShape, FewFacts
  <2>3. \A id \in new : id \in D <=> of(id) \in C
    <3>1. \A id \in new : t \in x.aux[id] <=> t \in m.aux[of(id)]
      BY <1>6, <1>12 DEF LeftTags
    <3>2. \A id \in Counting(m, tag) : IsCurrent(Successor(m, now, id))
      <4>1. \A id \in IdsOf(m) : m.facts[id] \in FactShape BY DEF Shape, FactsShape
      <4> QED BY <1>8, <4>1 DEF Successor, FactShape, IsCurrent, IsClosed
    <3>3. \A id \in new : IsCurrent(x.facts[id]) BY <1>5, <1>7, <3>2
    <3>4. \A id \in new : of(id) \in IdsOf(m) /\ IsCurrent(m.facts[of(id)]) BY <1>7, <1>8
    <3> QED BY <1>5, <3>1, <3>3, <3>4 DEF Counting, Carriers
  <2>4. \A id \in IdsOf(m) : id \in D <=> id \in C /\ id \notin Counting(m, tag)
    <3>1. \A id \in Counting(m, tag) : ~IsCurrent(x.facts[id])
      <4>1. \A id \in Counting(m, tag) : x.facts[id].to = now
        <5>1. \A id \in IdsOf(m) : m.facts[id] \in FactShape BY DEF Shape, FactsShape
        <5> QED BY <1>5, <1>8, <5>1 DEF FactShape
      <4> QED BY <4>1, EngineAssumption DEF IsCurrent, IsClosed, Times, OpenEnd
    <3> QED BY <1>5, <1>6, <3>1 DEF Counting, Carriers
  <2>5. D \subseteq IdsOf(m) \cup new /\ C \subseteq IdsOf(m)
    BY <1>5 DEF Counting, Carriers
  <2> HIDE DEF C, D
  <2>6. f \in [D -> C] BY <2>3, <2>4, <2>5
  <2>7. ASSUME NEW a \in D, NEW b \in D, f[a] = f[b] PROVE a = b
    <3>1. CASE a \in new /\ b \in new
      <4>1. s[a - n + 1] = s[b - n + 1] BY <1>3, <2>7, <3>1
      <4>2. a - n + 1 = b - n + 1 BY <1>2, <1>7, <3>1, <4>1
      <4> QED BY <1>1, <1>2, <1>3, <3>1, <4>2
    <3>2. CASE a \notin new /\ b \notin new BY <2>7, <3>2
    <3>3. CASE a \in new /\ b \notin new
      BY <1>7, <2>4, <2>5, <2>7, <3>3
    <3>4. CASE a \notin new /\ b \in new
      BY <1>7, <2>4, <2>5, <2>7, <3>4
    <3> QED BY <3>1, <3>2, <3>3, <3>4
  <2>8. ASSUME NEW c \in C PROVE \E d \in D : f[d] = c
    <3>1. CASE c \in Counting(m, tag)
      <4>1. PICK i \in 1..k : s[i] = c BY <1>2, <3>1
      <4>2. n + i - 1 \in new /\ (n + i - 1) - n + 1 = i BY <1>1, <1>2, <1>3, <4>1
      <4>3. of(n + i - 1) = c BY <1>3, <4>1, <4>2
      <4> QED BY <2>3, <4>2, <4>3
    <3>2. CASE c \notin Counting(m, tag)
      <4>1. c \in D /\ c \notin new BY <1>6, <2>4, <2>5, <3>2
      <4> QED BY <4>1
    <3> QED BY <3>1, <3>2
  <2> HIDE DEF f
  <2>9. ExistsBijection(D, C)
    BY <2>6, <2>7, <2>8 DEF ExistsBijection, Bijection, Injection, Surjection, IsInjective
  <2>10. Cardinality(C) = Cardinality(D) BY <2>2, <2>9, FS_Bijection
  <2> QED BY <2>1, <2>10 DEF D
<1>13. DOMAIN x.aux = IdsOf(x) BY <1>5, <1>6
<1> QED BY <1>5, <1>9, <1>10, <1>11, <1>12, <1>13 DEF Indexed

\* Facts, lists and counts that are the same.
LEMMA SameIndexed ==
  ASSUME NEW m, Indexed(m), NEW x,
         x.facts = m.facts, x.aux = m.aux, x.docs = m.docs, x.tagIdx = m.tagIdx,
         x.catalog = m.catalog, x.next = m.next
  PROVE  Indexed(x)
<1>1. IdsOf(x) = IdsOf(m) BY DEF IdsOf
<1>2. \A t \in Tags : Carriers(x, t) = Carriers(m, t) /\ Counting(x, t) = Counting(m, t)
  BY <1>1 DEF Carriers, Counting
<1> QED BY <1>1, <1>2 DEF Indexed

\* forget: a current fact counts no more, another did not count.
LEMMA ForgetIndexed ==
  ASSUME NEW m, Shape(m), Indexed(m), NEW id \in IdsOf(m)
  PROVE  Indexed(ApplyForget(m, id))
<1> DEFINE x == ApplyForget(m, id)
<1>0. m.facts[id] \in FactShape BY DEF Shape, FactsShape
<1>1. /\ Revalued(m, x)
      /\ \A i \in IdsOf(m) : x.facts[i] = IF i = id THEN [m.facts[id] EXCEPT !.tomb = TRUE]
                                          ELSE m.facts[i]
      /\ x.catalog = IF IsCurrent(m.facts[id]) THEN Discounted(m.catalog, m.aux[id], 1)
                     ELSE m.catalog
  BY ForgetFields
<1> HIDE DEF x
<1>2. ~IsCurrent(x.facts[id]) BY <1>0, <1>1 DEF IsCurrent, FactShape
<1>3. CASE IsCurrent(m.facts[id])
  BY <1>1, <1>2, <1>3, EndedIndexed DEF x
<1>4. CASE ~IsCurrent(m.facts[id])
  <2>1. /\ IdsOf(x) = IdsOf(m) /\ x.aux = m.aux /\ x.docs = m.docs /\ x.tagIdx = m.tagIdx
        /\ x.next = m.next /\ x.catalog = m.catalog
    BY <1>1, <1>4 DEF Revalued
  <2>2. \A t \in Tags : Carriers(x, t) = Carriers(m, t) /\ Counting(x, t) = Counting(m, t)
    BY <1>1, <1>2, <1>4, <2>1 DEF Carriers, Counting
  <2> QED BY <2>1, <2>2 DEF Indexed, x
<1> QED BY <1>3, <1>4

\* revise: the successor counts, the target no more.
LEMMA ReviseIndexed ==
  ASSUME NEW m, Shape(m), Indexed(m), NEW in \in Wanted, NEW target \in IdsOf(m),
         Revisable(m, target)
  PROVE  Indexed(ApplyRevise(m, in, target))
<1> DEFINE x == ApplyRemember(m, in, target)
           y == CloseTarget(x, target, in.from)
<1>1. target \in Nat /\ m.next \notin IdsOf(m) BY FewFacts DEF Shape, FactsShape
<1>2. Remembered(m, x, in, target) BY RememberFields
<1> HIDE DEF x
<1>3. Shape(x) /\ Indexed(x) BY <1>1, <1>2, RememberShape, RememberIndexed
<1>4. /\ IdsOf(x) = IdsOf(m) \cup {m.next} /\ x.facts[target] = m.facts[target]
      /\ target \in IdsOf(x) /\ in.from \in Times
  BY <1>1, <1>2 DEF Remembered, Put, IdsOf, Wanted, Inputs
<1>5. /\ Revalued(x, y)
      /\ \A i \in IdsOf(x) : y.facts[i] = IF i = target THEN [x.facts[target] EXCEPT !.to = in.from]
                                          ELSE x.facts[i]
      /\ y.catalog = Discounted(x.catalog, x.aux[target], 1)
  BY <1>3, <1>4, CloseTargetFields
<1> HIDE DEF y
<1>6. x.facts[target] \in FactShape BY <1>3, <1>4 DEF Shape, FactsShape
<1>7. ~IsCurrent(y.facts[target])
  BY <1>4, <1>5, <1>6, EngineAssumption DEF FactShape, IsCurrent, IsClosed, Times, OpenEnd
<1>8. IsCurrent(x.facts[target]) BY <1>4 DEF Revisable
<1>9. \A i \in IdsOf(x) : i # target => y.facts[i] = x.facts[i] BY <1>5
<1>10. y.catalog = Discounted(x.catalog, x.aux[target], 1) BY <1>5
<1>11. Indexed(y)
  BY <1>3, <1>4, <1>5, <1>7, <1>8, <1>9, <1>10, EndedIndexed
<1> QED BY <1>11 DEF ApplyRevise, x, y

\* Every verb.
LEMMA IndexedStep ==
  ASSUME MemoryInv, sound => Indexed(mem), [Next]_vars
  PROVE  (sound => Indexed(mem))'
<1>0. Shape(mem) BY DEF MemoryInv
<1>1. CASE Remember
  <2>1. PICK in \in Inputs(Links, InputVectors) :
          mem' = ApplyRemember(mem, in, NoFact) /\ sound' = sound
    BY <1>1 DEF Remember, Journal
  <2>2. in \in Wanted BY InputsAreWanted
  <2>3. Remembered(mem, mem', in, NoFact) BY <1>0, <2>1, <2>2, RememberFields
  <2> QED BY <1>0, <2>1, <2>2, <2>3, RememberIndexed
<1>2. CASE Revise
  <2>1. PICK in \in Inputs(Links, InputVectors), id \in IdsOf(mem) :
          Revisable(mem, id) /\ mem' = ApplyRevise(mem, in, id) /\ sound' = sound
    BY <1>2 DEF Revise, Journal
  <2>2. in \in Wanted BY InputsAreWanted
  <2> QED BY <1>0, <2>1, <2>2, ReviseIndexed
<1>3. CASE RefusedRemember BY <1>3 DEF RefusedRemember
<1>4. CASE Forget
  <2>1. PICK id \in IdsOf(mem) : mem' = ApplyForget(mem, id) /\ sound' = sound
    BY <1>4 DEF Forget, Journal
  <2> QED BY <1>0, <2>1, ForgetIndexed
<1>5. CASE RemoveTag
  <2>1. PICK tag \in Tags, now \in Times : mem' = ApplyRemoveTag(mem, now, tag) /\ sound' = sound
    BY <1>5 DEF RemoveTag, Journal
  <2>2. Retagged(mem, mem', now, tag) BY <1>0, <2>1, RemoveTagFields
  <2> QED BY <1>0, <2>1, <2>2, RemoveTagIndexed
<1>6. CASE Link
  <2>1. PICK e \in Edges, now \in Times, fact \in {NoFact} \cup (0..mem.next - 1) :
          mem' = OpenEdge(mem, e, now, fact) /\ sound' = sound
    BY <1>6 DEF Link, Journal
  <2>2. fact \in Nat \cup {NoFact} BY <1>0, <2>1 DEF Shape, FactsShape
  <2>3. Grown(mem, mem') BY <1>0, <2>1, <2>2, OpenEdgeGrows
  <2> QED BY <2>1, <2>3, SameIndexed DEF Grown
<1>7. CASE Unlink
  <2>1. PICK e \in Edges, now \in Times : mem' = CloseEdge(mem, e, now) /\ sound' = sound
    BY <1>7 DEF Unlink, Journal
  <2>2. Grown(mem, mem') BY <1>0, <2>1, CloseEdgeGrows
  <2> QED BY <2>1, <2>2, SameIndexed DEF Grown
<1>8. CASE ClaimVectorSpace
  <2>1. PICK s \in Spaces : mem' = [mem EXCEPT !.space = s] /\ sound' = sound
    BY <1>8 DEF ClaimVectorSpace, Journal
  <2>2. /\ mem'.facts = mem.facts /\ mem'.aux = mem.aux /\ mem'.docs = mem.docs
        /\ mem'.tagIdx = mem.tagIdx /\ mem'.catalog = mem.catalog /\ mem'.next = mem.next
    BY <1>0, <2>1 DEF Shape, MemoryFields
  <2> QED BY <2>1, <2>2, SameIndexed
<1>9. CASE Maintain
  <2>1. mem' = Purge(mem) /\ sound' = sound BY <1>9 DEF Maintain, Journal
  <2> QED BY <1>0, <2>1, PurgeIndexed
<1>10. CASE UNCHANGED vars BY <1>10 DEF vars
<1> QED BY <1>1, <1>2, <1>3, <1>4, <1>5, <1>6, <1>7, <1>8, <1>9, <1>10 DEF Next

\* Without a refused verb the indexes and the facts agree.
LEMMA IndexesHold == Spec => [](sound => Indexed(mem))
<1>1. Init => (sound => Indexed(mem))
  <2> SUFFICES ASSUME Init PROVE Indexed(mem) OBVIOUS
  <2>1. /\ IdsOf(mem) = {} /\ mem.next = 0 /\ mem.docs = <<>> /\ DOMAIN mem.aux = {}
        /\ \A t \in Tags : mem.tagIdx[t] = <<>> /\ mem.catalog[t] = 0
    BY DEF Init, EmptyMemory, IdsOf
  <2>2. Ascending({}, 0) = <<>>
    <3>1. [i \in 1..0 |-> i - 1] = <<>> OBVIOUS
    <3> QED BY <3>1, KeepEmpty DEF Ascending
  <2>3. \A t : Carriers(mem, t) = {} /\ Counting(mem, t) = {} BY <2>1 DEF Carriers, Counting
  <2> QED BY <2>1, <2>2, <2>3, FS_EmptySet DEF Indexed
<1> QED BY <1>1, MemoryHolds, IndexedStep, PTL DEF Spec

\* Every posting list names the facts that belong in it, each once and ascending, and
\* the catalog counts them, after any mixture of verbs and purges.
THEOREM IndexesFollow == Spec => []IndexesAgree
<1>1. (sound => Indexed(mem)) => IndexesAgree
  BY DEF Indexed, IndexesAgree, Carriers, Counting, Facts
<1> QED BY <1>1, IndexesHold, PTL

-----------------------------------------------------------------------------
(* Revisions.                                                              *)

\* No caller's clock moves back, no valid_from is ahead of it or before the revised
\* fact's own.
WellClocked == Hazardous \cap {"clockBack", "misdated"} = {}

\* A successor comes after the fact it revises, begins where that ends, and is its only
\* one; no fact ends before it begins.
Chained(m) ==
  /\ \A b \in IdsOf(m) : m.facts[b].revises \in Nat => m.facts[b].revises < b
  /\ \A b \in IdsOf(m) : m.facts[b].revises \in IdsOf(m)
                           => m.facts[m.facts[b].revises].to = m.facts[b].from
  /\ \A b, c \in IdsOf(m) : m.facts[b].revises \in IdsOf(m) /\ m.facts[b].revises = m.facts[c].revises
                              => b = c
  /\ \A a \in IdsOf(m) : m.facts[a].from <= m.facts[a].to

\* The first revision of each fact that is retained with its successors.
RootBy(root) ==
  root = [id \in FactIds |-> IF id \notin IdsOf(mem) \/ Facts[id].revises \notin IdsOf(mem)
                             THEN id ELSE root[Facts[id].revises]]

\* There is such a function.
LEMMA RootExists ==
  ASSUME Shape(mem), mem.next <= MaxFacts, Chained(mem)
  PROVE  \E root : RootBy(root)
<1> DEFINE Upto(n, g) ==
             g = [id \in 0..n - 1 |-> IF id \notin IdsOf(mem) \/ Facts[id].revises \notin IdsOf(mem)
                                      THEN id ELSE g[Facts[id].revises]]
           T == {n \in Nat : \E g : Upto(n, g)}
<1>0. \A id \in IdsOf(mem) : Facts[id].revises \in IdsOf(mem) =>
        Facts[id].revises \in Nat /\ Facts[id].revises < id
  BY DEF Chained, Shape, FactsShape, Facts
<1>1. 0 \in T
  <2>1. Upto(0, [id \in 0..0 - 1 |-> 0]) OBVIOUS
  <2> QED BY <2>1
<1>2. ASSUME NEW n \in Nat, n \in T PROVE n + 1 \in T
  <2>1. PICK g : Upto(n, g) BY <1>2
  <2> DEFINE h == [id \in 0..(n + 1) - 1 |->
                     IF id = n
                     THEN IF id \notin IdsOf(mem) \/ Facts[id].revises \notin IdsOf(mem)
                          THEN id ELSE g[Facts[id].revises]
                     ELSE g[id]]
  <2>2. ASSUME NEW id \in 0..(n + 1) - 1
        PROVE  h[id] = IF id \notin IdsOf(mem) \/ Facts[id].revises \notin IdsOf(mem)
                       THEN id ELSE h[Facts[id].revises]
    <3>1. CASE id \notin IdsOf(mem) \/ Facts[id].revises \notin IdsOf(mem)
      BY <2>1, <3>1
    <3>2. CASE id \in IdsOf(mem) /\ Facts[id].revises \in IdsOf(mem)
      <4> DEFINE r == Facts[id].revises
      <4>1. r \in Nat /\ r < id /\ id <= n BY <1>0, <3>2
      <4>2. h[r] = g[r] /\ r \in 0..n - 1
        <5> HIDE DEF r
        <5> QED BY <4>1
      <4>3. h[id] = g[r]
        <5>1. CASE id = n BY <3>2, <5>1
        <5>2. CASE id # n
          <6>1. id \in 0..n - 1 /\ h[id] = g[id] BY <5>2
          <6> QED BY <2>1, <3>2, <6>1
        <5> QED BY <5>1, <5>2
      <4> HIDE DEF h, Upto
      <4> QED BY <3>2, <4>2, <4>3
    <3> QED BY <3>1, <3>2
  <2>3. h = [id \in 0..(n + 1) - 1 |-> h[id]] OBVIOUS
  <2> HIDE DEF h
  <2>4. Upto(n + 1, h) BY <2>2, <2>3
  <2> QED BY <2>4
<1> HIDE DEF T
<1>3. MaxFacts \in T BY <1>1, <1>2, Naturally!Inductive, EngineAssumption
<1> QED BY <1>3 DEF T, RootBy, FactIds

\* A chain is in order: between a fact and a later one of its chain is its successor.
LEMMA ChainsOrder ==
  ASSUME Shape(mem), mem.next <= MaxFacts, Chained(mem)
  PROVE  OneRevisionAtATime
<1> DEFINE root == CHOOSE root : RootBy(root)
           rev(id) == Facts[id].revises
<1>1. RootBy(root) BY RootExists
<1>2. \A id \in IdsOf(mem) : /\ id \in Nat /\ id \in FactIds
                             /\ Facts[id].from \in Nat /\ Facts[id].to \in Nat
                             /\ Facts[id].from <= Facts[id].to
  <2>1. \A id \in IdsOf(mem) : id \in Nat /\ id < mem.next /\ Facts[id] \in FactShape
    BY DEF Shape, FactsShape, Facts
  <2> QED BY <2>1, EngineAssumption DEF FactShape, FactIds, Times, OpenEnd, Chained, Shape,
             FactsShape, Facts
<1>3. /\ \A b \in IdsOf(mem) : rev(b) \in IdsOf(mem) => rev(b) < b /\ Facts[rev(b)].to = Facts[b].from
      /\ \A b, c \in IdsOf(mem) : rev(b) \in IdsOf(mem) /\ rev(b) = rev(c) => b = c
  BY <1>2 DEF Chained, Facts
<1> HIDE DEF root
<1>4. \A id \in IdsOf(mem) : root[id] = IF rev(id) \in IdsOf(mem) THEN root[rev(id)] ELSE id
  BY <1>1, <1>2 DEF RootBy
<1> DEFINE Below(b) == root[b] \in Nat /\ root[b] <= b
           Next1(b) == \A p \in IdsOf(mem) : p < b /\ root[p] = root[b]
                         => \E c \in IdsOf(mem) : rev(c) = p /\ c <= b
           Order(b) == \A a \in IdsOf(mem) : a < b /\ root[a] = root[b]
                         => Facts[a].to <= Facts[b].from
           T == {n \in Nat : \A id \in IdsOf(mem) : id < n => Below(id) /\ Next1(id) /\ Order(id)}
<1> HIDE DEF rev
<1>5. ASSUME NEW b \in IdsOf(mem),
             \A id \in IdsOf(mem) : id < b => Below(id) /\ Next1(id) /\ Order(id)
      PROVE  Below(b) /\ Next1(b) /\ Order(b)
  <2>1. CASE rev(b) \notin IdsOf(mem)
    <3>1. root[b] = b BY <1>4, <2>1
    <3>2. \A a \in IdsOf(mem) : a < b => root[a] # root[b] BY <1>2, <1>5, <3>1
    <3> QED BY <1>2, <3>1, <3>2
  <2>2. CASE rev(b) \in IdsOf(mem)
    <3> DEFINE q == rev(b)
    <3>1. q \in IdsOf(mem) /\ q < b /\ root[b] = root[q] /\ Facts[q].to = Facts[b].from
      BY <1>3, <1>4, <2>2
    <3>2. Below(b) BY <1>2, <1>5, <3>1
    <3>3. ASSUME NEW p \in IdsOf(mem), p < b, root[p] = root[b]
          PROVE  \E c \in IdsOf(mem) : rev(c) = p /\ c <= b
      <4>1. CASE p = q BY <1>2, <4>1
      <4>2. CASE p < q BY <1>2, <1>5, <3>1, <3>3, <4>2
      <4>3. CASE q < p
        <5>1. PICK c \in IdsOf(mem) : rev(c) = q /\ c <= p BY <1>5, <3>1, <3>3, <4>3
        <5>2. c = b BY <1>3, <3>1, <5>1
        <5> QED BY <1>2, <3>3, <5>1, <5>2
      <4> QED BY <1>2, <3>1, <4>1, <4>2, <4>3
    <3>4. ASSUME NEW a \in IdsOf(mem), a < b, root[a] = root[b]
          PROVE  Facts[a].to <= Facts[b].from
      <4>1. CASE a = q BY <1>2, <3>1, <4>1
      <4>2. CASE a < q
        <5>1. Facts[a].to <= Facts[q].from BY <1>5, <3>1, <3>4, <4>2
        <5> QED BY <1>2, <3>1, <5>1
      <4>3. CASE q < a
        <5>1. PICK c \in IdsOf(mem) : rev(c) = q /\ c <= a BY <1>5, <3>1, <3>4, <4>3
        <5>2. c = b BY <1>3, <3>1, <5>1
        <5> QED BY <1>2, <3>4, <5>1, <5>2
      <4> QED BY <1>2, <3>1, <4>1, <4>2, <4>3
    <3> QED BY <3>2, <3>3, <3>4
  <2> QED BY <2>1, <2>2
<1>6. 0 \in T BY <1>2
<1>7. ASSUME NEW n \in Nat, n \in T PROVE n + 1 \in T
  <2>1. \A id \in IdsOf(mem) : id < n => Below(id) /\ Next1(id) /\ Order(id) BY <1>7
  <2> HIDE DEF Below, Next1, Order
  <2>2. ASSUME NEW id \in IdsOf(mem), id < n + 1 PROVE Below(id) /\ Next1(id) /\ Order(id)
    <3>1. \A i \in IdsOf(mem) : i < id => i < n BY <1>2, <2>2
    <3> QED BY <1>5, <2>1, <3>1
  <2> QED BY <2>2
<1>8. mem.next \in T
  <2>1. mem.next \in Nat BY DEF Shape, FactsShape
  <2> HIDE DEF T
  <2> QED BY <2>1, <1>6, <1>7, Naturally!Inductive
<1>9. \A b \in IdsOf(mem) : Order(b)
  <2>1. \A id \in IdsOf(mem) : id < mem.next BY DEF Shape, FactsShape
  <2> HIDE DEF Below, Next1, Order
  <2> QED BY <1>8, <2>1
<1> QED BY <1>9 DEF OneRevisionAtATime, RootBy, root

\* The facts new succeed each an open fact of its own, which ends at the time they begin.
Succession(m, x, new, of, at) ==
  /\ IdsOf(x) = IdsOf(m) \cup new
  /\ \A b \in new : /\ b \in Nat /\ b >= m.next
                    /\ of[b] \in IdsOf(m) /\ x.facts[b].revises = of[b]
                    /\ x.facts[b].from = at /\ x.facts[b].to = OpenEnd
                    /\ m.facts[of[b]].to = OpenEnd /\ m.facts[of[b]].from <= at
                    /\ x.facts[of[b]].to = at
  /\ \A b, c \in new : of[b] = of[c] => b = c
  /\ \A a \in IdsOf(m) : /\ x.facts[a].revises = m.facts[a].revises
                         /\ x.facts[a].from = m.facts[a].from
                         /\ (\A b \in new : of[b] # a) => x.facts[a].to = m.facts[a].to

\* Such successors prolong the chains.
LEMMA SuccessorsChain ==
  ASSUME NEW m, Shape(m), Chained(m), NEW x, NEW new, NEW of, NEW at \in Times,
         Succession(m, x, new, of, at)
  PROVE  Chained(x)
<1>0. /\ IdsOf(x) = IdsOf(m) \cup new
      /\ \A b \in new : /\ b \in Nat /\ b >= m.next
                        /\ of[b] \in IdsOf(m) /\ x.facts[b].revises = of[b]
                        /\ x.facts[b].from = at /\ x.facts[b].to = OpenEnd
                        /\ m.facts[of[b]].to = OpenEnd /\ m.facts[of[b]].from <= at
                        /\ x.facts[of[b]].to = at
      /\ \A b, c \in new : of[b] = of[c] => b = c
      /\ \A a \in IdsOf(m) : /\ x.facts[a].revises = m.facts[a].revises
                             /\ x.facts[a].from = m.facts[a].from
                             /\ (\A b \in new : of[b] # a) => x.facts[a].to = m.facts[a].to
  BY DEF Succession
<1>1. /\ m.next \in Nat /\ \A a \in IdsOf(m) : a \in Nat /\ a < m.next
      /\ \A a \in IdsOf(m) : m.facts[a].from \in Times /\ a \notin new
      /\ NoFact \notin Nat /\ at \in Nat /\ at <= OpenEnd /\ OpenEnd \notin Times
  BY <1>0, EngineAssumption DEF Shape, FactsShape, FactShape, Times, OpenEnd
<1>2. \A b \in new : of[b] \in IdsOf(m) /\ of[b] \in Nat /\ of[b] < b BY <1>0, <1>1
<1>3. ASSUME NEW b \in IdsOf(m), x.facts[b].revises \in IdsOf(x)
      PROVE  /\ m.facts[b].revises \in IdsOf(m)
             /\ \A c \in new : of[c] # m.facts[b].revises
  <2> DEFINE p == m.facts[b].revises
  <2>1. p \in IdsOf(m) \cup new BY <1>0, <1>3
  <2>2. p \in Nat BY <1>0, <1>1, <2>1
  <2>3. p < b BY <1>0, <2>2 DEF Chained
  <2> HIDE DEF p
  <2>4. p \in IdsOf(m)
    <3>1. b \in Nat /\ b < m.next /\ m.next \in Nat BY <1>1
    <3>2. p \in new => p >= m.next BY <1>0
    <3> QED BY <2>1, <2>2, <2>3, <3>1, <3>2
  <2>5. m.facts[p].to = m.facts[b].from BY <1>0, <2>4 DEF Chained, p
  <2>6. m.facts[p].to # OpenEnd BY <1>0, <1>1, <2>5
  <2> QED BY <1>0, <2>4, <2>6 DEF p
<1>4. \A b \in IdsOf(x) : x.facts[b].revises \in Nat => x.facts[b].revises < b
  BY <1>0, <1>2 DEF Chained
<1>5. ASSUME NEW b \in IdsOf(x), x.facts[b].revises \in IdsOf(x)
      PROVE  x.facts[x.facts[b].revises].to = x.facts[b].from
  <2>1. CASE b \in new BY <1>0, <2>1
  <2>2. CASE b \in IdsOf(m)
    <3>1. m.facts[m.facts[b].revises].to = m.facts[b].from BY <1>0, <1>3, <1>5, <2>2 DEF Chained
    <3> QED BY <1>0, <1>3, <1>5, <2>2, <3>1
  <2> QED BY <1>0, <2>1, <2>2
<1>6. ASSUME NEW b \in IdsOf(x), NEW c \in IdsOf(x),
             x.facts[b].revises \in IdsOf(x), x.facts[b].revises = x.facts[c].revises
      PROVE  b = c
  <2>1. CASE b \in new /\ c \in new BY <1>0, <1>6, <2>1
  <2>2. CASE b \in IdsOf(m) /\ c \in IdsOf(m)
    <3>1. m.facts[b].revises \in IdsOf(m) /\ m.facts[b].revises = m.facts[c].revises
      BY <1>0, <1>3, <1>6, <2>2
    <3> QED BY <1>0, <2>2, <3>1 DEF Chained
  <2>3. CASE b \in new /\ c \in IdsOf(m)
    <3>1. \A d \in new : of[d] # m.facts[c].revises BY <1>0, <1>3, <1>6, <2>3
    <3> QED BY <1>0, <1>6, <2>3, <3>1
  <2>4. CASE b \in IdsOf(m) /\ c \in new
    <3>1. \A d \in new : of[d] # m.facts[b].revises BY <1>0, <1>3, <1>6, <2>4
    <3> QED BY <1>0, <1>6, <2>4, <3>1
  <2> QED BY <1>0, <2>1, <2>2, <2>3, <2>4
<1>7. ASSUME NEW a \in IdsOf(x) PROVE x.facts[a].from <= x.facts[a].to
  <2>1. CASE a \in new BY <1>0, <1>1, <2>1
  <2>2. CASE a \in IdsOf(m) /\ (\A b \in new : of[b] # a) BY <1>0, <2>2 DEF Chained
  <2>3. CASE a \in IdsOf(m) /\ \E b \in new : of[b] = a BY <1>0, <2>3
  <2> QED BY <1>0, <2>1, <2>2, <2>3
<1> QED BY <1>0, <1>4, <1>5, <1>6, <1>7 DEF Chained

\* Facts that end where they did, or are gone.
LEMMA FewerChained ==
  ASSUME NEW m, Chained(m), NEW x, IdsOf(x) \subseteq IdsOf(m),
         \A a \in IdsOf(x) : /\ x.facts[a].revises = m.facts[a].revises
                             /\ x.facts[a].from = m.facts[a].from
                             /\ x.facts[a].to = m.facts[a].to
  PROVE  Chained(x)
BY DEF Chained

\* No fact begins after the clock, and without a refused verb the chains hold.
ChainInv ==
  /\ \A id \in IdsOf(mem) : Facts[id].from <= clock
  /\ sound => Chained(mem)

\* Every verb keeps it, if callers date their facts well.
LEMMA ChainStep ==
  ASSUME WellClocked, MemoryInv, sound => Indexed(mem), ChainInv, [Next]_vars
  PROVE  ChainInv'
<1>0. /\ Shape(mem) /\ mem.next \in Nat /\ NoFact \notin Nat /\ clock \in Nat
      /\ \A id \in IdsOf(mem) : /\ id \in Nat /\ id < mem.next
                                /\ Facts[id] \in FactShape /\ Facts[id].from \in Nat
  BY EngineAssumption DEF MemoryInv, Shape, FactsShape, FactShape, Times, Facts
<1>00. \A now \in Times : Tick(now) => now >= clock /\ clock' = now /\ now \in Nat
  BY DEF Tick, WellClocked, Times
<1>1. CASE Remember
  <2>1. PICK in \in Inputs(Links, InputVectors) :
          Argument(in, 0) /\ mem' = ApplyRemember(mem, in, NoFact) /\ sound' = sound
    BY <1>1 DEF Remember, Journal
  <2>2. in.now \in Times /\ in.from \in Times BY InputsAreWanted
  <2>3. in.now >= clock /\ clock' = in.now /\ in.now \in Nat /\ in.from <= in.now
    BY <1>00, <2>1, <2>2 DEF Argument, WellDated, WellClocked
  <2>4. /\ IdsOf(mem') = IdsOf(mem) \cup {mem.next} /\ mem.next \notin IdsOf(mem)
        /\ mem'.facts[mem.next] = [revises |-> NoFact, from |-> in.from, to |-> OpenEnd,
                                   tomb |-> FALSE, vec |-> in.vec]
        /\ \A id \in IdsOf(mem) : mem'.facts[id] = Facts[id]
    BY <2>1, RememberStep
  <2>5. \A id \in IdsOf(mem') : mem'.facts[id].from <= clock'
    BY <1>0, <2>3, <2>4 DEF ChainInv
  <2>6. ASSUME Chained(mem) PROVE Chained(mem')
    <3>1. mem'.facts[mem.next].revises = NoFact /\ mem'.facts[mem.next].from = in.from
          /\ mem'.facts[mem.next].to = OpenEnd /\ in.from <= OpenEnd
      BY <2>2, <2>4, EngineAssumption DEF Times, OpenEnd
    <3>2. NoFact \notin IdsOf(mem') BY <1>0, <2>4
    <3>3. \A b \in IdsOf(mem) : mem'.facts[b].revises \in IdsOf(mem')
            => mem'.facts[b].revises \in IdsOf(mem)
      BY <1>0, <2>4, <2>6 DEF Chained, Facts
    <3> QED BY <1>0, <2>4, <2>6, <3>1, <3>2, <3>3 DEF Chained, Facts
  <2> QED BY <2>1, <2>5, <2>6 DEF ChainInv, Facts
<1>2. CASE Revise
  <2>1. PICK in \in Inputs(Links, InputVectors), id \in IdsOf(mem) :
          /\ Revisable(mem, id) /\ Argument(in, mem.facts[id].from)
          /\ mem' = ApplyRevise(mem, in, id) /\ sound' = sound
    BY <1>2 DEF Revise, Journal
  <2>2. in.now \in Times /\ in.from \in Times BY InputsAreWanted
  <2>3. /\ in.now >= clock /\ clock' = in.now /\ in.now \in Nat /\ in.from <= in.now
        /\ Facts[id].from <= in.from
    BY <1>00, <2>1, <2>2 DEF Argument, WellDated, WellClocked, Facts
  <2>4. /\ IdsOf(mem') = IdsOf(mem) \cup {mem.next} /\ mem.next \notin IdsOf(mem)
        /\ mem'.facts[mem.next] = [revises |-> id, from |-> in.from, to |-> OpenEnd,
                                   tomb |-> FALSE, vec |-> in.vec]
        /\ \A i \in IdsOf(mem) : mem'.facts[i] = IF i = id THEN [Facts[i] EXCEPT !.to = in.from]
                                                 ELSE Facts[i]
    BY <2>1, ReviseStep
  <2>5. \A i \in IdsOf(mem) : /\ mem'.facts[i].from = Facts[i].from
                              /\ mem'.facts[i].revises = Facts[i].revises
                              /\ mem'.facts[i].to = IF i = id THEN in.from ELSE Facts[i].to
    BY <1>0, <2>4 DEF FactShape
  <2>6. \A i \in IdsOf(mem') : mem'.facts[i].from <= clock'
    BY <1>0, <2>2, <2>3, <2>4, <2>5 DEF ChainInv
  <2>7. ASSUME Chained(mem) PROVE Chained(mem')
    <3> DEFINE new == {mem.next}
               of  == [b \in new |-> id]
    <3>1. Facts[id].to = OpenEnd BY <2>1 DEF Revisable, IsCurrent, IsClosed, Facts
    <3>2. /\ mem'.facts[mem.next].revises = id /\ mem'.facts[mem.next].from = in.from
          /\ mem'.facts[mem.next].to = OpenEnd /\ mem'.facts[id].to = in.from
      BY <2>4, <2>5
    <3>3. \A b \in new : of[b] = id /\ b = mem.next OBVIOUS
    <3>4. \A a \in IdsOf(mem) : (\A b \in new : of[b] # a) => a # id BY <3>3
    <3> HIDE DEF of
    <3>5. IdsOf(mem') = IdsOf(mem) \cup new BY <2>4
    <3>6. \A b, c \in new : of[b] = of[c] => b = c OBVIOUS
    <3> HIDE DEF new
    <3>7. \A b \in new : /\ b \in Nat /\ b >= mem.next
                         /\ of[b] \in IdsOf(mem) /\ mem'.facts[b].revises = of[b]
                         /\ mem'.facts[b].from = in.from /\ mem'.facts[b].to = OpenEnd
                         /\ mem.facts[of[b]].to = OpenEnd /\ mem.facts[of[b]].from <= in.from
                         /\ mem'.facts[of[b]].to = in.from
      BY <1>0, <2>1, <2>3, <3>1, <3>2, <3>3 DEF Facts
    <3>8. \A a \in IdsOf(mem) : /\ mem'.facts[a].revises = mem.facts[a].revises
                                /\ mem'.facts[a].from = mem.facts[a].from
                                /\ (\A b \in new : of[b] # a) => mem'.facts[a].to = mem.facts[a].to
      BY <2>5, <3>4 DEF Facts
    <3>9. Succession(mem, mem', new, of, in.from)
      BY <3>5, <3>6, <3>7, <3>8 DEF Succession
    <3> QED BY <1>0, <2>2, <2>7, <3>9, SuccessorsChain
  <2> QED BY <2>1, <2>6, <2>7 DEF ChainInv, Facts
<1>3. CASE RefusedRemember
  <2>1. PICK in \in Inputs(Links, InputVectors) : Argument(in, 0) /\ mem' = HalfRemembered(mem, in)
    BY <1>3 DEF RefusedRemember
  <2>2. in \in Wanted /\ in.now \in Times BY InputsAreWanted
  <2>3. mem'.facts = mem.facts BY <1>0, <2>1, <2>2, HalfRememberedShape
  <2>4. in.now >= clock /\ clock' = in.now /\ in.now \in Nat BY <1>00, <2>1, <2>2 DEF Argument
  <2>5. ~sound' BY <1>3 DEF RefusedRemember
  <2> QED BY <1>0, <2>3, <2>4, <2>5 DEF ChainInv, Facts, IdsOf
<1>4. CASE Forget
  <2>1. PICK id \in IdsOf(mem) : mem' = ApplyForget(mem, id) /\ UNCHANGED clock /\ sound' = sound
    BY <1>4 DEF Forget, Journal
  <2> DEFINE x == ApplyForget(mem, id)
  <2>2. /\ Revalued(mem, x)
        /\ \A i \in IdsOf(mem) : x.facts[i] = IF i = id THEN [mem.facts[id] EXCEPT !.tomb = TRUE]
                                              ELSE mem.facts[i]
    BY <1>0, ForgetFields
  <2> HIDE DEF x
  <2>3. IdsOf(x) = IdsOf(mem) BY <2>2 DEF Revalued
  <2>4. \A i \in IdsOf(x) : /\ x.facts[i].revises = mem.facts[i].revises
                            /\ x.facts[i].from = mem.facts[i].from
                            /\ x.facts[i].to = mem.facts[i].to
    BY <1>0, <2>2, <2>3 DEF FactShape, Facts
  <2>5. mem' = x BY <2>1 DEF x
  <2>6. Chained(mem) => Chained(x) BY <2>3, <2>4, FewerChained
  <2> QED BY <2>1, <2>3, <2>4, <2>5, <2>6 DEF ChainInv, Facts
<1>5. CASE RemoveTag
  <2>1. PICK tag \in Tags, now \in Times :
          Tick(now) /\ mem' = ApplyRemoveTag(mem, now, tag) /\ sound' = sound
    BY <1>5 DEF RemoveTag, Journal
  <2> DEFINE new == NewIds(mem, tag)
             of  == [b \in new |-> Succeeded(mem, tag, b)]
             s   == RemoveTagTargets(mem, tag)
  <2>2. Retagged(mem, mem', now, tag) BY <1>0, <2>1, RemoveTagFields
  <2>3. clock <= now /\ clock' = now /\ now \in Nat BY <1>00, <2>1
  <2>4. \A b \in new : /\ b \in Nat /\ b >= mem.next
                       /\ Succeeded(mem, tag, b) \in IdsOf(mem)
                       /\ Revisable(mem, Succeeded(mem, tag, b))
    BY <1>0, TargetsAreCurrent
  <2>5. \A b \in new : of[b] = Succeeded(mem, tag, b) OBVIOUS
  <2>6. /\ IdsOf(mem') = IdsOf(mem) \cup new
        /\ \A b \in new : mem'.facts[b] = Successor(mem, now, of[b])
        /\ \A a \in IdsOf(mem) : mem'.facts[a] = IF a \in ToSet(s) THEN [Facts[a] EXCEPT !.to = now]
                                                 ELSE Facts[a]
    BY <2>2, <2>5 DEF Retagged, Facts
  <2>7. \A a \in ToSet(s) : \E b \in new : of[b] = a
    <3>1. Len(s) \in Nat /\ s \in Seq({id \in IdsOf(mem) : Revisable(mem, id)})
      BY <1>0, TargetsAreCurrent
    <3>2. ASSUME NEW i \in 1..Len(s) PROVE mem.next + i - 1 \in new /\ of[mem.next + i - 1] = s[i]
      <4> HIDE DEF s
      <4>1. mem.next + i - 1 \in new BY <1>0, <3>1 DEF NewIds, s
      <4>2. (mem.next + i - 1) - mem.next + 1 = i BY <1>0, <3>1
      <4> QED BY <4>1, <4>2 DEF Succeeded, s
    <3>3. ToSet(s) = {s[i] : i \in 1..Len(s)} BY <3>1 DEF ToSet
    <3> HIDE DEF s, new, of
    <3> QED BY <3>2, <3>3
  <2>8. \A b \in new : of[b] \in ToSet(s)
    <3>1. Len(s) \in Nat /\ DOMAIN s = 1..Len(s) BY <1>0, TargetsAreCurrent
    <3> HIDE DEF s
    <3>2. \A b \in new : b - mem.next + 1 \in 1..Len(s) BY <1>0, <3>1 DEF NewIds, s
    <3> QED BY <2>5, <3>1, <3>2 DEF ToSet, Succeeded, s
  <2>9. \A a \in IdsOf(mem) : /\ mem'.facts[a].revises = Facts[a].revises
                              /\ mem'.facts[a].from = Facts[a].from
                              /\ mem'.facts[a].to = IF a \in ToSet(s) THEN now ELSE Facts[a].to
    BY <1>0, <2>6 DEF FactShape
  <2>10. \A b \in new : /\ of[b] \in IdsOf(mem) /\ Facts[of[b]].to = OpenEnd
                        /\ mem'.facts[b].revises = of[b] /\ mem'.facts[b].from = now
                        /\ mem'.facts[b].to = OpenEnd
    <3>1. \A b \in new : of[b] \in IdsOf(mem) /\ Facts[of[b]].to = OpenEnd
      BY <2>4, <2>5 DEF Revisable, IsCurrent, IsClosed, Facts
    <3>2. \A a \in IdsOf(mem) : /\ Successor(mem, now, a).revises = a
                                /\ Successor(mem, now, a).from = now
                                /\ Successor(mem, now, a).to = Facts[a].to
      BY <1>0 DEF Successor, FactShape, Facts
    <3> HIDE DEF of, new
    <3> QED BY <2>6, <3>1, <3>2
  <2> HIDE DEF of, new, s
  <2>11. \A a \in IdsOf(mem') : mem'.facts[a].from <= clock'
    BY <1>0, <2>3, <2>6, <2>9, <2>10 DEF ChainInv
  <2>12. ASSUME Chained(mem), Indexed(mem) PROVE Chained(mem')
    <3>1. \A b, c \in new : of[b] = of[c] => b = c
      <4>1. Len(s) \in Nat /\ \A i, j \in 1..Len(s) : s[i] = s[j] => i = j
        BY <1>0, <2>12, TargetsAreCounted DEF s
      <4>2. \A b \in new : /\ b \in Nat /\ b - mem.next + 1 \in 1..Len(s)
                           /\ of[b] = s[b - mem.next + 1]
        BY <1>0, <2>4, <2>5, <4>1 DEF NewIds, Succeeded, s, new
      <4>3. ASSUME NEW b \in new, NEW c \in new, of[b] = of[c] PROVE b = c
        <5>1. s[b - mem.next + 1] = s[c - mem.next + 1] BY <4>2, <4>3
        <5>2. b - mem.next + 1 = c - mem.next + 1 BY <4>1, <4>2, <5>1
        <5>3. b \in Nat /\ c \in Nat /\ mem.next \in Nat BY <1>0, <4>2
        <5> QED BY <5>2, <5>3
      <4> QED BY <4>3
    <3>2. \A b \in new : /\ b \in Nat /\ b >= mem.next
                         /\ of[b] \in IdsOf(mem) /\ mem'.facts[b].revises = of[b]
                         /\ mem'.facts[b].from = now /\ mem'.facts[b].to = OpenEnd
                         /\ mem.facts[of[b]].to = OpenEnd /\ mem.facts[of[b]].from <= now
                         /\ mem'.facts[of[b]].to = now
      BY <1>0, <2>3, <2>4, <2>8, <2>9, <2>10 DEF ChainInv, Facts
    <3>3. \A a \in IdsOf(mem) : /\ mem'.facts[a].revises = mem.facts[a].revises
                                /\ mem'.facts[a].from = mem.facts[a].from
                                /\ (\A b \in new : of[b] # a) => mem'.facts[a].to = mem.facts[a].to
      BY <2>7, <2>9 DEF Facts
    <3>4. Succession(mem, mem', new, of, now)
      BY <2>6, <3>1, <3>2, <3>3 DEF Succession
    <3> QED BY <1>0, <2>1, <2>12, <3>4, SuccessorsChain
  <2> QED BY <2>1, <2>11, <2>12 DEF ChainInv, Facts
<1>6. CASE Link
  <2>1. PICK e \in Edges, now \in Times, fact \in {NoFact} \cup (0..mem.next - 1) :
          Tick(now) /\ mem' = OpenEdge(mem, e, now, fact) /\ sound' = sound
    BY <1>6 DEF Link, Journal
  <2>2. fact \in Nat \cup {NoFact} BY <1>0, <2>1
  <2>3. mem'.facts = mem.facts BY <1>0, <2>1, <2>2, OpenEdgeGrows DEF Grown
  <2>4. Chained(mem) => Chained(mem') BY <2>3 DEF Chained, IdsOf
  <2> QED BY <1>0, <1>00, <2>1, <2>3, <2>4 DEF ChainInv, Facts, IdsOf
<1>7. CASE Unlink
  <2>1. PICK e \in Edges, now \in Times :
          Tick(now) /\ mem' = CloseEdge(mem, e, now) /\ sound' = sound
    BY <1>7 DEF Unlink, Journal
  <2>2. mem'.facts = mem.facts BY <1>0, <2>1, CloseEdgeGrows DEF Grown
  <2>3. Chained(mem) => Chained(mem') BY <2>2 DEF Chained, IdsOf
  <2> QED BY <1>0, <1>00, <2>1, <2>2, <2>3 DEF ChainInv, Facts, IdsOf
<1>8. CASE ClaimVectorSpace
  <2>1. PICK s \in Spaces : mem' = [mem EXCEPT !.space = s] /\ sound' = sound /\ UNCHANGED clock
    BY <1>8 DEF ClaimVectorSpace, Journal
  <2>2. mem'.facts = mem.facts BY <1>0, <2>1 DEF Shape, MemoryFields
  <2>3. Chained(mem) => Chained(mem') BY <2>2 DEF Chained, IdsOf
  <2> QED BY <2>1, <2>2, <2>3 DEF ChainInv, Facts, IdsOf
<1>9. CASE Maintain
  <2>1. mem' = Purge(mem) /\ sound' = sound /\ UNCHANGED clock BY <1>9 DEF Maintain, Journal
  <2>2. /\ IdsOf(mem') \subseteq IdsOf(mem) /\ \A id \in IdsOf(mem') : mem'.facts[id] = mem.facts[id]
    BY <1>0, <2>1, PurgeFields
  <2>3. Chained(mem) => Chained(mem') BY <2>2, FewerChained
  <2> QED BY <2>1, <2>2, <2>3 DEF ChainInv, Facts
<1>10. CASE UNCHANGED vars BY <1>10 DEF vars, ChainInv, Facts
<1> QED BY <1>1, <1>2, <1>3, <1>4, <1>5, <1>6, <1>7, <1>8, <1>9, <1>10 DEF Next

\* When callers date their facts well, a query as of any time sees one revision of a
\* fact and one version of an edge, as long as no remember was refused half-way.
THEOREM OneRevision ==
  ASSUME WellClocked
  PROVE  Spec => [](sound => OneAtATime)
<1>1. Init => ChainInv BY DEF Init, EmptyMemory, ChainInv, Chained, IdsOf, Facts
<1>2. MemoryInv /\ (sound => Indexed(mem)) /\ ChainInv /\ [Next]_vars => ChainInv'
  BY ChainStep
<1>3. MemoryInv /\ ChainInv /\ VersionsOrdered => (sound => OneAtATime)
  BY ChainsOrder DEF MemoryInv, ChainInv, OneAtATime
<1> QED BY <1>1, <1>2, <1>3, MemoryHolds, IndexesHold, VersionsInOrder, PTL DEF Spec

\* Where no remember is refused half-way it holds without a condition.
THEOREM OneVersionOfEverything ==
  ASSUME WellClocked, "refused" \notin Hazardous
  PROVE  Spec => []OneAtATime
<1>1. Init => sound BY DEF Init
<1>2. sound /\ [Next]_vars => sound'
  BY DEF Next, vars, Remember, Revise, RefusedRemember, Forget, RemoveTag, Link, Unlink,
         ClaimVectorSpace, Maintain, Journal
<1>3. Spec => []sound BY <1>1, <1>2, PTL DEF Spec
<1> QED BY <1>3, OneRevision, PTL

-----------------------------------------------------------------------------
(* What an image of a memory needs to be true of it.                       *)

\* The fields of a memory, and nothing else, are what it is.
Whole(m) == m = [f \in MemoryFields |-> m[f]]

\* The graph: a version for each id handed out, on the word of a fact in F.
Sourced(m, F) ==
  /\ Whole(m)
  /\ DOMAIN m.history = 0..m.nextEdge - 1
  /\ \A v \in DOMAIN m.history : m.history[v].fact \in F
  /\ m.current = [e \in DOMAIN m.current |-> m.current[e]]

\* No fact, or the id of one that was handed out.
Known(m) == {NoFact} \cup (0..m.next - 1)

\* Closing an edge adds no version.
LEMMA CloseEdgeSourced ==
  ASSUME NEW m, Shape(m), NEW F, Sourced(m, F), NEW e \in Edges, NEW now
  PROVE  Sourced(CloseEdge(m, e, now), F)
<1>1. CASE e \notin DOMAIN m.current BY <1>1 DEF CloseEdge
<1>2. CASE e \in DOMAIN m.current
  <2> DEFINE v == m.current[e]
             x == CloseEdge(m, e, now)
  <2>1. v \in DOMAIN m.history BY <1>2 DEF Shape, GraphShape
  <2>2. /\ x.history = [m.history EXCEPT ![v].to = CloseTime(m, e, now)]
        /\ x.current = Restrict(m.current, DOMAIN m.current \ {e})
        /\ x.nextEdge = m.nextEdge
    BY <1>2 DEF CloseEdge, Shape, MemoryFields
  <2>3. m.history[v] \in VersionShape BY <2>1 DEF Shape, GraphShape
  <2> HIDE DEF x, v
  <2>4. /\ DOMAIN x.history = DOMAIN m.history
        /\ x.history[v].fact = m.history[v].fact
        /\ \A w \in DOMAIN m.history : w # v => x.history[w] = m.history[w]
    BY <2>1, <2>2, <2>3 DEF VersionShape
  <2>5. x.current = [f \in DOMAIN x.current |-> x.current[f]]
    BY <2>2 DEF Restrict
  <2>6. Whole(x) BY <1>2 DEF CloseEdge, Shape, MemoryFields, Whole, x
  <2> QED BY <2>2, <2>4, <2>5, <2>6 DEF Sourced, x
<1> QED BY <1>1, <1>2

\* Opening one adds the version of the next id.
LEMMA OpenedSourced ==
  ASSUME NEW c, Shape(c), NEW F, Sourced(c, F), NEW e \in Edges, NEW now, NEW fact \in F
  PROVE  Sourced(Opened(c, e, now, fact), F)
<1> DEFINE x == Opened(c, e, now, fact)
           n == c.nextEdge
           r == [key |-> e, fact |-> fact, from |-> now, to |-> OpenEnd]
<1>1. /\ x.nextEdge = n + 1
      /\ x.history = Put(c.history, n, r) /\ x.current = Put(c.current, e, n)
  BY DEF Opened, Shape, MemoryFields
<1>2. n \in Nat BY DEF Shape, GraphShape
<1>3. r.fact = fact OBVIOUS
<1> HIDE DEF x, n, r
<1>4. /\ DOMAIN x.history = DOMAIN c.history \cup {n} /\ x.history[n] = r
      /\ \A v \in DOMAIN c.history : v # n => x.history[v] = c.history[v]
  BY <1>1 DEF Put
<1>5. (0..n - 1) \cup {n} = 0..(n + 1) - 1 BY <1>2
<1>6. x.current = [f \in DOMAIN x.current |-> x.current[f]] BY <1>1 DEF Put
<1>7. DOMAIN c.history = 0..n - 1 BY DEF Sourced, n
<1>8. n \notin DOMAIN c.history BY <1>2, <1>7
<1>9. DOMAIN x.history = 0..x.nextEdge - 1 BY <1>1, <1>4, <1>5, <1>7
<1>10. \A v \in DOMAIN x.history : x.history[v].fact \in F
  BY <1>3, <1>4, <1>8 DEF Sourced
<1>11. Whole(x) BY DEF Opened, Shape, MemoryFields, Whole, x
<1> QED BY <1>6, <1>9, <1>10, <1>11 DEF Sourced, x

\* open_edge.
LEMMA OpenEdgeSourced ==
  ASSUME NEW m, Shape(m), NEW F, Sourced(m, F), NEW e \in Edges, NEW now \in Times,
         NEW fact \in F
  PROVE  Sourced(OpenEdge(m, e, now, fact), F)
<1>1. CASE SameLink(m, e, fact) BY <1>1, OpenEdgeSteps
<1>2. CASE ~SameLink(m, e, fact)
  <2> DEFINE c == CloseEdge(m, e, now)
  <2>1. Shape(c) /\ Sourced(c, F) BY CloseEdgeGrows, GrownShape, CloseEdgeSourced
  <2>2. Sourced(Opened(c, e, now, fact), F) BY <2>1, OpenedSourced
  <2> QED BY <1>2, <2>2, OpenEdgeSteps
<1> QED BY <1>1, <1>2

\* The links of one remember.
LEMMA OpenLinksSourced ==
  ASSUME NEW m, Shape(m), NEW F, Sourced(m, F), m.next \in F,
         NEW links \in Seq(Edges \cup {BadName}), NEW now \in Times
  PROVE  Sourced(OpenLinks(m, links, now), F)
<1> DEFINE R == [op : {"Link"}, edge : Edges, now : {now}, fact : {m.next}]
<1>1. PICK l \in Seq(R) : OpenLinks(m, links, now) = FoldLeft(OpenLink, m, l)
  BY LinksOf
<1> DEFINE Good(x) == Shape(x) /\ Sourced(x, F)
           T == {k \in Seq(R) : Good(Linking!Folded(m, k))}
<1>2. <<>> \in T
  <2>1. <<>> \in Seq(R) OBVIOUS
  <2> QED BY <2>1, Linking!FoldEmpty
<1>3. ASSUME NEW k \in Seq(R), NEW r \in R, k \in T PROVE Append(k, r) \in T
  <2> DEFINE x == Linking!Folded(m, k)
             y == OpenEdge(x, r.edge, now, m.next)
  <2>1. Linking!Folded(m, Append(k, r)) = y BY Linking!FoldAppend DEF OpenLink
  <2>2. m.next \in Nat \cup {NoFact} BY DEF Shape, FactsShape
  <2>3. Shape(x) /\ Sourced(x, F) BY <1>3
  <2>4. Shape(y) BY <2>2, <2>3, OpenEdgeGrows, GrownShape
  <2>5. Sourced(y, F) BY <2>3, OpenEdgeSourced
  <2>6. Append(k, r) \in Seq(R) OBVIOUS
  <2> QED BY <2>1, <2>4, <2>5, <2>6
<1> HIDE DEF T
<1>4. l \in T BY <1>2, <1>3, Naturally!InductiveSeq
<1> QED BY <1>1, <1>4, LinksFold DEF T

\* Every id a memory holds is one it handed out.
Referenced(m) ==
  /\ Sourced(m, Known(m))
  /\ \A id \in IdsOf(m) : m.facts[id].revises \in Known(m)
  /\ m.catalog = [t \in Tags |-> m.catalog[t]]

\* The same graph, on the word of more facts.
LEMMA SameSourced ==
  ASSUME NEW m, NEW F, Sourced(m, F), NEW x, SameGraph(m, x), Whole(x), NEW G, F \subseteq G
  PROVE  Sourced(x, G)
BY DEF Sourced, SameGraph

\* A new fact, of one that is known or of none.
LEMMA RememberReferenced ==
  ASSUME NEW m, Shape(m), Referenced(m), NEW in \in Wanted, NEW revises \in Known(m)
  PROVE  Referenced(ApplyRemember(m, in, revises))
<1> DEFINE p == Pushed(m, in.tags)
           l == OpenLinks(p, in.links, in.now)
           x == ApplyRemember(m, in, revises)
           F == Known(m) \cup {m.next}
<1>1. in.tags \in SUBSET Tags /\ in.links \in Seq(Edges \cup {BadName}) /\ in.now \in Times
  BY DEF Wanted, Inputs
<1>2. Shape(p) /\ SameGraph(m, p) /\ p.next = m.next BY <1>1, PushedFields
<1>3. Whole(p) BY DEF Pushed, PushTags, IndexDoc, Shape, MemoryFields, Whole
<1>4. Sourced(p, F) BY <1>2, <1>3, SameSourced DEF Referenced
<1> HIDE DEF p, F
<1>5. Sourced(l, F)
  <2>1. p.next \in F BY <1>2 DEF F
  <2> QED BY <1>1, <1>2, <1>4, <2>1, OpenLinksSourced
<1>6. DOMAIN l = MemoryFields
  <2>1. Grown(p, l) BY <1>1, <1>2, OpenLinksGrow
  <2> HIDE DEF l
  <2> QED BY <2>1 DEF Grown
<1>7. Remembered(m, x, in, revises) BY RememberFields
<1>8. x = [l EXCEPT !.facts = Put(l.facts, m.next, [revises |-> revises, from |-> in.from,
                                       to |-> OpenEnd, tomb |-> FALSE, vec |-> in.vec]),
                    !.catalog = Counted(l.catalog, in.tags),
                    !.next = m.next + 1]
  BY DEF ApplyRemember, Pushed, NextFact, p
<1> HIDE DEF l, x
<1>9. Whole(x) /\ SameGraph(l, x) BY <1>6, <1>8 DEF Whole, MemoryFields, SameGraph
<1>10. x.next = m.next + 1 /\ m.next \in Nat BY <1>7 DEF Remembered, Shape, FactsShape
<1>11. Known(m) \subseteq Known(x) /\ F \subseteq Known(x)
  BY <1>10 DEF Known, F
<1>12. Sourced(x, Known(x)) BY <1>5, <1>9, <1>11, SameSourced
<1>13. \A id \in IdsOf(x) : x.facts[id].revises \in Known(x)
  <2>1. \A id \in IdsOf(m) : m.facts[id].revises \in Known(m) BY DEF Referenced
  <2> DEFINE r == [revises |-> revises, from |-> in.from, to |-> OpenEnd, tomb |-> FALSE,
                   vec |-> in.vec]
  <2>2. r.revises = revises OBVIOUS
  <2>3. x.facts = Put(m.facts, m.next, r) BY <1>7 DEF Remembered
  <2> HIDE DEF r
  <2> QED BY <1>11, <2>1, <2>2, <2>3 DEF Put, IdsOf
<1>14. x.catalog = [t \in Tags |-> x.catalog[t]] BY <1>7 DEF Remembered, Counted
<1> QED BY <1>12, <1>13, <1>14 DEF Referenced, x

\* A memory whose graph is m's, and whose facts revise what m's do.
LEMMA SameReferenced ==
  ASSUME NEW m, Referenced(m), NEW x, SameGraph(m, x), Whole(x), Known(m) \subseteq Known(x),
         \A id \in IdsOf(x) : x.facts[id].revises \in Known(x),
         x.catalog = [t \in Tags |-> x.catalog[t]]
  PROVE  Referenced(x)
BY SameSourced DEF Referenced

\* The end of a revised fact.
LEMMA CloseTargetReferenced ==
  ASSUME NEW m, Shape(m), Referenced(m), NEW id \in IdsOf(m), NEW at \in Times
  PROVE  Referenced(CloseTarget(m, id, at))
<1> DEFINE x == CloseTarget(m, id, at)
<1>1. /\ Revalued(m, x)
      /\ \A i \in IdsOf(m) : x.facts[i] = IF i = id THEN [m.facts[id] EXCEPT !.to = at]
                                          ELSE m.facts[i]
      /\ x.catalog = Discounted(m.catalog, m.aux[id], 1)
  BY CloseTargetFields
<1>2. Whole(x) BY DEF CloseTarget, Shape, MemoryFields, Whole
<1> HIDE DEF x
<1>3. m.facts[id] \in FactShape BY DEF Shape, FactsShape
<1>4. \A i \in IdsOf(m) : x.facts[i].revises = m.facts[i].revises BY <1>1, <1>3 DEF FactShape
<1>5. Known(x) = Known(m) /\ IdsOf(x) = IdsOf(m) /\ SameGraph(m, x) BY <1>1 DEF Revalued, Known
<1>6. x.catalog = [t \in Tags |-> x.catalog[t]] BY <1>1 DEF Discounted
<1> QED BY <1>2, <1>4, <1>5, <1>6, SameReferenced DEF Referenced, x

\* A tombstone.
LEMMA ForgetReferenced ==
  ASSUME NEW m, Shape(m), Referenced(m), NEW id \in IdsOf(m)
  PROVE  Referenced(ApplyForget(m, id))
<1> DEFINE x == ApplyForget(m, id)
<1>1. /\ Revalued(m, x)
      /\ \A i \in IdsOf(m) : x.facts[i] = IF i = id THEN [m.facts[id] EXCEPT !.tomb = TRUE]
                                          ELSE m.facts[i]
      /\ x.catalog = IF IsCurrent(m.facts[id]) THEN Discounted(m.catalog, m.aux[id], 1)
                     ELSE m.catalog
  BY ForgetFields
<1>2. Whole(x)
  <2>1. Whole(m) BY DEF Referenced, Sourced
  <2>2. CASE m.facts[id].tomb BY <2>1, <2>2 DEF ApplyForget
  <2>3. CASE ~m.facts[id].tomb BY <2>3 DEF ApplyForget, Shape, MemoryFields, Whole
  <2> QED BY <2>2, <2>3
<1> HIDE DEF x
<1>3. m.facts[id] \in FactShape BY DEF Shape, FactsShape
<1>4. \A i \in IdsOf(m) : x.facts[i].revises = m.facts[i].revises BY <1>1, <1>3 DEF FactShape
<1>5. Known(x) = Known(m) /\ IdsOf(x) = IdsOf(m) /\ SameGraph(m, x) BY <1>1 DEF Revalued, Known
<1>6. x.catalog = [t \in Tags |-> x.catalog[t]] BY <1>1 DEF Discounted, Referenced
<1> QED BY <1>2, <1>4, <1>5, <1>6, SameReferenced DEF Referenced, x

\* Successors, which revise facts that were handed out.
LEMMA RemoveTagReferenced ==
  ASSUME NEW m, Shape(m), Referenced(m), NEW tag \in Tags, NEW now
  PROVE  Referenced(ApplyRemoveTag(m, now, tag))
<1> DEFINE x == ApplyRemoveTag(m, now, tag)
<1>1. Retagged(m, x, now, tag) BY RemoveTagFields
<1>2. Whole(x) BY DEF ApplyRemoveTag, Shape, MemoryFields, Whole
<1> HIDE DEF x
<1>3. /\ Len(RemoveTagTargets(m, tag)) \in Nat
      /\ \A id \in NewIds(m, tag) : Succeeded(m, tag, id) \in IdsOf(m)
  BY TargetsAreCurrent
<1>4. /\ m.next \in Nat
      /\ \A id \in IdsOf(m) : id \in Nat /\ id < m.next /\ m.facts[id] \in FactShape
  BY DEF Shape, FactsShape
<1>5. IdsOf(m) \subseteq Known(m) BY <1>4 DEF Known
<1>6. Known(m) \subseteq Known(x)
  <2>1. x.next = m.next + Len(RemoveTagTargets(m, tag)) BY <1>1 DEF Retagged
  <2> QED BY <1>3, <1>4, <2>1 DEF Known
<1>7. \A id \in IdsOf(x) : x.facts[id].revises \in Known(m)
  <2>1. \A id \in NewIds(m, tag) : x.facts[id].revises = Succeeded(m, tag, id)
    <3>1. \A a \in IdsOf(m) : Successor(m, now, a).revises = a BY <1>4 DEF Successor, FactShape
    <3>2. \A id \in NewIds(m, tag) : x.facts[id] = Successor(m, now, Succeeded(m, tag, id))
      BY <1>1 DEF Retagged
    <3> QED BY <1>3, <3>1, <3>2
  <2>2. \A id \in IdsOf(m) : x.facts[id].revises = m.facts[id].revises
    BY <1>1, <1>4 DEF Retagged, FactShape
  <2>3. IdsOf(x) = IdsOf(m) \cup NewIds(m, tag) BY <1>1 DEF Retagged
  <2> QED BY <1>3, <1>5, <2>1, <2>2, <2>3 DEF Referenced
<1>8. x.catalog = [t \in Tags |-> x.catalog[t]] /\ SameGraph(m, x)
  BY <1>1 DEF Retagged, Discounted
<1> QED BY <1>2, <1>6, <1>7, <1>8, SameReferenced DEF x

\* A purge: fewer facts, the same counters.
LEMMA PurgeReferenced ==
  ASSUME NEW m, Shape(m), Referenced(m)
  PROVE  Referenced(Purge(m))
<1> DEFINE x == Purge(m)
           live == {id \in IdsOf(m) : ~m.facts[id].tomb}
<1>1. /\ IdsOf(x) = live /\ \A id \in live : x.facts[id] = m.facts[id]
      /\ x.catalog = m.catalog /\ x.next = m.next /\ SameGraph(m, x)
  BY PurgeFields
<1>2. Whole(x) BY DEF Purge, Shape, MemoryFields, Whole
<1> HIDE DEF x
<1>3. Known(x) = Known(m) BY <1>1 DEF Known
<1> QED BY <1>1, <1>2, <1>3, SameReferenced DEF Referenced, x

\* The verbs that change nothing but the graph.
LEMMA GrownReferenced ==
  ASSUME NEW m, Referenced(m), NEW x, Grown(m, x), Sourced(x, Known(m))
  PROVE  Referenced(x)
BY DEF Grown, Referenced, Known, IdsOf

\* Every verb.
LEMMA ReferencedStep ==
  ASSUME MemoryInv, sound => Referenced(mem), [Next]_vars
  PROVE  (sound => Referenced(mem))'
<1>0. Shape(mem) /\ IdsOf(mem) \subseteq Known(mem)
  BY DEF MemoryInv, Shape, FactsShape, Known
<1>1. CASE Remember
  <2>1. PICK in \in Inputs(Links, InputVectors) :
          mem' = ApplyRemember(mem, in, NoFact) /\ sound' = sound
    BY <1>1 DEF Remember, Journal
  <2>2. in \in Wanted /\ NoFact \in Known(mem) BY InputsAreWanted DEF Known
  <2> QED BY <1>0, <2>1, <2>2, RememberReferenced
<1>2. CASE Revise
  <2>1. PICK in \in Inputs(Links, InputVectors), id \in IdsOf(mem) :
          mem' = ApplyRevise(mem, in, id) /\ sound' = sound
    BY <1>2 DEF Revise, Journal
  <2> DEFINE x == ApplyRemember(mem, in, id)
  <2>2. in \in Wanted /\ in.from \in Times /\ id \in Known(mem) BY <1>0, InputsAreWanted
  <2>3. id \in Nat BY <1>0 DEF Shape, FactsShape
  <2>4. Remembered(mem, x, in, id) BY <1>0, <2>2, RememberFields
  <2>5. sound => Referenced(x) BY <1>0, <2>2, RememberReferenced
  <2> HIDE DEF x
  <2>6. Shape(x) /\ id \in IdsOf(x)
    <3>1. Shape(x) BY <1>0, <2>2, <2>3, <2>4, RememberShape
    <3> QED BY <2>4, <3>1 DEF Remembered, Put, IdsOf
  <2>7. sound => Referenced(CloseTarget(x, id, in.from))
    BY <2>2, <2>5, <2>6, CloseTargetReferenced
  <2> QED BY <2>1, <2>7 DEF ApplyRevise, x
<1>3. CASE RefusedRemember BY <1>3 DEF RefusedRemember
<1>4. CASE Forget
  <2>1. PICK id \in IdsOf(mem) : mem' = ApplyForget(mem, id) /\ sound' = sound
    BY <1>4 DEF Forget, Journal
  <2> QED BY <1>0, <2>1, ForgetReferenced
<1>5. CASE RemoveTag
  <2>1. PICK tag \in Tags, now \in Times : mem' = ApplyRemoveTag(mem, now, tag) /\ sound' = sound
    BY <1>5 DEF RemoveTag, Journal
  <2> QED BY <1>0, <2>1, RemoveTagReferenced
<1>6. CASE Link
  <2>1. PICK e \in Edges, now \in Times, fact \in {NoFact} \cup (0..mem.next - 1) :
          mem' = OpenEdge(mem, e, now, fact) /\ sound' = sound
    BY <1>6 DEF Link, Journal
  <2>2. fact \in Nat \cup {NoFact} /\ fact \in Known(mem)
    BY <1>0, <2>1 DEF Shape, FactsShape, Known
  <2>3. Grown(mem, mem') BY <1>0, <2>1, <2>2, OpenEdgeGrows
  <2>4. sound => Sourced(mem', Known(mem))
    BY <1>0, <2>1, <2>2, OpenEdgeSourced DEF Referenced
  <2> QED BY <2>1, <2>3, <2>4, GrownReferenced
<1>7. CASE Unlink
  <2>1. PICK e \in Edges, now \in Times : mem' = CloseEdge(mem, e, now) /\ sound' = sound
    BY <1>7 DEF Unlink, Journal
  <2>2. Grown(mem, mem') BY <1>0, <2>1, CloseEdgeGrows
  <2>3. sound => Sourced(mem', Known(mem)) BY <1>0, <2>1, CloseEdgeSourced DEF Referenced
  <2> QED BY <2>1, <2>2, <2>3, GrownReferenced
<1>8. CASE ClaimVectorSpace
  <2>1. PICK s \in Spaces : mem' = [mem EXCEPT !.space = s] /\ sound' = sound
    BY <1>8 DEF ClaimVectorSpace, Journal
  <2>2. /\ mem'.facts = mem.facts /\ mem'.catalog = mem.catalog /\ mem'.next = mem.next
        /\ SameGraph(mem, mem') /\ Whole(mem')
    BY <1>0, <2>1 DEF Shape, MemoryFields, SameGraph, Whole
  <2>3. Known(mem') = Known(mem) BY <2>2 DEF Known
  <2> QED BY <2>1, <2>2, <2>3, SameReferenced DEF Referenced, IdsOf
<1>9. CASE Maintain
  <2>1. mem' = Purge(mem) /\ sound' = sound BY <1>9 DEF Maintain, Journal
  <2> QED BY <1>0, <2>1, PurgeReferenced
<1>10. CASE UNCHANGED vars BY <1>10 DEF vars
<1> QED BY <1>1, <1>2, <1>3, <1>4, <1>5, <1>6, <1>7, <1>8, <1>9, <1>10 DEF Next

\* Without a refused verb every id a memory holds is one it handed out.
LEMMA ReferencesHold == Spec => [](sound => Referenced(mem))
<1>1. Init => (sound => Referenced(mem))
  <2> SUFFICES ASSUME Init PROVE Referenced(mem) OBVIOUS
  <2>1. IdsOf(EmptyMemory) = {} /\ DOMAIN EmptyMemory.history = {} /\ EmptyMemory.nextEdge = 0
    BY DEF EmptyMemory, IdsOf
  <2>2. EmptyMemory.current = [e \in DOMAIN EmptyMemory.current |-> EmptyMemory.current[e]]
    BY DEF EmptyMemory
  <2>3. EmptyMemory.catalog = [t \in Tags |-> EmptyMemory.catalog[t]] BY DEF EmptyMemory
  <2>4. Whole(EmptyMemory) BY DEF EmptyMemory, Whole, MemoryFields
  <2>5. 0..0 - 1 = {} OBVIOUS
  <2> QED BY <2>1, <2>2, <2>3, <2>4, <2>5 DEF Init, Referenced, Sourced
<1> QED BY <1>1, MemoryHolds, ReferencedStep, PTL DEF Spec

-----------------------------------------------------------------------------
(* The load.                                                               *)

\* A rebuilt list is strictly ascending.
LEMMA AscendingUp ==
  ASSUME NEW n \in Nat, NEW S
  PROVE  StrictlyUp(Ascending(S, n))
<1> DEFINE Rises(s, k) == /\ s \in Seq(Nat) /\ \A i \in 1..Len(s) : s[i] < k
                          /\ \A i \in 1..Len(s) - 1 : s[i] < s[i + 1]
           T == {k \in Nat : Rises(Ascending(S, k), k)}
<1>1. 0 \in T
  <2>1. Ascending(S, 0) = <<>>
    <3>1. [i \in 1..0 |-> i - 1] = <<>> OBVIOUS
    <3> QED BY <3>1, KeepEmpty DEF Ascending
  <2>2. Rises(<<>>, 0) OBVIOUS
  <2> HIDE DEF Rises
  <2> QED BY <2>1, <2>2
<1>2. ASSUME NEW k \in Nat, k \in T PROVE k + 1 \in T
  <2> DEFINE s == Ascending(S, k)
  <2>1. Rises(s, k) BY <1>2
  <2>2. /\ k \in S => Ascending(S, k + 1) = Append(s, k)
        /\ k \notin S => Ascending(S, k + 1) = s
    BY AscendingNext
  <2> HIDE DEF s
  <2>3. Rises(s, k + 1) BY <2>1
  <2>4. Rises(Append(s, k), k + 1)
    <3> DEFINE t == Append(s, k)
    <3>1. /\ t \in Seq(Nat) /\ Len(t) = Len(s) + 1 /\ Len(s) \in Nat /\ t[Len(s) + 1] = k
          /\ \A i \in 1..Len(s) : t[i] = s[i]
      BY <2>1
    <3> HIDE DEF t
    <3>2. \A i \in 1..Len(t) : t[i] < k + 1
      <4>1. \A i \in 1..Len(t) : i \in 1..Len(s) \/ i = Len(s) + 1 BY <3>1
      <4>2. \A i \in 1..Len(s) : s[i] \in Nat /\ s[i] < k BY <2>1
      <4> QED BY <3>1, <4>1, <4>2
    <3>3. \A i \in 1..Len(t) - 1 : t[i] < t[i + 1]
      <4>1. \A i \in 1..Len(t) - 1 : i \in 1..Len(s) /\ (i = Len(s) \/ i \in 1..Len(s) - 1)
        BY <3>1
      <4>2. \A i \in 1..Len(s) - 1 : i + 1 \in 1..Len(s) /\ s[i] < s[i + 1] BY <2>1, <3>1
      <4>3. \A i \in 1..Len(s) : s[i] < k BY <2>1
      <4> QED BY <3>1, <4>1, <4>2, <4>3
    <3> QED BY <3>1, <3>2, <3>3 DEF t
  <2> HIDE DEF Rises
  <2>5. Rises(Ascending(S, k + 1), k + 1) BY <2>2, <2>3, <2>4
  <2>6. k + 1 \in Nat OBVIOUS
  <2> QED BY <2>5, <2>6
<1> HIDE DEF T
<1>3. n \in T BY <1>1, <1>2, Naturally!Inductive
<1> QED BY <1>3 DEF T, StrictlyUp

\* The catalog counts positions in the postings, a fact at each.
LEMMA IndexedVerifies ==
  ASSUME NEW m, Shape(m), Indexed(m)
  PROVE  VerifyTagCatalog(m)
<1> SUFFICES ASSUME NEW t \in Tags
             PROVE  m.catalog[t] = Cardinality({i \in DOMAIN m.tagIdx[t] :
                      LET id == m.tagIdx[t][i] IN id \in IdsOf(m) /\ IsCurrent(m.facts[id])})
  BY DEF VerifyTagCatalog
<1> DEFINE s == m.tagIdx[t]
           P == {i \in DOMAIN s : s[i] \in IdsOf(m) /\ IsCurrent(m.facts[s[i]])}
           C == Counting(m, t)
           f == [i \in P |-> s[i]]
<1>1. m.catalog[t] = Cardinality(C) /\ s = Ascending(Carriers(m, t), m.next) BY DEF Indexed
<1>2. /\ Carriers(m, t) \in SUBSET (0..m.next - 1) /\ IsFiniteSet(C) /\ m.next \in Nat
  BY FewFacts
<1>3. s \in Seq(Nat) BY DEF Shape, FactsShape
<1>4. /\ {s[i] : i \in 1..Len(s)} = Carriers(m, t)
      /\ \A i, j \in 1..Len(s) : s[i] = s[j] => i = j
  <2> DEFINE a == Ascending(Carriers(m, t), m.next)
  <2>1. /\ {a[i] : i \in 1..Len(a)} = Carriers(m, t)
        /\ \A i, j \in 1..Len(a) : a[i] = a[j] => i = j
    BY <1>2, AscendingLists
  <2> HIDE DEF a
  <2> QED BY <1>1, <2>1 DEF a
<1>5. DOMAIN s = 1..Len(s) /\ Len(s) \in Nat BY <1>3
<1> HIDE DEF s
<1>6. IsFiniteSet(P)
  <2>1. IsFiniteSet(1..Len(s)) BY <1>5, FS_Interval
  <2>2. P \in SUBSET (1..Len(s)) BY <1>5
  <2> QED BY <2>1, <2>2, FS_Subset
<1>7. f \in [P -> C]
  <2>1. \A i \in 1..Len(s) : s[i] \in Carriers(m, t) BY <1>4
  <2> QED BY <1>5, <2>1 DEF Counting
<1>8. \A i, j \in P : f[i] = f[j] => i = j BY <1>4, <1>5
<1>9. \A c \in C : \E i \in P : f[i] = c
  <2>1. \A c \in C : c \in Carriers(m, t) /\ c \in IdsOf(m) /\ IsCurrent(m.facts[c])
    BY DEF Counting, Carriers
  <2>2. \A c \in Carriers(m, t) : \E i \in 1..Len(s) : s[i] = c BY <1>4
  <2> QED BY <1>5, <2>1, <2>2
<1> HIDE DEF f, P, C
<1>10. ExistsBijection(P, C)
  BY <1>7, <1>8, <1>9 DEF ExistsBijection, Bijection, Injection, Surjection, IsInjective
<1>11. Cardinality(C) = Cardinality(P) BY <1>6, <1>10, FS_Bijection
<1> QED BY <1>1, <1>11 DEF P, s

\* There are n ids below n.
LEMMA BelowCount ==
  ASSUME NEW n \in Nat PROVE IsFiniteSet(0..n - 1) /\ Cardinality(0..n - 1) = n
<1>1. n - 1 \in Int OBVIOUS
<1>2. /\ IsFiniteSet(0..n - 1)
      /\ Cardinality(0..n - 1) = IF 0 > n - 1 THEN 0 ELSE (n - 1) - 0 + 1
  BY <1>1, FS_Interval
<1>3. (IF 0 > n - 1 THEN 0 ELSE (n - 1) - 0 + 1) = n OBVIOUS
<1> QED BY <1>2, <1>3

\* What a load needs of a memory to be able to write and read it.
Writable(m) == Shape(m) /\ Indexed(m) /\ Referenced(m)

\* An image i of x, as far as the checks look, whose edges were migrated to e.
ImageOf(i, e, x) ==
  /\ i.facts = x.facts /\ i.aux = x.aux /\ i.docs = x.docs /\ i.tagIdx = x.tagIdx
  /\ i.next = x.next
  /\ e.current = x.current /\ e.history = x.history /\ e.nextEdge = x.nextEdge
  /\ e.counted

\* No check refuses it, and its tags count what x's catalog counts.
LEMMA ChecksPass ==
  ASSUME NEW x, Writable(x), NEW i, NEW e, ImageOf(i, e, x)
  PROVE  /\ ListsSound(i) /\ CountersSound(i, e) /\ ReferencesSound(i, e)
         /\ Recounted(i) = x.catalog
<1>1. /\ Shape(x) /\ x.next \in Nat /\ x.nextEdge \in Nat
      /\ IdsOf(x) \in SUBSET (0..x.next - 1)
  BY FewFacts DEF Writable, Shape, GraphShape
<1>2. \A t \in Tags : StrictlyUp(i.tagIdx[t])
  BY <1>1, AscendingUp DEF Writable, Indexed, ImageOf
<1>3. Cardinality({i.docs[k] : k \in DOMAIN i.docs}) = Len(i.docs)
  <2> DEFINE s == Ascending(IdsOf(x), x.next)
  <2>1. Len(s) = Cardinality(IdsOf(x)) /\ {s[k] : k \in 1..Len(s)} = IdsOf(x)
    BY <1>1, AscendingLists
  <2>2. s \in Seq(Nat) BY <1>1, AscendingSeq
  <2>3. DOMAIN s = 1..Len(s) BY <2>2
  <2>4. i.docs = s BY DEF Writable, Indexed, ImageOf
  <2> HIDE DEF s
  <2> QED BY <2>1, <2>3, <2>4
<1>4. Cardinality(DOMAIN i.facts) <= i.next
  <2>1. IsFiniteSet(0..x.next - 1) /\ Cardinality(0..x.next - 1) = x.next
    BY <1>1, BelowCount
  <2>2. Cardinality(IdsOf(x)) <= x.next BY <1>1, <2>1, FS_Subset
  <2> QED BY <2>2 DEF ImageOf, IdsOf
<1>5. ReferencesSound(i, e)
  <2>1. \A id \in IdsOf(x) : id < x.next /\ (x.facts[id].revises = NoFact \/ x.facts[id].revises < x.next)
    BY <1>1 DEF Writable, Referenced, Known
  <2>2. \A id \in DOMAIN x.aux : id < x.next BY <1>1 DEF Writable, Indexed
  <2>3. \A v \in DOMAIN x.history :
          /\ v < x.nextEdge
          /\ x.history[v].fact = NoFact \/ x.history[v].fact < x.next
          /\ x.history[v].from <= x.history[v].to
    BY <1>1 DEF Writable, Referenced, Sourced, Known, Shape, GraphShape
  <2>4. \A f \in DOMAIN x.current : x.current[f] < x.nextEdge
    BY <1>1 DEF Shape, GraphShape
  <2> QED BY <2>1, <2>2, <2>3, <2>4 DEF ReferencesSound, ImageOf, IdsOf
<1>6. Recounted(i) = x.catalog
  <2>1. VerifyTagCatalog(x) BY IndexedVerifies DEF Writable
  <2>2. x.catalog = [t \in Tags |-> x.catalog[t]] BY DEF Writable, Referenced
  <2>3. \A t \in Tags : Cardinality({k \in DOMAIN i.tagIdx[t] :
                    LET id == i.tagIdx[t][k] IN id \in DOMAIN i.facts /\ IsCurrent(i.facts[id])})
                      = x.catalog[t]
    BY <2>1 DEF VerifyTagCatalog, ImageOf, IdsOf
  <2> QED BY <2>2, <2>3 DEF Recounted
<1> QED BY <1>2, <1>3, <1>4, <1>5, <1>6 DEF ListsSound, CountersSound, ImageOf

\* So it loads as x.
LEMMA LoadsAs ==
  ASSUME NEW x, Writable(x), NEW i, NEW e, e = Edged(i), ImageOf(i, e, x), e.covered,
         i.space = x.space, "catalog" \in i.layout => i.catalog = x.catalog
  PROVE  LoadImage(i) = Loaded(x)
<1> DEFINE m == [facts |-> i.facts, aux |-> i.aux, docs |-> i.docs, tagIdx |-> i.tagIdx,
                 catalog |-> IF "catalog" \in i.layout THEN i.catalog ELSE Recounted(i),
                 next |-> i.next, current |-> e.current, history |-> e.history,
                 nextEdge |-> e.nextEdge, space |-> i.space]
<1>1. /\ ListsSound(i) /\ CountersSound(i, e) /\ ReferencesSound(i, e)
      /\ Recounted(i) = x.catalog
  BY ChecksPass
<1>2. LoadImage(i) = Loaded(m) BY <1>1 DEF LoadImage
<1>3. m = x
  <2>1. Whole(x) BY DEF Writable, Referenced, Sourced
  <2>2. m = [f \in MemoryFields |-> m[f]] BY DEF MemoryFields
  <2>3. \A f \in MemoryFields : m[f] = x[f] BY <1>1 DEF MemoryFields, ImageOf
  <2> HIDE DEF m
  <2> QED BY <2>1, <2>2, <2>3 DEF Whole
<1> QED BY <1>2, <1>3

\* The open versions are the current graph.
LEMMA OpenIsCurrent ==
  ASSUME NEW m, GraphShape(m), m.current = [e \in DOMAIN m.current |-> m.current[e]]
  PROVE  OpenVersions(m.history) = m.current
<1> DEFINE h == m.history
           open == {v \in DOMAIN h : h[v].to = OpenEnd}
           at(e) == CHOOSE v \in open : h[v].key = e
<1>1. /\ \A e \in DOMAIN m.current : m.current[e] \in open /\ h[m.current[e]].key = e
      /\ \A v \in open : h[v].key \in DOMAIN m.current /\ m.current[h[v].key] = v
  BY DEF GraphShape, VerifyGraph
<1>2. {h[v].key : v \in open} = DOMAIN m.current BY <1>1
<1>3. ASSUME NEW e \in DOMAIN m.current PROVE at(e) = m.current[e]
  <2>1. \E v \in open : h[v].key = e BY <1>1
  <2>2. at(e) \in open /\ h[at(e)].key = e BY <2>1
  <2> QED BY <1>1, <2>2
<1>4. OpenVersions(h) = [e \in {h[v].key : v \in open} |-> at(e)] BY DEF OpenVersions
<1> HIDE DEF open, at, h
<1>5. OpenVersions(h) = [e \in DOMAIN m.current |-> m.current[e]] BY <1>2, <1>3, <1>4
<1> QED BY <1>5 DEF h

\* The counter derived from the versions below n is n.
LEMMA AboveAll ==
  ASSUME NEW n \in Nat PROVE IdAfter(0..n - 1) = n
<1>1. CASE n = 0
  <2>1. 0..n - 1 = {} BY <1>1
  <2> QED BY <1>1, <2>1 DEF IdAfter
<1>2. CASE n # 0
  <2> DEFINE ids == 0..n - 1
             top == CHOOSE v \in ids : \A w \in ids : w <= v
  <2>1. n - 1 \in ids /\ \A w \in ids : w <= n - 1 BY <1>2
  <2>2. top \in ids /\ \A w \in ids : w <= top
    <3> HIDE DEF ids
    <3> QED BY <2>1
  <2>3. top = n - 1 BY <2>1, <2>2
  <2>4. IdAfter(ids) = top + 1
    <3> HIDE DEF ids
    <3> QED BY <2>1 DEF IdAfter, top
  <2> HIDE DEF top
  <2> QED BY <2>3, <2>4
<1> QED BY <1>1, <1>2

\* An image that has the versions is read as it was written, whatever else it lacks.
LEMMA VersionsLoad ==
  ASSUME NEW m, Writable(m), NEW layout, "history" \in layout, NEW space, NEW kept,
         space = (IF "space" \in layout THEN m.space ELSE NoSpace),
         kept = [m EXCEPT !.space = space], Writable(kept)
  PROVE  LoadImage(SnapshotOf(m, layout)) = Loaded(kept)
<1> DEFINE i == SnapshotOf(m, layout)
           e == Edged(i)
<1>1. /\ i.layout = layout /\ i.facts = m.facts /\ i.aux = m.aux /\ i.docs = m.docs
      /\ i.tagIdx = m.tagIdx /\ i.next = m.next /\ i.history = m.history
      /\ i.edges = IF "timed" \in layout THEN m.current ELSE WordOf(m)
      /\ "counter" \in layout => i.counter = m.nextEdge
      /\ "catalog" \in layout => i.catalog = m.catalog
      /\ i.space = space
  BY DEF SnapshotOf
<1>2. /\ kept.facts = m.facts /\ kept.aux = m.aux /\ kept.docs = m.docs
      /\ kept.tagIdx = m.tagIdx /\ kept.next = m.next /\ kept.catalog = m.catalog
      /\ kept.current = m.current /\ kept.history = m.history /\ kept.nextEdge = m.nextEdge
      /\ kept.space = space
  BY DEF Writable, Shape, MemoryFields
<1> HIDE DEF i
<1>3. OpenVersions(m.history) = m.current
  BY OpenIsCurrent DEF Writable, Shape, Referenced, Sourced
<1>4. m.nextEdge \in Nat /\ IdAfter(DOMAIN m.history) = m.nextEdge
  BY AboveAll DEF Writable, Shape, GraphShape, Referenced, Sourced
<1>5. DOMAIN i.edges = DOMAIN m.current BY <1>1 DEF WordOf
<1>6. e.history = m.history BY <1>1 DEF Edged
<1>7. e.current = m.current
  <2>1. e.current = IF "timed" \in i.layout THEN i.edges ELSE OpenVersions(e.history)
    BY DEF Edged
  <2> HIDE DEF e
  <2> QED BY <1>1, <1>3, <1>6, <2>1
<1>8. e.nextEdge = m.nextEdge
  <2>1. e.nextEdge = IF "counter" \in i.layout THEN i.counter ELSE IdAfter(DOMAIN e.history)
    BY DEF Edged
  <2> HIDE DEF e
  <2> QED BY <1>1, <1>4, <1>6, <2>1
<1>9. e.covered
  <2>1. e.covered = (Cardinality(DOMAIN e.current) = Cardinality(DOMAIN i.edges))
    BY DEF Edged
  <2> HIDE DEF e
  <2> QED BY <1>5, <1>7, <2>1
<1>10. e.counted
  <2>1. e.counted = ("counter" \in i.layout => i.counter >= IdAfter(DOMAIN e.history))
    BY DEF Edged
  <2> HIDE DEF e
  <2>2. "counter" \in i.layout => i.counter >= IdAfter(DOMAIN e.history) BY <1>1, <1>4, <1>6
  <2> QED BY <2>1, <2>2
<1> HIDE DEF e
<1>11. ImageOf(i, e, kept) BY <1>1, <1>2, <1>6, <1>7, <1>8, <1>10 DEF ImageOf
<1>12. LoadImage(i) = Loaded(kept) BY <1>1, <1>2, <1>9, <1>11, LoadsAs DEF e
<1> QED BY <1>12 DEF i

\* The same memory, of another space.
LEMMA OtherSpace ==
  ASSUME NEW m, Writable(m), NEW s \in Spaces \cup {NoSpace}, NEW x, x = [m EXCEPT !.space = s]
  PROVE  Writable(x)
<1>1. /\ DOMAIN x = MemoryFields /\ x.space = s
      /\ x.facts = m.facts /\ x.aux = m.aux /\ x.docs = m.docs /\ x.tagIdx = m.tagIdx
      /\ x.next = m.next /\ x.catalog = m.catalog /\ SameGraph(m, x) /\ Whole(x)
  BY DEF Writable, Shape, MemoryFields, SameGraph, Whole
<1>2. GraphShape(x) BY <1>1, SameGraphShape DEF Writable, Shape
<1>3. FactsShape(x) BY <1>1 DEF Writable, Shape, FactsShape, IdsOf
<1>4. Indexed(x) BY <1>1, SameIndexed DEF Writable
<1>5. Known(x) = Known(m) /\ IdsOf(x) = IdsOf(m) BY <1>1 DEF Known, IdsOf
<1>6. Referenced(x) BY <1>1, <1>5, SameReferenced DEF Writable, Referenced
<1> QED BY <1>1, <1>2, <1>3, <1>4, <1>6 DEF Writable, Shape

\* An open version, numbered by key, for each edge of edges.
Numbered(edges, key, n, h) ==
  /\ n \in Nat /\ key \in [0..n - 1 -> DOMAIN edges]
  /\ \A v, w \in 0..n - 1 : key[v] = key[w] => v = w
  /\ \A e \in DOMAIN edges : \E v \in 0..n - 1 : key[v] = e
  /\ h = [v \in 0..n - 1 |-> [key |-> key[v], fact |-> edges[key[v]], from |-> 0, to |-> OpenEnd]]

\* There is a numbering of finitely many edges, and it reaches every one.
LEMMA SynthesizedNumbers ==
  ASSUME NEW edges, IsFiniteSet(DOMAIN edges)
  PROVE  \E key : Numbered(edges, key, Cardinality(DOMAIN edges), Synthesized(edges))
<1> DEFINE E == DOMAIN edges
           n == Cardinality(E)
           ids == 0..n - 1
           Numbers(f) == \A v, w \in ids : f[v] = f[w] => v = w
           key == CHOOSE f \in [ids -> E] : Numbers(f)
<1>1. n \in Nat BY FS_CardinalityType
<1>2. IsFiniteSet(ids) /\ Cardinality(ids) = n BY <1>1, BelowCount
<1> HIDE DEF n, ids, E
<1>3. ExistsBijection(ids, E)
  BY <1>2, FS_SameCardinalityBij DEF n, E
<1>4. \E f \in [ids -> E] : Numbers(f)
  BY <1>3 DEF ExistsBijection, Bijection, Injection, IsInjective
<1>5. key \in [ids -> E] /\ Numbers(key) BY <1>4
<1>6. Synthesized(edges) = [v \in ids |-> [key |-> key[v], fact |-> edges[key[v]],
                                           from |-> 0, to |-> OpenEnd]]
  BY DEF Synthesized, ids, n, E
<1> HIDE DEF key
<1>7. key \in Injection(ids, E) BY <1>5 DEF Injection, IsInjective
<1>8. key \in Surjection(ids, E)
  <2>1. IsFiniteSet(E) /\ Cardinality(ids) = Cardinality(E) BY <1>2 DEF n, E
  <2> QED BY <1>7, <2>1, FS_Injection
<1>9. \A e \in E : \E v \in ids : key[v] = e BY <1>8 DEF Surjection
<1> QED BY <1>1, <1>5, <1>6, <1>9 DEF Numbered, ids, n, E

\* As many edges are current as have an open version: finitely many.
LEMMA FewEdges ==
  ASSUME NEW m, Shape(m)
  PROVE  IsFiniteSet(DOMAIN m.current)
<1> DEFINE E == DOMAIN m.current
           V == 0..m.nextEdge - 1
           f == [e \in E |-> m.current[e]]
<1>1. m.nextEdge \in Nat /\ \A e \in E : m.current[e] \in V /\ m.history[m.current[e]].key = e
  BY DEF Shape, GraphShape, VerifyGraph
<1>2. IsFiniteSet(V) BY <1>1, BelowCount
<1>3. f \in [E -> V] /\ \A a, b \in E : f[a] = f[b] => a = b BY <1>1
<1> HIDE DEF E, V, f
<1>4. f \in Injection(E, V) BY <1>3 DEF Injection, IsInjective
<1> QED BY <1>2, <1>4, FS_Injection DEF E

\* The memory that an image without versions is read as.
LEMMA SynthesizedLoads ==
  ASSUME NEW m, Writable(m)
  PROVE  \E s : /\ LoadImage(SnapshotOf(m, {})) = Loaded(s)
                /\ Writable(s) /\ s.space = NoSpace
                /\ s.facts = m.facts /\ s.aux = m.aux /\ s.docs = m.docs
                /\ s.tagIdx = m.tagIdx /\ s.catalog = m.catalog /\ s.next = m.next
                /\ WordOf(s) = WordOf(m)
                /\ \A e \in DOMAIN s.current : s.history[s.current[e]].from = 0
<1> DEFINE i == SnapshotOf(m, {})
           e == Edged(i)
           edges == WordOf(m)
           n == Cardinality(DOMAIN edges)
<1>1. /\ i.layout = {} /\ i.facts = m.facts /\ i.aux = m.aux /\ i.docs = m.docs
      /\ i.tagIdx = m.tagIdx /\ i.next = m.next /\ i.edges = edges /\ i.space = NoSpace
  BY DEF SnapshotOf
<1> HIDE DEF i
<1>2. DOMAIN edges = DOMAIN m.current /\ IsFiniteSet(DOMAIN edges)
  BY FewEdges DEF WordOf, Writable
<1> HIDE DEF edges
<1>3. e.history = Synthesized(edges) /\ e.current = OpenVersions(e.history)
  BY <1>1 DEF Edged
<1>4. e.nextEdge = IdAfter(DOMAIN e.history)
  BY <1>1 DEF Edged
<1>5. e.covered = (Cardinality(DOMAIN e.current) = Cardinality(DOMAIN i.edges))
  BY DEF Edged
<1>6. e.counted
  <2>1. e.counted = ("counter" \in i.layout => i.counter >= IdAfter(DOMAIN e.history))
    BY DEF Edged
  <2> HIDE DEF e
  <2> QED BY <1>1, <2>1
<1>7. PICK key : Numbered(edges, key, n, Synthesized(edges)) BY <1>2, SynthesizedNumbers
<1> HIDE DEF e, n
<1>8. /\ n \in Nat /\ key \in [0..n - 1 -> DOMAIN edges]
      /\ \A v, w \in 0..n - 1 : key[v] = key[w] => v = w
      /\ \A f \in DOMAIN edges : \E v \in 0..n - 1 : key[v] = f
      /\ DOMAIN e.history = 0..n - 1
      /\ \A v \in 0..n - 1 : e.history[v] = [key |-> key[v], fact |-> edges[key[v]],
                                             from |-> 0, to |-> OpenEnd]
  BY <1>3, <1>7 DEF Numbered
<1>9. \A v \in 0..n - 1 : /\ e.history[v].key = key[v] /\ e.history[v].fact = edges[key[v]]
                          /\ e.history[v].from = 0 /\ e.history[v].to = OpenEnd
  <2> DEFINE r(v) == [key |-> key[v], fact |-> edges[key[v]], from |-> 0, to |-> OpenEnd]
  <2>1. \A v : r(v).key = key[v] /\ r(v).fact = edges[key[v]] /\ r(v).from = 0 /\ r(v).to = OpenEnd
    OBVIOUS
  <2>2. \A v \in 0..n - 1 : e.history[v] = r(v) BY <1>8
  <2> HIDE DEF r
  <2> QED BY <2>1, <2>2
<1>10. e.nextEdge = n BY <1>4, <1>8, AboveAll
<1>11. /\ e.current = [f \in DOMAIN e.current |-> e.current[f]]
       /\ DOMAIN e.current = DOMAIN edges
       /\ \A f \in DOMAIN edges : e.current[f] \in 0..n - 1 /\ key[e.current[f]] = f
  <2> DEFINE h == e.history
             open == {v \in DOMAIN h : h[v].to = OpenEnd}
             at(f) == CHOOSE v \in open : h[v].key = f
  <2>1. open = 0..n - 1 BY <1>8, <1>9
  <2>2. e.current = [f \in {h[v].key : v \in open} |-> at(f)] BY <1>3 DEF OpenVersions
  <2>3. {h[v].key : v \in open} = DOMAIN edges
    <3>1. \A v \in open : h[v].key = key[v] /\ key[v] \in DOMAIN edges BY <1>8, <1>9, <2>1
    <3>2. \A f \in DOMAIN edges : \E v \in open : key[v] = f BY <1>8, <2>1
    <3> HIDE DEF h, open
    <3> QED BY <3>1, <3>2
  <2>4. ASSUME NEW f \in DOMAIN edges PROVE at(f) \in 0..n - 1 /\ key[at(f)] = f
    <3>1. \E v \in open : h[v].key = f
      <4>1. PICK v \in 0..n - 1 : key[v] = f BY <1>8
      <4>2. h[v].key = f BY <1>9, <4>1
      <4> HIDE DEF h, open
      <4> QED BY <2>1, <4>1, <4>2
    <3>2. at(f) \in open /\ h[at(f)].key = f BY <3>1
    <3> QED BY <1>9, <2>1, <3>2
  <2> HIDE DEF open, at, h
  <2> QED BY <2>2, <2>3, <2>4
<1>12. e.covered BY <1>1, <1>5, <1>11
<1> DEFINE s == [m EXCEPT !.history = e.history, !.current = e.current,
                          !.nextEdge = e.nextEdge, !.space = NoSpace]
<1>13. /\ DOMAIN s = MemoryFields /\ s.space = NoSpace
       /\ s.facts = m.facts /\ s.aux = m.aux /\ s.docs = m.docs /\ s.tagIdx = m.tagIdx
       /\ s.next = m.next /\ s.catalog = m.catalog /\ Whole(s)
       /\ s.history = e.history /\ s.current = e.current /\ s.nextEdge = e.nextEdge
  BY DEF Writable, Shape, MemoryFields, Whole
<1> HIDE DEF s
<1>14. ASSUME NEW f \in DOMAIN edges
       PROVE  /\ f \in Edges /\ edges[f] \in Nat \cup {NoFact} /\ edges[f] \in Known(m)
              /\ edges[f] = m.history[m.current[f]].fact
  <2>1. f \in Edges /\ m.current[f] \in DOMAIN m.history
    BY <1>2 DEF Writable, Shape, GraphShape
  <2>2. edges[f] = m.history[m.current[f]].fact BY <1>2 DEF WordOf, edges
  <2>3. m.history[m.current[f]] \in VersionShape BY <2>1 DEF Writable, Shape, GraphShape
  <2>4. m.history[m.current[f]].fact \in Known(m) BY <2>1 DEF Writable, Referenced, Sourced
  <2> QED BY <2>1, <2>2, <2>3, <2>4 DEF VersionShape
<1>15. GraphShape(s)
  <2>1. 0 \in Times /\ 0 <= OpenEnd BY EngineAssumption DEF Times, OpenEnd
  <2>2. \A v \in 0..n - 1 : e.history[v] \in VersionShape
    <3>1. \A v \in 0..n - 1 : /\ key[v] \in Edges /\ edges[key[v]] \in Nat \cup {NoFact}
                              /\ e.history[v] = [key |-> key[v], fact |-> edges[key[v]],
                                                 from |-> 0, to |-> OpenEnd]
      BY <1>8, <1>14
    <3>2. \A k \in Edges, f \in Nat \cup {NoFact} :
            [key |-> k, fact |-> f, from |-> 0, to |-> OpenEnd] \in VersionShape
      BY <2>1 DEF VersionShape
    <3> QED BY <3>1, <3>2
  <2>3. VerifyGraph(s) BY <1>8, <1>9, <1>11, <1>13 DEF VerifyGraph
  <2>4. \A f \in DOMAIN edges : f \in Edges BY <1>14
  <2> QED BY <1>8, <1>9, <1>10, <1>11, <1>13, <2>1, <2>2, <2>3, <2>4 DEF GraphShape
<1>16. Shape(s)
  <2>1. FactsShape(s) BY <1>13 DEF Writable, Shape, FactsShape, IdsOf
  <2> QED BY <1>13, <1>15, <2>1 DEF Shape
<1>17. Indexed(s) BY <1>13, SameIndexed DEF Writable
<1>18. Referenced(s)
  <2>1. Known(s) = Known(m) /\ IdsOf(s) = IdsOf(m) BY <1>13 DEF Known, IdsOf
  <2>2. \A v \in DOMAIN s.history : s.history[v].fact \in Known(m)
    BY <1>8, <1>9, <1>13, <1>14
  <2>3. Sourced(s, Known(s))
    BY <1>8, <1>10, <1>11, <1>13, <2>1, <2>2 DEF Sourced
  <2> QED BY <1>13, <2>1, <2>3 DEF Writable, Referenced
<1>19. Writable(s) BY <1>16, <1>17, <1>18 DEF Writable
<1>20. ImageOf(i, e, s) BY <1>1, <1>6, <1>13 DEF ImageOf
<1>21. LoadImage(i) = Loaded(s)
  <2>1. "catalog" \notin i.layout BY <1>1
  <2> QED BY <1>1, <1>12, <1>13, <1>19, <1>20, <2>1, LoadsAs DEF e
<1>22. WordOf(s) = WordOf(m)
  <2>1. WordOf(s) = [f \in DOMAIN s.current |-> s.history[s.current[f]].fact] BY DEF WordOf
  <2>2. DOMAIN s.current = DOMAIN m.current BY <1>2, <1>11, <1>13
  <2>3. \A f \in DOMAIN m.current : s.history[s.current[f]].fact = m.history[m.current[f]].fact
    BY <1>2, <1>9, <1>11, <1>13, <1>14
  <2> QED BY <2>1, <2>2, <2>3 DEF WordOf
<1>23. \A f \in DOMAIN s.current : s.history[s.current[f]].from = 0
  BY <1>9, <1>11, <1>13
<1> QED BY <1>13, <1>19, <1>21, <1>22, <1>23 DEF i

\* Of every image the engine has written of a memory.
LEMMA ImagesOpen ==
  ASSUME NEW m, Writable(m), NEW layout \in Layouts
  PROVE  LET load == LoadImage(SnapshotOf(m, layout))
             x    == load.mem
             kept == [m EXCEPT !.space = IF "space" \in layout THEN @ ELSE NoSpace]
         IN  /\ load.ok
             /\ Verified(x)
             /\ LoadImage(SnapshotOf(x, Current)) = load
             /\ "history" \in layout => x = kept
             /\ WordOf(x) = WordOf(m)
             /\ [x EXCEPT !.current = <<>>, !.history = <<>>, !.nextEdge = 0]
                  = [kept EXCEPT !.current = <<>>, !.history = <<>>, !.nextEdge = 0]
             /\ "history" \notin layout => \A e \in DOMAIN x.current :
                  x.history[x.current[e]].from = 0
<1> DEFINE load == LoadImage(SnapshotOf(m, layout))
           space == IF "space" \in layout THEN m.space ELSE NoSpace
           kept == [m EXCEPT !.space = space]
           Bare(y) == [y EXCEPT !.current = <<>>, !.history = <<>>, !.nextEdge = 0]
<1>1. layout = {} \/ "history" \in layout BY DEF Layouts, Current
<1>2. \A x : Writable(x) => Verified(x)
  BY IndexedVerifies DEF Writable, Shape, GraphShape, Verified
<1>3. \A x : Writable(x) => LoadImage(SnapshotOf(x, Current)) = Loaded(x)
  <2> SUFFICES ASSUME NEW x, Writable(x) PROVE LoadImage(SnapshotOf(x, Current)) = Loaded(x)
    OBVIOUS
  <2>1. "history" \in Current /\ "space" \in Current BY DEF Current
  <2>2. [x EXCEPT !.space = x.space] = x
    <3>1. DOMAIN x = MemoryFields /\ Whole(x) BY DEF Writable, Shape, Referenced, Sourced
    <3> QED BY <3>1 DEF Whole
  <2> QED BY <2>1, <2>2, VersionsLoad
<1>4. Writable(kept) /\ kept.space = space /\ WordOf(kept) = WordOf(m)
  <2>1. space \in Spaces \cup {NoSpace} BY DEF Writable, Shape, FactsShape
  <2>2. Writable(kept)
    <3> HIDE DEF space
    <3> QED BY <2>1, OtherSpace
  <2>3. kept.space = space /\ kept.history = m.history /\ kept.current = m.current
    BY DEF Writable, Shape, MemoryFields
  <2> HIDE DEF kept
  <2> QED BY <2>2, <2>3 DEF WordOf
<1> HIDE DEF space
<1> SUFFICES /\ load.ok /\ Verified(load.mem) /\ LoadImage(SnapshotOf(load.mem, Current)) = load
             /\ "history" \in layout => load.mem = kept
             /\ WordOf(load.mem) = WordOf(m)
             /\ Bare(load.mem) = Bare(kept)
             /\ "history" \notin layout => \A e \in DOMAIN load.mem.current :
                  load.mem.history[load.mem.current[e]].from = 0
  BY DEF space
<1>5. CASE "history" \in layout
  <2>1. load = Loaded(kept)
    <3> HIDE DEF kept
    <3>1. LoadImage(SnapshotOf(m, layout)) = Loaded(kept)
      BY <1>4, <1>5, VersionsLoad DEF kept, space
    <3> QED BY <3>1
  <2> HIDE DEF load, kept
  <2>2. load.ok /\ load.mem = kept BY <2>1 DEF Loaded
  <2> QED BY <1>2, <1>3, <1>4, <1>5, <2>1, <2>2
<1>6. CASE layout = {}
  <2>1. PICK s : /\ LoadImage(SnapshotOf(m, {})) = Loaded(s)
                 /\ Writable(s) /\ s.space = NoSpace
                 /\ s.facts = m.facts /\ s.aux = m.aux /\ s.docs = m.docs
                 /\ s.tagIdx = m.tagIdx /\ s.catalog = m.catalog /\ s.next = m.next
                 /\ WordOf(s) = WordOf(m)
                 /\ \A e \in DOMAIN s.current : s.history[s.current[e]].from = 0
    BY SynthesizedLoads
  <2>2. load = Loaded(s) BY <1>6, <2>1
  <2>3. Bare(s) = Bare(kept)
    <3>1. /\ DOMAIN kept = MemoryFields /\ kept.space = NoSpace
          /\ kept.facts = m.facts /\ kept.aux = m.aux /\ kept.docs = m.docs
          /\ kept.tagIdx = m.tagIdx /\ kept.next = m.next /\ kept.catalog = m.catalog
      BY <1>4, <1>6 DEF space, Writable, Shape, MemoryFields
    <3>2. DOMAIN s = MemoryFields BY <2>1 DEF Writable, Shape
    <3> HIDE DEF kept
    <3>3. /\ Bare(s) = [f \in MemoryFields |-> Bare(s)[f]]
          /\ Bare(kept) = [f \in MemoryFields |-> Bare(kept)[f]]
      BY <3>1, <3>2
    <3>4. \A f \in MemoryFields : Bare(s)[f] = Bare(kept)[f]
      <4>1. \A f \in MemoryFields : \/ f \in {"current", "history", "nextEdge"}
                                   \/ s[f] = kept[f]
        BY <2>1, <3>1 DEF MemoryFields
      <4>2. \A y : DOMAIN y = MemoryFields => \A f \in MemoryFields :
              Bare(y)[f] = IF f = "nextEdge" THEN 0
                           ELSE IF f \in {"current", "history"} THEN <<>> ELSE y[f]
        OBVIOUS
      <4> HIDE DEF Bare
      <4> QED BY <3>1, <3>2, <4>1, <4>2
    <3> HIDE DEF Bare
    <3> QED BY <3>3, <3>4
  <2> HIDE DEF load, kept, Bare
  <2>4. load.ok /\ load.mem = s BY <2>2 DEF Loaded
  <2>5. "history" \notin layout BY <1>6
  <2> QED BY <1>2, <1>3, <2>1, <2>2, <2>3, <2>4, <2>5
<1> QED BY <1>1, <1>5, <1>6

\* What is reopened is what was closed, from the journal or from an image of any layout,
\* until a remember has been refused half-way: what the layout has is read as it was
\* written, what it has not is derived so that the image verifies and can be written
\* again.
THEOREM ReopeningIsExact == Spec => []ReopensAsWritten
<1>1. MemoryInv /\ (sound => Indexed(mem)) /\ (sound => Referenced(mem)) => ImageOpens
  <2> SUFFICES ASSUME MemoryInv, sound => Indexed(mem), sound => Referenced(mem), sound,
                      NEW layout \in Layouts
               PROVE  LET load == LoadImage(SnapshotOf(mem, layout))
                          m    == load.mem
                          kept == [mem EXCEPT !.space = IF "space" \in layout THEN @ ELSE NoSpace]
                      IN  /\ load.ok
                          /\ Verified(m)
                          /\ LoadImage(SnapshotOf(m, Current)) = load
                          /\ "history" \in layout => m = kept
                          /\ WordOf(m) = WordOf(mem)
                          /\ [m EXCEPT !.current = <<>>, !.history = <<>>, !.nextEdge = 0]
                               = [kept EXCEPT !.current = <<>>, !.history = <<>>, !.nextEdge = 0]
                          /\ "history" \notin layout => \A e \in DOMAIN m.current :
                               m.history[m.current[e]].from = 0
    BY DEF ImageOpens
  <2>1. Writable(mem) BY DEF MemoryInv, Writable
  <2> QED BY <2>1, ImagesOpen
<1>2. ReplayRebuilds /\ ImageOpens => ReopensAsWritten BY DEF ReopensAsWritten
<1> QED BY <1>1, <1>2, MemoryHolds, IndexesHold, ReferencesHold, ReplayIsExact, PTL

-----------------------------------------------------------------------------
(* The catalog of tags and its pages.                                      *)

\* A strict order gives every place among the members of a finite set once.
Preceding(S, R, f) == {g \in S : <<g, f>> \in R}
LEMMA PlacesInOrder ==
  ASSUME NEW S, IsFiniteSet(S), NEW R,
         \A f, g \in S : f # g => <<f, g>> \in R \/ <<g, f>> \in R,
         \A f \in S : <<f, f>> \notin R,
         \A f, g, h \in S : <<f, g>> \in R /\ <<g, h>> \in R => <<f, h>> \in R
  PROVE  /\ Cardinality(S) \in Nat
         /\ \A f \in S : Cardinality(Preceding(S, R, f)) \in 0..Cardinality(S) - 1
         /\ \A f, g \in S : <<f, g>> \in R =>
              Cardinality(Preceding(S, R, f)) < Cardinality(Preceding(S, R, g))
         /\ \A f, g \in S : Cardinality(Preceding(S, R, f)) = Cardinality(Preceding(S, R, g)) => f = g
         /\ \A n \in 0..Cardinality(S) - 1 : \E f \in S : Cardinality(Preceding(S, R, f)) = n
<1> DEFINE below(f) == Preceding(S, R, f)
           c == Cardinality(S)
           spots == 0..c - 1
           rank == [f \in S |-> Cardinality(below(f))]
<1>1. c \in Nat BY FS_CardinalityType
<1>2. \A f \in S : IsFiniteSet(below(f)) /\ Cardinality(below(f)) \in Nat
  <2>1. \A f \in S : below(f) \subseteq S BY DEF Preceding
  <2> QED BY <2>1, FS_Subset, FS_CardinalityType
<1>3. ASSUME NEW f \in S, NEW g \in S, <<f, g>> \in R PROVE Cardinality(below(f)) < Cardinality(below(g))
  <2>1. below(f) \in SUBSET below(g) BY <1>3 DEF Preceding
  <2>2. f \in below(g) /\ f \notin below(f) BY <1>3 DEF Preceding
  <2> HIDE DEF below
  <2>3. Cardinality(below(f)) <= Cardinality(below(g)) /\ Cardinality(below(g)) # Cardinality(below(f))
    BY <1>2, <2>1, <2>2, FS_Subset
  <2> QED BY <1>2, <2>3
<1>4. ASSUME NEW f \in S PROVE Cardinality(below(f)) < c
  <2>1. below(f) \in SUBSET S /\ f \notin below(f) BY <1>4 DEF Preceding
  <2> HIDE DEF below
  <2>2. Cardinality(below(f)) <= c /\ c # Cardinality(below(f))
    BY <1>4, <2>1, FS_Subset
  <2> QED BY <1>1, <1>2, <2>2
<1>5. \A f \in S : Cardinality(below(f)) \in spots BY <1>1, <1>2, <1>4
<1>6. \A f, g \in S : Cardinality(below(f)) = Cardinality(below(g)) => f = g
  <2> SUFFICES ASSUME NEW f \in S, NEW g \in S, f # g
               PROVE  Cardinality(below(f)) # Cardinality(below(g))
    OBVIOUS
  <2>1. <<f, g>> \in R \/ <<g, f>> \in R OBVIOUS
  <2> HIDE DEF below
  <2>2. Cardinality(below(f)) < Cardinality(below(g)) \/ Cardinality(below(g)) < Cardinality(below(f))
    BY <1>3, <2>1
  <2> QED BY <1>2, <2>2
<1> HIDE DEF below
<1>7. rank \in Injection(S, spots) BY <1>5, <1>6 DEF Injection, IsInjective
<1>8. IsFiniteSet(spots) /\ Cardinality(spots) = c
  <2> HIDE DEF c
  <2>1. 0 \in Int /\ c - 1 \in Int BY <1>1
  <2>2. IsFiniteSet(spots) /\ Cardinality(spots) = IF 0 > c - 1 THEN 0 ELSE (c - 1) - 0 + 1
    BY <2>1, FS_Interval
  <2> QED BY <1>1, <2>2
<1>9. rank \in Surjection(S, spots)
  <2> HIDE DEF rank, spots, c
  <2>1. Cardinality(S) = Cardinality(spots) <=> rank \in Surjection(S, spots) BY <1>7, <1>8, FS_Injection
  <2> QED BY <1>8, <2>1 DEF c
<1>10. \A n \in spots : \E f \in S : Cardinality(below(f)) = n BY <1>9 DEF Surjection
<1> QED BY <1>1, <1>3, <1>5, <1>6, <1>10 DEF below

-----------------------------------------------------------------------------
\* A run of entries; runs that no name is in twice; a catalog, whose buffer has no name
\* of a run and whose base has none without a fact.
Runs == UNION {[N -> Nat] : N \in SUBSET TagNames}
Apart(runs) == \A n \in TagNames : \A k, l \in Holders(runs, n) : k = l
IsCatalog(t) ==
  /\ t \in [base : Runs, runs : Seq(Runs), buffer : Runs, fingerprint : SUBSET (TagNames \X Nat)]
  /\ \A n \in DOMAIN t.base : t.base[n] # 0
  /\ Apart(t.runs)
  /\ \A n \in DOMAIN t.buffer : Holders(t.runs, n) = {}

\* The entries of a catalog, and a catalog whose fingerprint is theirs.
Entries(t) == {<<n, Count(t, n)>> : n \in {m \in TagNames : Count(t, m) # 0}}
Printed(t) == t.fingerprint = Entries(t)

LEMMA RunsAre ==
  ASSUME NEW r \in Runs
  PROVE  DOMAIN r \subseteq TagNames /\ \A n \in DOMAIN r : r[n] \in Nat
BY DEF Runs

LEMMA RunIs ==
  ASSUME NEW N \in SUBSET TagNames, NEW r, r \in [N -> Nat]
  PROVE  r \in Runs
BY DEF Runs

LEMMA NoRunIs == NoRun \in Runs /\ DOMAIN NoRun = {}
<1>1. NoRun \in [{} -> Nat] /\ DOMAIN NoRun = {} BY DEF NoRun
<1> QED BY <1>1, RunIs

LEMMA MinOfOne ==
  ASSUME NEW l \in Nat, NEW S, S = {l}
  PROVE  Min(S) = l
<1>1. \E x \in S : \A y \in S : x =< y OBVIOUS
<1>2. Min(S) \in S BY <1>1 DEF Min
<1> QED BY <1>2

\* What the catalog counts, by where the name is.
LEMMA CountIs ==
  ASSUME NEW t, IsCatalog(t), NEW n \in TagNames
  PROVE  /\ n \in DOMAIN t.buffer => IsOverridden(t, n) /\ Count(t, n) = t.buffer[n]
         /\ \A l \in Holders(t.runs, n) :
              /\ IsOverridden(t, n) /\ Count(t, n) = t.runs[l][n]
              /\ n \notin DOMAIN t.buffer /\ Min(Holders(t.runs, n)) = l
         /\ n \notin DOMAIN t.buffer /\ Holders(t.runs, n) = {} =>
              ~IsOverridden(t, n) /\ Count(t, n) = IF n \in DOMAIN t.base THEN t.base[n] ELSE 0
         /\ IsOverridden(t, n) => Count(t, n) = OverlayEntry(t, n)
         /\ Count(t, n) \in Nat
<1>1. ASSUME NEW l \in Holders(t.runs, n)
      PROVE  /\ n \notin DOMAIN t.buffer /\ Min(Holders(t.runs, n)) = l
             /\ t.runs[l][n] \in Nat
  <2>1. n \notin DOMAIN t.buffer BY <1>1 DEF IsCatalog
  <2>2. \A k \in Holders(t.runs, n) : k = l BY <1>1 DEF IsCatalog, Apart
  <2>3. l \in DOMAIN t.runs /\ n \in DOMAIN t.runs[l] BY <1>1 DEF Holders
  <2>4. l \in Nat /\ t.runs[l] \in Runs BY <2>3 DEF IsCatalog
  <2>5. Holders(t.runs, n) = {l} BY <1>1, <2>2
  <2>6. Min(Holders(t.runs, n)) = l BY <2>4, <2>5, MinOfOne
  <2> QED BY <2>1, <2>3, <2>4, <2>6, RunsAre
<1>2. \A l \in Holders(t.runs, n) : IsOverridden(t, n) /\ Count(t, n) = t.runs[l][n]
  BY <1>1 DEF IsOverridden, Count, OverlayEntry
<1>3. n \in DOMAIN t.buffer =>
        IsOverridden(t, n) /\ Count(t, n) = t.buffer[n] /\ t.buffer[n] \in Nat
  BY RunsAre DEF IsCatalog, IsOverridden, Count, OverlayEntry
<1>4. n \notin DOMAIN t.buffer /\ Holders(t.runs, n) = {} =>
        /\ ~IsOverridden(t, n) /\ Count(t, n) = IF n \in DOMAIN t.base THEN t.base[n] ELSE 0
        /\ Count(t, n) \in Nat
  BY RunsAre DEF IsCatalog, IsOverridden, Count
<1>5. IsOverridden(t, n) => Count(t, n) = OverlayEntry(t, n) BY DEF Count
<1>6. Count(t, n) \in Nat BY <1>1, <1>2, <1>3, <1>4
<1> QED BY <1>1, <1>2, <1>3, <1>4, <1>5, <1>6

\* Flushing the buffer moves its entries and merges runs; no name is lost or doubled.
LEMMA CarriedFits ==
  ASSUME NEW runs \in Seq(Runs), Apart(runs), NEW b \in Runs,
         \A n \in DOMAIN b : Holders(runs, n) = {}, NEW r, r = Carried(runs, b)
  PROVE  /\ r \in Seq(Runs) /\ Apart(r)
         /\ \A n \in DOMAIN b : \E l \in Holders(r, n) : r[l][n] = b[n]
         /\ \A n \in TagNames : \A k \in Holders(runs, n) :
              \E l \in Holders(r, n) : r[l][n] = runs[k][n]
         /\ \A n \in TagNames : n \notin DOMAIN b /\ Holders(runs, n) = {} => Holders(r, n) = {}
<1> DEFINE free  == {l \in DOMAIN runs : runs[l] = NoRun}
           top   == IF free = {} THEN Len(runs) + 1 ELSE Min(free)
           below == SubSeq(runs, 1, top - 1)
           has   == DOMAIN b \cup UNION {DOMAIN below[l] : l \in DOMAIN below}
           value(n) == IF n \in DOMAIN b THEN b[n] ELSE below[Min(Holders(below, n))][n]
           all   == [n \in has |-> value(n)]
           len   == IF free = {} THEN top ELSE Len(runs)
<1>1. r = [l \in 1..len |-> IF l < top THEN NoRun ELSE IF l = top THEN all ELSE runs[l]]
  BY DEF Carried
<1>2. Len(runs) \in Nat OBVIOUS
<1>d. DOMAIN runs = 1..Len(runs) OBVIOUS
<1>e. \A l \in 1..Len(runs) : runs[l] \in Runs OBVIOUS
<1>a. free \subseteq 1..Len(runs) /\ \A l \in free : runs[l] = NoRun BY <1>d
<1>b. r = [l \in 1..len |-> IF l < top THEN NoRun ELSE IF l = top THEN all ELSE runs[l]]
  BY <1>1
<1> HIDE DEF free
<1>3. /\ top \in Nat /\ len \in Nat /\ 1 <= top /\ top <= Len(runs) + 1 /\ top <= len
      /\ (top = Len(runs) + 1 => len = top) /\ (top <= Len(runs) => len = Len(runs))
      /\ (top <= Len(runs) => runs[top] = NoRun)
  <2>1. CASE free = {}
    <3>1. top = Len(runs) + 1 /\ len = top BY <2>1
    <3> HIDE DEF top, len
    <3> QED BY <1>2, <3>1
  <2>2. CASE free # {}
    <3>1. free \subseteq Nat BY <1>2, <1>a
    <3>2. PICK l \in free : \A m \in free : l <= m BY <2>2, <3>1, Naturally!LeastNatural
    <3>3. Min(free) \in free BY <3>2 DEF Min
    <3>4. top \in free /\ len = Len(runs) BY <2>2, <3>3
    <3> HIDE DEF top, len
    <3>5. top \in 1..Len(runs) /\ runs[top] = NoRun BY <1>a, <3>4
    <3> QED BY <1>2, <3>4, <3>5
  <2> QED BY <2>1, <2>2
<1> HIDE DEF top, len
<1>4. /\ DOMAIN below = 1..top - 1 /\ \A l \in 1..top - 1 : below[l] = runs[l]
  <2>1. 1 \in 1..Len(runs) + 1 /\ top - 1 \in 0..Len(runs) BY <1>2, <1>3
  <2>2. DOMAIN below = 1..top - 1 BY <1>2, <1>3, <2>1, SubSeqProperties
  <2>3. \A l \in 1..top - 1 : below[l] = runs[l] BY <1>2, <1>3, <2>1, SubSeqProperties
  <2> QED BY <2>2, <2>3
<1> HIDE DEF below
<1>5. \A n : Holders(below, n) = {l \in 1..top - 1 : n \in DOMAIN runs[l]} BY <1>4 DEF Holders
<1>6. \A n : Holders(runs, n) = {l \in 1..Len(runs) : n \in DOMAIN runs[l]} BY <1>d DEF Holders
<1>7. \A n \in TagNames : \A l \in 1..top - 1 : n \in DOMAIN runs[l] =>
         n \notin DOMAIN b /\ Min(Holders(below, n)) = l
  <2> SUFFICES ASSUME NEW n \in TagNames, NEW l \in 1..top - 1, n \in DOMAIN runs[l]
               PROVE  n \notin DOMAIN b /\ Min(Holders(below, n)) = l
    OBVIOUS
  <2>1. l \in Holders(runs, n) BY <1>3, <1>6
  <2>2. \A k \in Holders(below, n) : k \in Holders(runs, n) BY <1>3, <1>5, <1>6
  <2>3. l \in Holders(below, n) /\ \A k \in Holders(below, n) : k = l
    BY <1>5, <2>1, <2>2 DEF Apart
  <2>4. Holders(below, n) = {l} BY <2>3
  <2>5. Min(Holders(below, n)) = l BY <1>3, <2>4, MinOfOne
  <2> QED BY <2>1, <2>5
<1>8. has \subseteq TagNames
  <2>1. DOMAIN b \subseteq TagNames BY RunsAre
  <2>2. \A l \in 1..top - 1 : DOMAIN runs[l] \subseteq TagNames
    <3>1. \A l \in 1..top - 1 : l \in 1..Len(runs) BY <1>2, <1>3
    <3> QED BY <1>e, <3>1, RunsAre
  <2> QED BY <1>4, <2>1, <2>2
<1>9. \A n \in has : n \in DOMAIN b \/ \E l \in 1..top - 1 : n \in DOMAIN runs[l] BY <1>4
<1>10. \A n \in DOMAIN b : n \in has /\ value(n) = b[n] OBVIOUS
<1>11. \A n \in TagNames : \A l \in 1..top - 1 : n \in DOMAIN runs[l] =>
         n \in has /\ value(n) = runs[l][n]
  BY <1>4, <1>7
<1>12. \A n \in has : value(n) \in Nat
  <2> SUFFICES ASSUME NEW n \in has PROVE value(n) \in Nat
    OBVIOUS
  <2>1. CASE n \in DOMAIN b BY <1>10, <2>1, RunsAre
  <2>2. CASE n \notin DOMAIN b
    <3>1. PICK l \in 1..top - 1 : n \in DOMAIN runs[l] BY <1>9, <2>2
    <3>2. value(n) = runs[l][n] BY <1>8, <1>11, <3>1
    <3>3. l \in 1..Len(runs) BY <1>2, <1>3
    <3>4. runs[l] \in Runs BY <1>e, <3>3
    <3>5. runs[l][n] \in Nat BY <3>1, <3>4, RunsAre
    <3> QED BY <3>2, <3>5
  <2> QED BY <2>1, <2>2
<1> HIDE DEF has, value
<1>13. all \in Runs /\ DOMAIN all = has /\ \A n \in has : all[n] = value(n) BY <1>8, <1>12, RunIs
<1> HIDE DEF all
<1>14. \A l \in 1..len : r[l] = IF l < top THEN NoRun ELSE IF l = top THEN all ELSE runs[l]
  BY <1>1
<1>15. \A l \in 1..len : l > top => l \in 1..Len(runs) BY <1>2, <1>3
<1>16. \A l \in 1..len : r[l] \in Runs
  <2> SUFFICES ASSUME NEW l \in 1..len PROVE r[l] \in Runs
    OBVIOUS
  <2>1. CASE l < top BY <1>14, <2>1, NoRunIs
  <2>2. CASE l = top BY <1>3, <1>13, <1>14, <2>2
  <2>3. CASE l > top BY <1>3, <1>14, <1>15, <1>e, <2>3
  <2> QED BY <1>3, <2>1, <2>2, <2>3
<1>17. r \in Seq(Runs) /\ DOMAIN r = 1..len
  <2>1. DOMAIN r = 1..len /\ r = [l \in 1..len |-> r[l]] BY <1>1
  <2> QED BY <1>3, <1>16, <2>1
<1>18. \A n \in TagNames : \A l \in Holders(r, n) :
         \/ l = top /\ n \in has
         \/ l > top /\ l \in Holders(runs, n) /\ r[l] = runs[l]
  <2> SUFFICES ASSUME NEW n \in TagNames, NEW l \in 1..len, n \in DOMAIN r[l]
               PROVE  \/ l = top /\ n \in has
                      \/ l > top /\ l \in Holders(runs, n) /\ r[l] = runs[l]
    BY <1>17 DEF Holders
  <2>1. CASE l < top BY <1>14, <2>1, NoRunIs
  <2>2. CASE l = top
    <3>1. r[l] = all BY <1>3, <1>14, <2>2
    <3>2. n \in DOMAIN all BY <3>1
    <3>3. n \in has BY <1>13, <3>2
    <3> QED BY <2>2, <3>3
  <2>3. CASE l > top
    <3>1. r[l] = runs[l] BY <1>3, <1>14, <2>3
    <3> QED BY <1>6, <1>15, <2>3, <3>1
  <2> QED BY <1>3, <2>1, <2>2, <2>3
<1>19. \A n \in has : top \in Holders(r, n) /\ r[top][n] = value(n)
  BY <1>3, <1>13, <1>14, <1>17 DEF Holders
<1>20. \A n \in TagNames : \A l \in Holders(runs, n) : l > top => n \notin has
  <2> SUFFICES ASSUME NEW n \in TagNames, NEW l \in Holders(runs, n), l > top, n \in has
               PROVE  FALSE
    OBVIOUS
  <2>1. n \notin DOMAIN b OBVIOUS
  <2>2. PICK k \in 1..top - 1 : n \in DOMAIN runs[k] BY <1>9, <2>1
  <2>3. k \in Holders(runs, n) BY <1>3, <1>6, <2>2
  <2>4. k = l BY <2>3 DEF Apart
  <2> QED BY <1>3, <2>2, <2>4
<1>21. Apart(r) BY <1>18, <1>20 DEF Apart
<1>22. \A n \in DOMAIN b : \E l \in Holders(r, n) : r[l][n] = b[n] BY <1>10, <1>19
<1>23. ASSUME NEW n \in TagNames, NEW k \in Holders(runs, n)
       PROVE  \E l \in Holders(r, n) : r[l][n] = runs[k][n]
  <2>1. k \in 1..Len(runs) /\ n \in DOMAIN runs[k] BY <1>6
  <2>2. CASE k < top
    <3>1. n \in has /\ value(n) = runs[k][n] BY <1>3, <1>11, <2>1, <2>2
    <3> QED BY <1>19, <3>1
  <2>3. CASE k = top BY <1>3, <2>1, <2>3, NoRunIs
  <2>4. CASE k > top
    <3>1. k \in 1..len /\ r[k] = runs[k] BY <1>2, <1>3, <1>14, <2>1, <2>4
    <3> QED BY <1>17, <2>1, <3>1 DEF Holders
  <2> QED BY <1>3, <2>1, <2>2, <2>3, <2>4
<1>24. \A n \in TagNames : n \notin DOMAIN b /\ Holders(runs, n) = {} => Holders(r, n) = {}
  <2> SUFFICES ASSUME NEW n \in TagNames, n \notin DOMAIN b, Holders(runs, n) = {},
                      NEW l \in Holders(r, n)
               PROVE  FALSE
    OBVIOUS
  <2>1. n \in has BY <1>18
  <2>2. PICK k \in 1..top - 1 : n \in DOMAIN runs[k] BY <1>9, <2>1
  <2> QED BY <1>3, <1>6, <2>2
<1> QED BY <1>17, <1>21, <1>22, <1>23, <1>24

\* A name that is found where it was, or where its entry went, counts as before.
LEMMA CountsAlike ==
  ASSUME NEW t, IsCatalog(t), NEW x, IsCatalog(x), x.base = t.base, NEW m \in TagNames,
         m \in DOMAIN t.buffer =>
           \/ m \in DOMAIN x.buffer /\ x.buffer[m] = t.buffer[m]
           \/ \E l \in Holders(x.runs, m) : x.runs[l][m] = t.buffer[m],
         \A k \in Holders(t.runs, m) : \E l \in Holders(x.runs, m) : x.runs[l][m] = t.runs[k][m],
         m \notin DOMAIN t.buffer /\ Holders(t.runs, m) = {} =>
           m \notin DOMAIN x.buffer /\ Holders(x.runs, m) = {}
  PROVE  Count(x, m) = Count(t, m)
<1>1. CASE m \in DOMAIN t.buffer
  <2>1. Count(t, m) = t.buffer[m] BY <1>1, CountIs
  <2> QED BY <1>1, <2>1, CountIs
<1>2. CASE m \notin DOMAIN t.buffer /\ Holders(t.runs, m) # {}
  <2>1. PICK k \in Holders(t.runs, m) : TRUE BY <1>2
  <2>2. PICK l \in Holders(x.runs, m) : x.runs[l][m] = t.runs[k][m] OBVIOUS
  <2> QED BY <2>1, <2>2, CountIs
<1>3. CASE m \notin DOMAIN t.buffer /\ Holders(t.runs, m) = {}
  <2>1. Count(t, m) = IF m \in DOMAIN t.base THEN t.base[m] ELSE 0 BY <1>3, CountIs
  <2>2. Count(x, m) = IF m \in DOMAIN x.base THEN x.base[m] ELSE 0 BY <1>3, CountIs
  <2> QED BY <2>1, <2>2
<1> QED BY <1>1, <1>2, <1>3

\* An override changes the count of its name and no other, wherever it goes.
LEMMA OverrideFits ==
  ASSUME NEW t, IsCatalog(t), NEW n \in TagNames, NEW new \in Nat, NEW x, x = Override(t, n, new)
  PROVE  /\ IsCatalog(x) /\ x.fingerprint = t.fingerprint
         /\ Count(x, n) = new
         /\ \A m \in TagNames : m # n => Count(x, m) = Count(t, m)
<1> DEFINE b == [m \in DOMAIN t.buffer \cup {n} |-> IF m = n THEN new ELSE t.buffer[m]]
<1>1. t \in [base : Runs, runs : Seq(Runs), buffer : Runs, fingerprint : SUBSET (TagNames \X Nat)]
  BY DEF IsCatalog
<1>2. t.buffer \in Runs /\ t.runs \in Seq(Runs) /\ Apart(t.runs)
  BY DEF IsCatalog
<1>3. DOMAIN t.buffer \subseteq TagNames /\ \A m \in DOMAIN t.buffer : t.buffer[m] \in Nat
  BY <1>2, RunsAre
<1>4. b \in Runs /\ DOMAIN b = DOMAIN t.buffer \cup {n} /\ b[n] = new
      /\ \A m \in DOMAIN t.buffer : m # n => b[m] = t.buffer[m]
  <2>1. DOMAIN t.buffer \cup {n} \in SUBSET TagNames BY <1>3
  <2>2. b \in [DOMAIN t.buffer \cup {n} -> Nat] BY <1>3
  <2> QED BY <2>1, <2>2, RunIs
<1>5. CASE n \in DOMAIN t.buffer
  <2>1. x = [t EXCEPT !.buffer = [t.buffer EXCEPT ![n] = new]] BY <1>5 DEF Override
  <2> DEFINE c == [t.buffer EXCEPT ![n] = new]
  <2>2. c \in Runs /\ DOMAIN c = DOMAIN t.buffer /\ c[n] = new
        /\ \A m \in DOMAIN t.buffer : m # n => c[m] = t.buffer[m]
    <3>1. t.buffer \in [DOMAIN t.buffer -> Nat] BY <1>2 DEF Runs
    <3>2. c \in [DOMAIN t.buffer -> Nat] BY <1>5, <3>1
    <3> QED BY <1>3, <1>5, <3>1, <3>2, RunIs
  <2> HIDE DEF c
  <2>3. x \in [base : Runs, runs : Seq(Runs), buffer : Runs, fingerprint : SUBSET (TagNames \X Nat)]
        /\ x.base = t.base /\ x.runs = t.runs /\ x.buffer = c /\ x.fingerprint = t.fingerprint
    BY <1>1, <2>1, <2>2 DEF c
  <2>4. IsCatalog(x) BY <2>2, <2>3 DEF IsCatalog
  <2>5. \A m \in TagNames : m # n => Count(x, m) = Count(t, m)
    <3> SUFFICES ASSUME NEW m \in TagNames, m # n PROVE Count(x, m) = Count(t, m)
      OBVIOUS
    <3>1. m \in DOMAIN t.buffer => m \in DOMAIN x.buffer /\ x.buffer[m] = t.buffer[m] BY <2>2, <2>3
    <3>2. m \notin DOMAIN t.buffer => m \notin DOMAIN x.buffer BY <2>2, <2>3
    <3> QED BY <2>3, <2>4, <3>1, <3>2, CountsAlike
  <2>6. Count(x, n) = new BY <1>5, <2>2, <2>3, <2>4, CountIs
  <2> QED BY <2>3, <2>4, <2>5, <2>6
<1>6. CASE n \notin DOMAIN t.buffer /\ Holders(t.runs, n) # {}
  <2>1. PICK l \in Holders(t.runs, n) : TRUE BY <1>6
  <2>2. Min(Holders(t.runs, n)) = l BY CountIs
  <2>3. l \in DOMAIN t.runs /\ n \in DOMAIN t.runs[l] BY DEF Holders
  <2>4. t.runs[l] \in Runs BY <1>2, <2>3
  <2> DEFINE c == [t.runs[l] EXCEPT ![n] = new]
             d == [t.runs EXCEPT ![l] = c]
  <2>5. x = [t EXCEPT !.runs = d] BY <1>6, <2>2 DEF Override
  <2>6. c \in Runs /\ DOMAIN c = DOMAIN t.runs[l] /\ c[n] = new
        /\ \A m \in DOMAIN t.runs[l] : m # n => c[m] = t.runs[l][m]
    <3>1. t.runs[l] \in [DOMAIN t.runs[l] -> Nat] BY <2>4 DEF Runs
    <3>2. c \in [DOMAIN t.runs[l] -> Nat] BY <2>3, <3>1
    <3>3. DOMAIN t.runs[l] \in SUBSET TagNames BY <2>4, RunsAre
    <3> QED BY <2>3, <3>1, <3>2, <3>3, RunIs
  <2> HIDE DEF c
  <2>7. d \in Seq(Runs) /\ DOMAIN d = DOMAIN t.runs /\ d[l] = c
        /\ \A k \in DOMAIN t.runs : k # l => d[k] = t.runs[k]
    <3>1. l \in 1..Len(t.runs) BY <1>2, <2>3
    <3>2. d \in Seq(Runs) /\ Len(d) = Len(t.runs) BY <1>2, <2>6, <3>1, ExceptSeq
    <3> QED BY <1>2, <2>3, <3>2
  <2> HIDE DEF d
  <2>8. x \in [base : Runs, runs : Seq(Runs), buffer : Runs, fingerprint : SUBSET (TagNames \X Nat)]
        /\ x.base = t.base /\ x.buffer = t.buffer /\ x.runs = d /\ x.fingerprint = t.fingerprint
    BY <1>1, <2>5, <2>7
  <2>9. \A m : Holders(x.runs, m) = Holders(t.runs, m)
    <3>1. \A k \in DOMAIN t.runs : DOMAIN d[k] = DOMAIN t.runs[k] BY <2>6, <2>7
    <3> QED BY <2>7, <2>8, <3>1 DEF Holders
  <2>10. IsCatalog(x) BY <2>8, <2>9 DEF IsCatalog, Apart
  <2>11. \A m \in TagNames : m # n => Count(x, m) = Count(t, m)
    <3> SUFFICES ASSUME NEW m \in TagNames, m # n PROVE Count(x, m) = Count(t, m)
      OBVIOUS
    <3>1. ASSUME NEW k \in Holders(t.runs, m)
          PROVE  k \in Holders(x.runs, m) /\ x.runs[k][m] = t.runs[k][m]
      <4>1. k \in DOMAIN t.runs /\ m \in DOMAIN t.runs[k] BY <3>1 DEF Holders
      <4>2. d[k][m] = t.runs[k][m] BY <2>6, <2>7, <4>1
      <4> QED BY <2>8, <2>9, <3>1, <4>2
    <3>2. \A k \in Holders(t.runs, m) : \E j \in Holders(x.runs, m) : x.runs[j][m] = t.runs[k][m]
      BY <3>1
    <3> QED BY <2>8, <2>9, <2>10, <3>2, CountsAlike
  <2>12. Count(x, n) = new
    <3>1. l \in Holders(x.runs, n) BY <2>9
    <3>2. x.runs[l][n] = new BY <2>6, <2>7, <2>8
    <3> QED BY <2>10, <3>1, <3>2, CountIs
  <2> QED BY <2>8, <2>10, <2>11, <2>12
<1>7. CASE n \notin DOMAIN t.buffer /\ Holders(t.runs, n) = {} /\ Cardinality(DOMAIN b) < RunBase
  <2>1. x = [t EXCEPT !.buffer = b] BY <1>7 DEF Override
  <2> HIDE DEF b
  <2>2. x \in [base : Runs, runs : Seq(Runs), buffer : Runs, fingerprint : SUBSET (TagNames \X Nat)]
        /\ x.base = t.base /\ x.runs = t.runs /\ x.buffer = b /\ x.fingerprint = t.fingerprint
    BY <1>1, <1>4, <2>1
  <2>3. IsCatalog(x) BY <1>4, <1>7, <2>2 DEF IsCatalog
  <2>4. \A m \in TagNames : m # n => Count(x, m) = Count(t, m)
    <3> SUFFICES ASSUME NEW m \in TagNames, m # n PROVE Count(x, m) = Count(t, m)
      OBVIOUS
    <3>1. m \in DOMAIN t.buffer => m \in DOMAIN x.buffer /\ x.buffer[m] = t.buffer[m] BY <1>4, <2>2
    <3>2. m \notin DOMAIN t.buffer => m \notin DOMAIN x.buffer BY <1>4, <2>2
    <3> QED BY <2>2, <2>3, <3>1, <3>2, CountsAlike
  <2>5. Count(x, n) = new BY <1>4, <2>2, <2>3, CountIs
  <2> QED BY <2>2, <2>3, <2>4, <2>5
<1>8. CASE n \notin DOMAIN t.buffer /\ Holders(t.runs, n) = {} /\ ~(Cardinality(DOMAIN b) < RunBase)
  <2> DEFINE r == Carried(t.runs, b)
  <2>1. x = [t EXCEPT !.buffer = NoRun, !.runs = r] BY <1>8 DEF Override
  <2>2. \A m \in DOMAIN b : Holders(t.runs, m) = {} BY <1>4, <1>8 DEF IsCatalog
  <2> HIDE DEF b
  <2>3. /\ r \in Seq(Runs) /\ Apart(r)
        /\ \A m \in DOMAIN b : \E l \in Holders(r, m) : r[l][m] = b[m]
        /\ \A m \in TagNames : \A k \in Holders(t.runs, m) :
             \E l \in Holders(r, m) : r[l][m] = t.runs[k][m]
        /\ \A m \in TagNames : m \notin DOMAIN b /\ Holders(t.runs, m) = {} => Holders(r, m) = {}
    BY <1>2, <1>4, <2>2, CarriedFits
  <2> HIDE DEF r
  <2>4. x \in [base : Runs, runs : Seq(Runs), buffer : Runs, fingerprint : SUBSET (TagNames \X Nat)]
        /\ x.base = t.base /\ x.buffer = NoRun /\ x.runs = r /\ x.fingerprint = t.fingerprint
    BY <1>1, <2>1, <2>3, NoRunIs
  <2>5. IsCatalog(x) BY <2>3, <2>4, NoRunIs DEF IsCatalog
  <2>6. \A m \in TagNames : m # n => Count(x, m) = Count(t, m)
    <3> SUFFICES ASSUME NEW m \in TagNames, m # n PROVE Count(x, m) = Count(t, m)
      OBVIOUS
    <3>1. m \in DOMAIN t.buffer => \E l \in Holders(x.runs, m) : x.runs[l][m] = t.buffer[m]
      BY <1>4, <2>3, <2>4
    <3>2. \A k \in Holders(t.runs, m) : \E l \in Holders(x.runs, m) : x.runs[l][m] = t.runs[k][m]
      BY <2>3, <2>4
    <3>3. m \notin DOMAIN t.buffer /\ Holders(t.runs, m) = {} =>
            m \notin DOMAIN x.buffer /\ Holders(x.runs, m) = {}
      BY <1>4, <2>3, <2>4, NoRunIs
    <3> QED BY <2>4, <2>5, <3>1, <3>2, <3>3, CountsAlike
  <2>7. Count(x, n) = new
    <3>1. PICK l \in Holders(x.runs, n) : x.runs[l][n] = new BY <1>4, <2>3, <2>4
    <3> QED BY <2>5, <3>1, CountIs
  <2> QED BY <2>4, <2>5, <2>6, <2>7
<1> QED BY <1>5, <1>6, <1>7, <1>8

\* A change is exact, and the fingerprint follows it.
LEMMA ChangedFits ==
  ASSUME NEW t, IsCatalog(t), Printed(t), NEW n \in TagNames, NEW new \in Nat,
         NEW c, c = Changed(t, n, new)
  PROVE  /\ IsCatalog(c) /\ Printed(c) /\ Count(c, n) = new
         /\ \A m \in TagNames : m # n => Count(c, m) = Count(t, m)
<1>1. CASE new = Count(t, n) BY <1>1 DEF Changed
<1>2. CASE new # Count(t, n)
  <2> DEFINE x == Override(t, n, new)
             f == Fingerprint(t, n, new)
  <2>1. /\ IsCatalog(x) /\ Count(x, n) = new
        /\ \A m \in TagNames : m # n => Count(x, m) = Count(t, m)
    BY OverrideFits
  <2>2. c = [x EXCEPT !.fingerprint = f] BY <1>2 DEF Changed
  <2>3. Count(t, n) \in Nat BY CountIs
  <2>4. f = {e \in Entries(t) : e[1] # n} \cup (IF new = 0 THEN {} ELSE {<<n, new>>})
    <3> DEFINE entry(count) == IF count = 0 THEN {} ELSE {<<n, count>>}
    <3>1. f = SymDiff(SymDiff(Entries(t), entry(Count(t, n))), entry(new))
      BY DEF Fingerprint, Printed
    <3>2. \A e \in Entries(t) : e[1] = n <=> e \in entry(Count(t, n)) BY DEF Entries
    <3>3. entry(Count(t, n)) \subseteq Entries(t) BY DEF Entries
    <3>4. \A e \in entry(new) : e[1] = n OBVIOUS
    <3> HIDE DEF entry, f
    <3>5. SymDiff(Entries(t), entry(Count(t, n))) = {e \in Entries(t) : e[1] # n}
      BY <3>2, <3>3 DEF SymDiff
    <3>6. f = {e \in Entries(t) : e[1] # n} \cup entry(new) BY <3>1, <3>4, <3>5 DEF SymDiff
    <3> QED BY <3>6 DEF entry
  <2> HIDE DEF x, f
  <2>5. f \subseteq TagNames \X Nat
    <3>1. \A m \in TagNames : Count(t, m) \in Nat BY CountIs
    <3>2. Entries(t) \subseteq TagNames \X Nat BY <3>1 DEF Entries
    <3> QED BY <2>4, <3>2
  <2>6. /\ c \in [base : Runs, runs : Seq(Runs), buffer : Runs, fingerprint : SUBSET (TagNames \X Nat)]
        /\ c.base = x.base /\ c.runs = x.runs /\ c.buffer = x.buffer /\ c.fingerprint = f
    BY <2>1, <2>2, <2>5 DEF IsCatalog
  <2>7. IsCatalog(c) BY <2>1, <2>6 DEF IsCatalog
  <2>8. \A m \in TagNames : Count(c, m) = Count(x, m)
    BY <2>6 DEF Count, IsOverridden, OverlayEntry
  <2>9. Printed(c)
    <3>1. Entries(c) = {e \in Entries(t) : e[1] # n} \cup (IF new = 0 THEN {} ELSE {<<n, new>>})
      BY <2>1, <2>8 DEF Entries
    <3> QED BY <2>4, <2>6, <3>1 DEF Printed
  <2> QED BY <2>1, <2>7, <2>8, <2>9
<1> QED BY <1>1, <1>2

\* What a catalog writes is what it counts, and reads back as that.
LEMMA ReloadedFits ==
  ASSUME NEW t, IsCatalog(t), NEW c, c = LoadedTags(Dumped(t))
  PROVE  /\ IsCatalog(c) /\ Printed(c)
         /\ \A m \in TagNames : Count(c, m) = Count(t, m)
<1> DEFINE kept == {n \in DOMAIN t.base : ~IsOverridden(t, n)}
                   \cup {n \in TagNames : IsOverridden(t, n) /\ OverlayEntry(t, n) # 0}
           d == Dumped(t)
<1>1. \A m \in TagNames : Count(t, m) \in Nat BY CountIs
<1>2. DOMAIN t.base \subseteq TagNames /\ \A n \in DOMAIN t.base : t.base[n] # 0
  BY RunsAre DEF IsCatalog
<1>3. kept = {n \in TagNames : Count(t, n) # 0} BY <1>2 DEF Count
<1>4. d = [n \in kept |-> Count(t, n)] BY DEF Dumped
<1>5. d \in Runs
  <2>1. d \in [kept -> Nat] BY <1>1, <1>3, <1>4
  <2> QED BY <1>3, <2>1, RunIs
<1>6. DOMAIN d = kept /\ \A n \in kept : d[n] = Count(t, n) BY <1>4
<1> DEFINE f == {<<n, d[n]>> : n \in DOMAIN d}
<1> HIDE DEF d, kept
<1>7. c = [EmptyTags EXCEPT !.base = d, !.fingerprint = f] BY DEF LoadedTags, d
<1>8. f = Entries(t) BY <1>3, <1>6 DEF Entries
<1>9. f \subseteq TagNames \X Nat BY <1>1, <1>8 DEF Entries
<1> HIDE DEF f
<1>10. c = [base |-> d, runs |-> <<>>, buffer |-> NoRun, fingerprint |-> f]
  BY <1>7 DEF EmptyTags
<1>11. <<>> \in Seq(Runs) /\ \A m : Holders(<<>>, m) = {} BY DEF Holders
<1>12. IsCatalog(c) BY <1>3, <1>5, <1>6, <1>9, <1>10, <1>11, NoRunIs DEF IsCatalog, Apart
<1>13. ASSUME NEW m \in TagNames PROVE Count(c, m) = Count(t, m)
  <2>1. Count(c, m) = IF m \in kept THEN d[m] ELSE 0
    BY <1>6, <1>10, <1>11, <1>12, CountIs, NoRunIs
  <2> QED BY <1>3, <1>6, <2>1
<1>14. Printed(c) BY <1>8, <1>10, <1>13 DEF Printed, Entries
<1> QED BY <1>12, <1>13, <1>14

-----------------------------------------------------------------------------
\* The names a page is asked for.
AskedFor(t, after, prefix) ==
  {n \in TagNames : n > after /\ prefix[1] <= n /\ n <= prefix[2] /\ Count(t, n) # 0}

\* Each name a page shows is in one source, with the count of the catalog.
ShownIn(t, after, prefix) ==
  UNION {{<<n, s>> : n \in Visible(t, s, after, prefix)} : s \in DOMAIN Sources(t)}

LEMMA EachInOneSource ==
  ASSUME NEW t, IsCatalog(t), NEW after, NEW prefix,
         NEW shown, shown = ShownIn(t, after, prefix)
  PROVE  /\ IsFiniteSet(shown)
         /\ \A e \in shown : /\ e = <<e[1], e[2]>> /\ e[2] \in Nat
                             /\ e[1] \in AskedFor(t, after, prefix)
                             /\ Sources(t)[e[2]][e[1]] = Count(t, e[1])
         /\ \A d, e \in shown : d[1] = e[1] => d = e
         /\ \A n \in AskedFor(t, after, prefix) : \E e \in shown : e[1] = n
<1> DEFINE q == Sources(t)
           len == Len(t.runs)
<1>1. t.base \in Runs /\ t.buffer \in Runs /\ t.runs \in Seq(Runs) BY DEF IsCatalog
<1>2. len \in Nat /\ DOMAIN t.runs = 1..len BY <1>1
<1>3. /\ DOMAIN q = 1..2 + len /\ q[1] = t.base /\ q[2] = t.buffer
      /\ \A l \in 1..len : q[2 + l] = t.runs[l]
  <2>1. <<t.base, t.buffer>> \in Seq(Runs) /\ Len(<<t.base, t.buffer>>) = 2 BY <1>1
  <2>2. q \in Seq(Runs) /\ Len(q) = 2 + len
        /\ \A i \in 1..2 + len : q[i] = IF i <= 2 THEN <<t.base, t.buffer>>[i] ELSE t.runs[i - 2]
    BY <1>1, <2>1, ConcatProperties DEF Sources
  <2>3. DOMAIN q = 1..2 + len BY <2>2
  <2>4. q[1] = t.base /\ q[2] = t.buffer BY <1>2, <2>2
  <2>5. ASSUME NEW l \in 1..len PROVE q[2 + l] = t.runs[l]
    <3>1. 2 + l \in 1..2 + len /\ ~(2 + l <= 2) /\ (2 + l) - 2 = l BY <1>2
    <3> QED BY <2>2, <3>1
  <2> QED BY <2>3, <2>4, <2>5
<1> HIDE DEF q, len
<1>4. ASSUME NEW s \in 1..2 + len
      PROVE  s = 1 \/ s = 2 \/ \E l \in 1..len : s = 2 + l
  <2>1. s = 1 \/ s = 2 \/ (s - 2 \in 1..len /\ s = 2 + (s - 2)) BY <1>2
  <2> QED BY <2>1
<1>5. \A e : e \in shown <=> \E s \in 1..2 + len : \E n \in Visible(t, s, after, prefix) : e = <<n, s>>
  BY <1>3 DEF ShownIn, q
\* A source that shows a name is the one that the count comes from.
<1>6. ASSUME NEW s \in 1..2 + len, NEW n, n \in Visible(t, s, after, prefix)
      PROVE  /\ n \in TagNames /\ n \in DOMAIN q[s] /\ q[s][n] = Count(t, n)
             /\ n \in AskedFor(t, after, prefix)
             /\ (s = 1 => ~IsOverridden(t, n)) /\ (s = 2 => n \in DOMAIN t.buffer)
             /\ \A l \in 1..len : s = 2 + l => l \in Holders(t.runs, n)
  <2>1. /\ n \in DOMAIN q[s] /\ n > after /\ prefix[1] <= n /\ n <= prefix[2] /\ q[s][n] # 0
        /\ ~(s = 1 /\ IsOverridden(t, n))
    BY <1>6 DEF Visible, q
  <2>2. CASE s = 1
    <3>1. n \in TagNames /\ n \in DOMAIN t.base BY <1>1, <1>3, <2>1, <2>2, RunsAre
    <3>2. q[s][n] = Count(t, n) BY <1>3, <2>1, <2>2, <3>1 DEF Count
    <3>3. \A l \in 1..len : s # 2 + l BY <1>2, <2>2
    <3> QED BY <2>1, <2>2, <3>1, <3>2, <3>3 DEF AskedFor
  <2>3. CASE s = 2
    <3>1. n \in TagNames /\ n \in DOMAIN t.buffer BY <1>1, <1>3, <2>1, <2>3, RunsAre
    <3>2. q[s][n] = Count(t, n) BY <1>3, <2>3, <3>1, CountIs
    <3>3. \A l \in 1..len : s # 2 + l BY <1>2, <2>3
    <3> QED BY <2>1, <2>3, <3>1, <3>2, <3>3 DEF AskedFor
  <2>4. CASE \E l \in 1..len : s = 2 + l
    <3>1. PICK l \in 1..len : s = 2 + l BY <2>4
    <3>2. l \in DOMAIN t.runs /\ n \in DOMAIN t.runs[l] BY <1>2, <1>3, <2>1, <3>1
    <3>3. t.runs[l] \in Runs BY <1>1, <3>2
    <3>4. n \in TagNames BY <3>2, <3>3, RunsAre
    <3>5. l \in Holders(t.runs, n) BY <3>2 DEF Holders
    <3>6. q[s][n] = Count(t, n) BY <1>3, <3>1, <3>4, <3>5, CountIs
    <3>7. s # 1 /\ s # 2 /\ \A k \in 1..len : s = 2 + k => k = l BY <1>2, <3>1
    <3> QED BY <2>1, <3>1, <3>4, <3>5, <3>6, <3>7 DEF AskedFor
  <2> QED BY <1>4, <2>2, <2>3, <2>4
<1>7. IsFiniteSet(shown)
  <2>1. shown \subseteq TagNames \X (1..2 + len) BY <1>5, <1>6
  <2>2. IsFiniteSet(1..2 + len) BY <1>2, FS_Interval
  <2>3. IsFiniteSet(TagNames \X (1..2 + len)) BY <2>2, CatalogAssumption, FS_Product
  <2> QED BY <2>1, <2>3, FS_Subset
<1>8. ASSUME NEW e \in shown
      PROVE  /\ e = <<e[1], e[2]>> /\ e[2] \in Nat
             /\ e[1] \in AskedFor(t, after, prefix)
             /\ Sources(t)[e[2]][e[1]] = Count(t, e[1])
  <2>1. PICK s \in 1..2 + len : \E n \in Visible(t, s, after, prefix) : e = <<n, s>> BY <1>5
  <2>2. PICK n \in Visible(t, s, after, prefix) : e = <<n, s>> BY <2>1
  <2>3. e[1] = n /\ e[2] = s BY <2>2
  <2>4. n \in AskedFor(t, after, prefix) /\ q[s][n] = Count(t, n) BY <1>6
  <2>5. s \in Nat BY <1>2
  <2> QED BY <2>2, <2>3, <2>4, <2>5 DEF q
<1>9. ASSUME NEW d \in shown, NEW e \in shown, d[1] = e[1] PROVE d = e
  <2>1. PICK s \in 1..2 + len : \E n \in Visible(t, s, after, prefix) : d = <<n, s>> BY <1>5
  <2>2. PICK n \in Visible(t, s, after, prefix) : d = <<n, s>> BY <2>1
  <2>3. PICK r \in 1..2 + len : \E m \in Visible(t, r, after, prefix) : e = <<m, r>> BY <1>5
  <2>4. PICK m \in Visible(t, r, after, prefix) : e = <<m, r>> BY <2>3
  <2>5. m = n BY <1>9, <2>2, <2>4
  <2>6. n \in Visible(t, r, after, prefix) BY <2>5
  <2>7. n \in TagNames BY <1>6
  <2>8. \A l, k \in 1..len : s = 2 + l /\ r = 2 + k => l = k
    <3> SUFFICES ASSUME NEW l \in 1..len, NEW k \in 1..len, s = 2 + l, r = 2 + k PROVE l = k
      OBVIOUS
    <3>1. l \in Holders(t.runs, n) BY <1>6
    <3>2. k \in Holders(t.runs, n) BY <1>6, <2>6
    <3> QED BY <2>7, <3>1, <3>2 DEF IsCatalog, Apart
  <2>9. \A l \in 1..len : s = 2 + l => IsOverridden(t, n) /\ n \notin DOMAIN t.buffer
    <3> SUFFICES ASSUME NEW l \in 1..len, s = 2 + l
                 PROVE  IsOverridden(t, n) /\ n \notin DOMAIN t.buffer
      OBVIOUS
    <3>1. l \in Holders(t.runs, n) BY <1>6
    <3> QED BY <2>7, <3>1, CountIs
  <2>10. \A l \in 1..len : r = 2 + l => IsOverridden(t, n) /\ n \notin DOMAIN t.buffer
    <3> SUFFICES ASSUME NEW l \in 1..len, r = 2 + l
                 PROVE  IsOverridden(t, n) /\ n \notin DOMAIN t.buffer
      OBVIOUS
    <3>1. l \in Holders(t.runs, n) BY <1>6, <2>6
    <3> QED BY <2>7, <3>1, CountIs
  <2>11. /\ s = 1 => ~IsOverridden(t, n)
         /\ s = 2 => n \in DOMAIN t.buffer
    BY <1>6
  <2>12. /\ r = 1 => ~IsOverridden(t, n)
         /\ r = 2 => n \in DOMAIN t.buffer
    BY <1>6, <2>6
  <2>13. n \in DOMAIN t.buffer => IsOverridden(t, n) BY DEF IsOverridden
  <2>14. s = r
    <3>1. CASE s = 1 BY <1>4, <2>10, <2>11, <2>12, <2>13, <3>1
    <3>2. CASE s = 2 BY <1>4, <2>10, <2>11, <2>12, <2>13, <3>2
    <3>3. CASE \E l \in 1..len : s = 2 + l
      <4>1. PICK l \in 1..len : s = 2 + l BY <3>3
      <4>2. PICK k \in 1..len : r = 2 + k BY <1>4, <2>9, <2>12, <4>1
      <4> QED BY <2>8, <4>1, <4>2
    <3> QED BY <1>4, <3>1, <3>2, <3>3
  <2> QED BY <2>2, <2>4, <2>5, <2>14
<1>10. ASSUME NEW n \in AskedFor(t, after, prefix) PROVE \E e \in shown : e[1] = n
  <2>1. n \in TagNames /\ n > after /\ prefix[1] <= n /\ n <= prefix[2] /\ Count(t, n) # 0
    BY DEF AskedFor
  <2>2. ASSUME NEW s \in 1..2 + len, n \in DOMAIN q[s], q[s][n] = Count(t, n),
               s = 1 => ~IsOverridden(t, n)
        PROVE  \E e \in shown : e[1] = n
    <3>1. n \in Visible(t, s, after, prefix) BY <2>1, <2>2 DEF Visible, q
    <3>2. <<n, s>> \in shown BY <1>5, <3>1
    <3> QED BY <3>2
  <2>3. CASE n \in DOMAIN t.buffer
    <3>1. 2 \in 1..2 + len BY <1>2
    <3>2. q[2][n] = Count(t, n) BY <1>3, <2>1, <2>3, CountIs
    <3> QED BY <1>3, <2>2, <2>3, <3>1, <3>2
  <2>4. CASE n \notin DOMAIN t.buffer /\ Holders(t.runs, n) # {}
    <3>1. PICK l \in Holders(t.runs, n) : TRUE BY <2>4
    <3>2. l \in 1..len /\ n \in DOMAIN t.runs[l] BY <1>2 DEF Holders
    <3>3. 2 + l \in 1..2 + len /\ 2 + l # 1 BY <1>2, <3>2
    <3>4. n \in DOMAIN q[2 + l] /\ q[2 + l][n] = Count(t, n) BY <1>3, <2>1, <3>2, CountIs
    <3> QED BY <2>2, <3>3, <3>4
  <2>5. CASE n \notin DOMAIN t.buffer /\ Holders(t.runs, n) = {}
    <3>1. ~IsOverridden(t, n) /\ Count(t, n) = IF n \in DOMAIN t.base THEN t.base[n] ELSE 0
      BY <2>1, <2>5, CountIs
    <3>2. n \in DOMAIN q[1] /\ q[1][n] = Count(t, n) BY <1>3, <2>1, <3>1
    <3>3. 1 \in 1..2 + len BY <1>2
    <3> QED BY <2>2, <3>1, <3>2, <3>3
  <2> QED BY <2>3, <2>4, <2>5
<1> QED BY <1>7, <1>8, <1>9, <1>10

LEMMA MinOfTwo ==
  ASSUME NEW a \in Nat, NEW b \in Nat
  PROVE  Min({a, b}) = IF a <= b THEN a ELSE b
<1>1. \E x \in {a, b} : \A y \in {a, b} : x =< y OBVIOUS
<1>2. Min({a, b}) \in {a, b} /\ \A y \in {a, b} : Min({a, b}) =< y BY <1>1 DEF Min
<1> QED BY <1>2

\* A page shows the wanted names in order, each with its count, and leaves out none
\* before the last that it shows.
Shows(t, wanted, found) ==
  /\ found \in Seq(wanted \X Nat) /\ Len(found) <= PageLimit + 1
  /\ \A i, j \in 1..Len(found) : i < j => found[i][1] < found[j][1]
  /\ \A i \in 1..Len(found) : found[i] = <<found[i][1], Count(t, found[i][1])>>
  /\ \A n \in wanted : \/ \E i \in 1..Len(found) : found[i][1] = n
                       \/ /\ Len(found) = PageLimit + 1
                          /\ \A i \in 1..Len(found) : found[i][1] < n

LEMMA MergedFits ==
  ASSUME NEW t, IsCatalog(t), NEW after, NEW prefix,
         NEW found, found = Merged(t, after, prefix),
         NEW wanted, wanted = AskedFor(t, after, prefix)
  PROVE  Shows(t, wanted, found)
<1> DEFINE shown == ShownIn(t, after, prefix)
           before(d, e) == d[1] < e[1] \/ (d[1] = e[1] /\ d[2] < e[2])
           place(e) == Cardinality({d \in shown : before(d, e)})
           entry(i) == CHOOSE e \in shown : place(e) = i - 1
           c == Cardinality(shown)
           len == Min({c, PageLimit + 1})
           R == {p \in shown \X shown : before(p[1], p[2])}
<1>1. found = [i \in 1..len |-> <<entry(i)[1], Sources(t)[entry(i)[2]][entry(i)[1]]>>]
  BY DEF Merged, ShownIn
<1>2. /\ IsFiniteSet(shown)
      /\ \A e \in shown : /\ e = <<e[1], e[2]>> /\ e[2] \in Nat /\ e[1] \in wanted
                          /\ Sources(t)[e[2]][e[1]] = Count(t, e[1])
      /\ \A d, e \in shown : d[1] = e[1] => d = e
      /\ \A n \in wanted : \E e \in shown : e[1] = n
  BY EachInOneSource
<1> HIDE DEF shown
<1>3. wanted \subseteq Nat /\ wanted \subseteq TagNames BY CatalogAssumption DEF AskedFor
<1>4. \A d, e \in shown : d # e => before(d, e) \/ before(e, d) BY <1>2, <1>3
<1>5. \A e \in shown : ~before(e, e) BY <1>2, <1>3
<1>6. \A d, e, f \in shown : before(d, e) /\ before(e, f) => before(d, f) BY <1>2, <1>3
<1>7. \A d, e \in shown : before(d, e) <=> d[1] < e[1]
  <2>1. \A d, e \in shown : d[1] = e[1] /\ d[2] < e[2] => FALSE BY <1>2
  <2> QED BY <2>1
<1> HIDE DEF before
<1>8. \A d, e \in shown : <<d, e>> \in R <=> before(d, e) OBVIOUS
<1>9. \A e \in shown : Preceding(shown, R, e) = {d \in shown : before(d, e)}
  BY <1>8 DEF Preceding
<1> HIDE DEF R
<1>10. /\ c \in Nat
       /\ \A e \in shown : place(e) \in 0..c - 1
       /\ \A d, e \in shown : before(d, e) => place(d) < place(e)
       /\ \A d, e \in shown : place(d) = place(e) => d = e
       /\ \A n \in 0..c - 1 : \E e \in shown : place(e) = n
  <2>1. \A d, e \in shown : d # e => <<d, e>> \in R \/ <<e, d>> \in R BY <1>4, <1>8
  <2>2. \A e \in shown : <<e, e>> \notin R BY <1>5, <1>8
  <2>3. \A d, e, f \in shown : <<d, e>> \in R /\ <<e, f>> \in R => <<d, f>> \in R BY <1>6, <1>8
  <2>4. /\ Cardinality(shown) \in Nat
        /\ \A f \in shown : Cardinality(Preceding(shown, R, f)) \in 0..Cardinality(shown) - 1
        /\ \A f, g \in shown : <<f, g>> \in R =>
             Cardinality(Preceding(shown, R, f)) < Cardinality(Preceding(shown, R, g))
        /\ \A f, g \in shown : Cardinality(Preceding(shown, R, f)) = Cardinality(Preceding(shown, R, g)) => f = g
        /\ \A n \in 0..Cardinality(shown) - 1 : \E f \in shown : Cardinality(Preceding(shown, R, f)) = n
    BY <1>2, <2>1, <2>2, <2>3, PlacesInOrder
  <2>5. c = Cardinality(shown) OBVIOUS
  <2>6. \A e \in shown : place(e) = Cardinality(Preceding(shown, R, e)) BY <1>9
  <2> HIDE DEF place, c
  <2>7. \A d, e \in shown : before(d, e) => place(d) < place(e) BY <1>8, <2>4, <2>6
  <2>8. \A e \in shown : place(e) \in 0..c - 1 BY <2>4, <2>5, <2>6
  <2>9. \A d, e \in shown : place(d) = place(e) => d = e BY <2>4, <2>6
  <2>10. \A n \in 0..c - 1 : \E e \in shown : place(e) = n
    <3> SUFFICES ASSUME NEW n \in 0..c - 1 PROVE \E e \in shown : place(e) = n OBVIOUS
    <3>1. PICK e \in shown : Cardinality(Preceding(shown, R, e)) = n BY <2>4, <2>5
    <3> QED BY <2>6, <3>1
  <2> QED BY <2>4, <2>5, <2>7, <2>8, <2>9, <2>10
<1> HIDE DEF place, c
<1>11. len \in Nat /\ len <= c /\ len <= PageLimit + 1 /\ (len < c => len = PageLimit + 1)
  <2>1. PageLimit + 1 \in Nat BY CatalogAssumption
  <2>2. len = IF c <= PageLimit + 1 THEN c ELSE PageLimit + 1 BY <1>10, <2>1, MinOfTwo
  <2> HIDE DEF len
  <2> QED BY <1>10, <2>1, <2>2
<1> HIDE DEF len
<1>12. ASSUME NEW i \in 1..len PROVE entry(i) \in shown /\ place(entry(i)) = i - 1
  <2>1. i - 1 \in 0..c - 1 BY <1>10, <1>11
  <2>2. \E e \in shown : place(e) = i - 1 BY <1>10, <2>1
  <2> QED BY <2>2
<1> DEFINE name(i) == entry(i)[1]
<1> HIDE DEF entry
<1>13. \A i \in 1..len : found[i] = <<name(i), Count(t, name(i))>> /\ name(i) \in wanted
  BY <1>1, <1>2, <1>12
<1>14. \A i, j \in 1..len : i < j => name(i) < name(j)
  <2> SUFFICES ASSUME NEW i \in 1..len, NEW j \in 1..len, i < j PROVE name(i) < name(j)
    OBVIOUS
  <2>1. entry(i) \in shown /\ place(entry(i)) = i - 1 BY <1>12
  <2>2. entry(j) \in shown /\ place(entry(j)) = j - 1 BY <1>12
  <2>3. ~(place(entry(j)) < place(entry(i))) /\ place(entry(i)) # place(entry(j)) BY <1>11, <2>1, <2>2
  <2>4. before(entry(i), entry(j)) BY <1>4, <1>10, <2>1, <2>2, <2>3
  <2> QED BY <1>7, <2>1, <2>2, <2>4
<1>15. ASSUME NEW n \in wanted
       PROVE  (\E i \in 1..len : name(i) = n) \/ (len = PageLimit + 1 /\ \A i \in 1..len : name(i) < n)
  <2>1. PICK e \in shown : e[1] = n BY <1>2
  <2>2. place(e) \in 0..c - 1 BY <1>10
  <2>3. CASE place(e) + 1 \in 1..len
    <3> DEFINE k == place(e) + 1
    <3>1. entry(k) \in shown /\ place(entry(k)) = k - 1 BY <1>12, <2>3
    <3>2. place(entry(k)) = place(e) BY <1>10, <2>2, <3>1
    <3>3. entry(k) = e BY <1>10, <3>1, <3>2
    <3> QED BY <2>1, <2>3, <3>3
  <2>4. CASE place(e) + 1 \notin 1..len
    <3>1. len <= place(e) /\ len < c BY <1>10, <1>11, <2>2, <2>4
    <3>2. ASSUME NEW i \in 1..len PROVE name(i) < n
      <4>1. entry(i) \in shown /\ place(entry(i)) = i - 1 BY <1>12
      <4>2. place(entry(i)) < place(e) BY <1>10, <1>11, <2>2, <3>1, <4>1
      <4>3. ~(place(e) < place(entry(i))) /\ place(entry(i)) # place(e)
        BY <1>11, <2>2, <4>1, <4>2
      <4>4. before(entry(i), e) BY <1>4, <1>10, <4>1, <4>3
      <4> QED BY <1>7, <2>1, <4>1, <4>4
    <3> QED BY <1>11, <3>1, <3>2
  <2> QED BY <2>3, <2>4
<1>16. found \in Seq(wanted \X Nat) /\ Len(found) = len
  <2>1. DOMAIN found = 1..len /\ found = [i \in 1..len |-> found[i]] BY <1>1
  <2>2. \A i \in 1..len : Count(t, name(i)) \in Nat BY <1>3, <1>13, CountIs
  <2>3. \A i \in 1..len : found[i] \in wanted \X Nat BY <1>13, <2>2
  <2> QED BY <1>11, <2>1, <2>3
<1> HIDE DEF name
<1>17. \A i \in 1..len : found[i][1] = name(i) BY <1>13
<1> QED BY <1>11, <1>13, <1>14, <1>15, <1>16, <1>17 DEF Shows

-----------------------------------------------------------------------------
\* The items of a walk, and the entries of a prefix up to a name.
ItemsOf(items) == {items[i] : i \in DOMAIN items}
NamesAscend(items) == \A i, j \in DOMAIN items : i < j => items[i][1] < items[j][1]
Under(entries, prefix) == {e \in entries : prefix[1] <= e[1] /\ e[1] <= prefix[2]}
UpTo(entries, prefix, last) == {e \in Under(entries, prefix) : e[1] <= last}

\* A page goes on where the walk stands: after it the walk has all up to its last name,
\* or all there is.
GoesOn(t, prefix, found, items) ==
  /\ items \in Seq(TagNames \X Nat) /\ NamesAscend(items)
  /\ Len(found) > PageLimit =>
       /\ found[PageLimit][1] \in Nat
       /\ ItemsOf(items) = UpTo(Entries(t), prefix, found[PageLimit][1])
  /\ ~(Len(found) > PageLimit) => ItemsOf(items) = Under(Entries(t), prefix)

LEMMA PageContinues ==
  ASSUME NEW t, IsCatalog(t), NEW after \in Nat, NEW prefix,
         NEW got \in Seq(TagNames \X Nat), NamesAscend(got),
         ItemsOf(got) = UpTo(Entries(t), prefix, after),
         NEW found, found = Merged(t, after, prefix),
         NEW wanted, wanted = AskedFor(t, after, prefix),
         NEW items, items = got \o (IF Len(found) > PageLimit THEN SubSeq(found, 1, PageLimit) ELSE found)
  PROVE  GoesOn(t, prefix, found, items)
<1> DEFINE page == IF Len(found) > PageLimit THEN SubSeq(found, 1, PageLimit) ELSE found
           k == IF Len(found) > PageLimit THEN PageLimit ELSE Len(found)
           g == Len(got)
<1>1. /\ found \in Seq(wanted \X Nat) /\ Len(found) <= PageLimit + 1
      /\ \A i, j \in 1..Len(found) : i < j => found[i][1] < found[j][1]
      /\ \A i \in 1..Len(found) : found[i] = <<found[i][1], Count(t, found[i][1])>>
      /\ \A n \in wanted : \/ \E i \in 1..Len(found) : found[i][1] = n
                           \/ /\ Len(found) = PageLimit + 1
                              /\ \A i \in 1..Len(found) : found[i][1] < n
  <2>1. Shows(t, wanted, found) BY MergedFits
  <2> QED BY <2>1, Zenon DEF Shows
<1>2. /\ wanted \subseteq TagNames /\ TagNames \subseteq Nat
      /\ \A n \in wanted : n > after /\ prefix[1] <= n /\ n <= prefix[2] /\ Count(t, n) # 0
  BY CatalogAssumption DEF AskedFor
<1>3. \A n \in TagNames : n > after /\ prefix[1] <= n /\ n <= prefix[2] /\ Count(t, n) # 0 =>
        n \in wanted
  BY DEF AskedFor
<1>4. PageLimit \in Nat /\ 1 <= PageLimit BY CatalogAssumption
<1>5. Len(found) \in Nat BY <1>1
<1>6. k \in Nat /\ k <= Len(found) /\ k <= PageLimit
      /\ (Len(found) > PageLimit => k = PageLimit /\ Len(found) = k + 1)
      /\ (~(Len(found) > PageLimit) => k = Len(found))
  BY <1>1, <1>4, <1>5
<1>7. page \in Seq(wanted \X Nat) /\ Len(page) = k /\ \A i \in 1..k : page[i] = found[i]
  <2>1. CASE Len(found) > PageLimit
    <3>1. 1 \in 1..Len(found) + 1 /\ PageLimit \in 0..Len(found) BY <1>4, <1>5, <2>1
    <3>2. SubSeq(found, 1, PageLimit) \in Seq(wanted \X Nat)
          /\ Len(SubSeq(found, 1, PageLimit)) = PageLimit
          /\ \A i \in 1..PageLimit : SubSeq(found, 1, PageLimit)[i] = found[i]
      BY <1>1, <1>4, <1>5, <2>1, SubSeqProperties
    <3> QED BY <2>1, <3>2
  <2>2. CASE ~(Len(found) > PageLimit) BY <1>1, <2>2
  <2> QED BY <2>1, <2>2
<1> HIDE DEF page, k
<1>8. page \in Seq(TagNames \X Nat)
  <2>1. \A i \in 1..k : page[i] \in wanted \X Nat BY <1>7
  <2>2. \A i \in 1..k : page[i] \in TagNames \X Nat BY <1>2, <2>1
  <2>3. page \in [1..k -> TagNames \X Nat]
    <3>1. DOMAIN page = 1..k BY <1>7
    <3>2. page = [i \in 1..k |-> page[i]] BY <1>7
    <3> QED BY <2>2, <3>2
  <2> QED BY <1>6, <2>3
<1>9. g \in Nat /\ DOMAIN got = 1..g /\ \A i \in 1..g : got[i] \in TagNames \X Nat OBVIOUS
<1> HIDE DEF g
<1>10. /\ items \in Seq(TagNames \X Nat) /\ Len(items) = g + k
       /\ \A i \in 1..g + k : items[i] = IF i <= g THEN got[i] ELSE page[i - g]
  BY <1>7, <1>8, ConcatProperties DEF page, g
<1>11. DOMAIN items = 1..g + k BY <1>10
<1>12. \A i \in 1..g : i \in 1..g + k /\ items[i] = got[i] BY <1>6, <1>9, <1>10
<1>13. \A i \in 1..k : g + i \in 1..g + k /\ items[g + i] = found[i]
  <2> SUFFICES ASSUME NEW i \in 1..k PROVE g + i \in 1..g + k /\ items[g + i] = found[i]
    OBVIOUS
  <2>1. g + i \in 1..g + k /\ ~(g + i <= g) /\ (g + i) - g = i BY <1>6, <1>9
  <2> QED BY <1>7, <1>10, <2>1
<1>14. ASSUME NEW i \in 1..g + k
       PROVE  i \in 1..g \/ \E j \in 1..k : i = g + j
  <2>1. i \in 1..g \/ (i - g \in 1..k /\ i = g + (i - g)) BY <1>6, <1>9
  <2> QED BY <2>1
<1>15. \A i \in 1..k : i \in 1..Len(found) BY <1>5, <1>6
<1>16. \A i \in 1..Len(found) : found[i][1] \in wanted /\ found[i][1] \in Nat /\ found[i][1] > after
  <2>1. \A i \in 1..Len(found) : found[i] \in wanted \X Nat BY <1>1
  <2>2. \A i \in 1..Len(found) : found[i][1] \in wanted BY <2>1
  <2> QED BY <1>2, <2>2
<1>17. \A i \in 1..g : got[i][1] <= after /\ got[i][1] \in Nat
  <2>1. \A i \in 1..g : got[i] \in UpTo(Entries(t), prefix, after) BY <1>9 DEF ItemsOf
  <2> QED BY <1>2, <1>9, <2>1 DEF UpTo
<1>18. NamesAscend(items)
  <2> SUFFICES ASSUME NEW i \in 1..g + k, NEW j \in 1..g + k, i < j
               PROVE  items[i][1] < items[j][1]
    BY <1>11 DEF NamesAscend
  <2>1. CASE i \in 1..g /\ j \in 1..g
    BY <1>9, <1>12, <2>1 DEF NamesAscend
  <2>2. CASE i \in 1..g /\ \E b \in 1..k : j = g + b
    <3>1. PICK b \in 1..k : j = g + b BY <2>2
    <3>2. items[j] = found[b] /\ found[b][1] > after /\ found[b][1] \in Nat BY <1>13, <1>15, <1>16, <3>1
    <3>3. items[i] = got[i] /\ got[i][1] <= after /\ got[i][1] \in Nat BY <1>12, <1>17, <2>2
    <3>4. items[i][1] <= after /\ items[i][1] \in Nat BY <3>3
    <3>5. items[j][1] > after /\ items[j][1] \in Nat BY <3>2
    <3> DEFINE p == items[i][1]
               q == items[j][1]
    <3>6. p <= after /\ p \in Nat /\ q > after /\ q \in Nat BY <3>4, <3>5
    <3> HIDE DEF p, q
    <3>7. p < q BY <3>6
    <3> QED BY <3>7 DEF p, q
  <2>3. CASE \E a, b \in 1..k : i = g + a /\ j = g + b
    <3>1. PICK a, b \in 1..k : i = g + a /\ j = g + b BY <2>3
    <3>2. a < b BY <1>6, <1>9, <3>1
    <3>3. items[i] = found[a] /\ items[j] = found[b] BY <1>13, <3>1
    <3>4. \A v, w \in 1..Len(found) : v < w => found[v][1] < found[w][1] BY <1>1
    <3>5. found[a][1] < found[b][1] BY <1>15, <3>2, <3>4
    <3> QED BY <3>3, <3>5
  <2>4. CASE (\E a \in 1..k : i = g + a) /\ j \in 1..g BY <1>6, <1>9, <2>4
  <2> QED BY <1>14, <2>1, <2>2, <2>3, <2>4
<1>19. ItemsOf(items) = ItemsOf(got) \cup {found[i] : i \in 1..k}
  <2>1. \A i \in 1..g + k : items[i] \in ItemsOf(got) \cup {found[j] : j \in 1..k}
    <3> SUFFICES ASSUME NEW i \in 1..g + k
                 PROVE  items[i] \in ItemsOf(got) \cup {found[j] : j \in 1..k}
      OBVIOUS
    <3>1. CASE i \in 1..g BY <1>9, <1>12, <3>1 DEF ItemsOf
    <3>2. CASE \E j \in 1..k : i = g + j BY <1>13, <3>2
    <3> QED BY <1>14, <3>1, <3>2
  <2>2. \A e \in ItemsOf(got) : e \in ItemsOf(items) BY <1>9, <1>11, <1>12 DEF ItemsOf
  <2>3. \A i \in 1..k : found[i] \in ItemsOf(items) BY <1>11, <1>13 DEF ItemsOf
  <2>4. \A e \in ItemsOf(items) : e \in ItemsOf(got) \cup {found[j] : j \in 1..k}
    BY <1>11, <2>1 DEF ItemsOf
  <2> HIDE DEF ItemsOf
  <2> QED BY <2>2, <2>3, <2>4
\* What the page shows is in the catalog, under the prefix.
<1>20. ASSUME NEW i \in 1..Len(found)
       PROVE  found[i] \in Under(Entries(t), prefix)
  <2>1. found[i][1] \in wanted /\ found[i] = <<found[i][1], Count(t, found[i][1])>> BY <1>1, <1>16
  <2> QED BY <1>2, <2>1 DEF Under, Entries
<1>21. ASSUME NEW e \in Under(Entries(t), prefix)
       PROVE  /\ e[1] \in Nat
              /\ e[1] <= after => e \in ItemsOf(got)
              /\ e[1] > after => e[1] \in wanted
              /\ \A i \in 1..Len(found) : found[i][1] = e[1] => found[i] = e
  <2>1. PICK n \in TagNames : e = <<n, Count(t, n)>> /\ Count(t, n) # 0 BY DEF Under, Entries
  <2>2. e[1] = n /\ prefix[1] <= n /\ n <= prefix[2] BY <2>1 DEF Under
  <2>3. \A i \in 1..Len(found) : found[i][1] = e[1] => found[i] = e BY <1>1, <2>1, <2>2
  <2> QED BY <1>2, <1>3, <2>1, <2>2, <2>3 DEF UpTo
<1>22. ItemsOf(got) \subseteq Under(Entries(t), prefix) BY DEF UpTo
<1>23. ASSUME Len(found) > PageLimit
       PROVE  /\ found[PageLimit][1] \in Nat
              /\ ItemsOf(items) = UpTo(Entries(t), prefix, found[PageLimit][1])
  <2> DEFINE last == found[PageLimit][1]
  <2>1. k = PageLimit /\ Len(found) = k + 1 /\ k \in 1..k /\ k \in 1..Len(found) BY <1>4, <1>6, <1>23
  <2>2. last \in Nat /\ last > after BY <1>16, <2>1
  <2>3. \A i \in 1..k : found[i][1] <= last
    <3> SUFFICES ASSUME NEW i \in 1..k PROVE found[i][1] <= last
      OBVIOUS
    <3>1. CASE i = k BY <2>1, <2>2, <3>1
    <3>2. CASE i # k
      <4>1. i < k /\ i \in 1..Len(found) BY <1>6, <1>15, <3>2
      <4>2. found[i][1] < found[k][1] /\ found[i][1] \in Nat BY <1>1, <1>16, <2>1, <4>1
      <4> QED BY <2>1, <2>2, <4>2
    <3> QED BY <3>1, <3>2
  <2>4. \A e \in ItemsOf(got) : e[1] <= last
    <3>1. \A i \in 1..g : got[i][1] <= last BY <1>17, <2>2
    <3> QED BY <1>9, <3>1 DEF ItemsOf
  <2>5. ItemsOf(items) \subseteq UpTo(Entries(t), prefix, last)
    BY <1>15, <1>19, <1>20, <1>22, <2>3, <2>4 DEF UpTo
  <2>6. ASSUME NEW e \in UpTo(Entries(t), prefix, last) PROVE e \in ItemsOf(items)
    <3>1. e \in Under(Entries(t), prefix) /\ e[1] <= last BY DEF UpTo
    <3>2. CASE e[1] <= after BY <1>19, <1>21, <3>1, <3>2
    <3>3. CASE e[1] > after
      <4>1. e[1] \in wanted BY <1>21, <3>1, <3>3
      <4>2. last < e[1] => FALSE BY <1>21, <2>2, <3>1
      <4>3. PICK i \in 1..Len(found) : found[i][1] = e[1] BY <1>1, <2>1, <4>1, <4>2
      <4>4. found[i] = e BY <1>21, <3>1, <4>3
      <4>5. ~(k < i) => i \in 1..k BY <1>6, <2>1
      <4>6. k < i => found[k][1] < found[i][1] BY <1>1, <2>1
      <4>7. i \in 1..k BY <2>1, <3>1, <4>2, <4>3, <4>5, <4>6
      <4> QED BY <1>19, <4>4, <4>7
    <3> QED BY <1>21, <3>1, <3>2, <3>3
  <2> QED BY <2>2, <2>5, <2>6
<1>24. ASSUME ~(Len(found) > PageLimit) PROVE ItemsOf(items) = Under(Entries(t), prefix)
  <2>1. k = Len(found) /\ Len(found) # PageLimit + 1 BY <1>4, <1>5, <1>6, <1>24
  <2>2. ItemsOf(items) \subseteq Under(Entries(t), prefix) BY <1>15, <1>19, <1>20, <1>22
  <2>3. ASSUME NEW e \in Under(Entries(t), prefix) PROVE e \in ItemsOf(items)
    <3>2. CASE e[1] <= after BY <1>19, <1>21, <3>2
    <3>3. CASE e[1] > after
      <4>1. e[1] \in wanted BY <1>21, <3>3
      <4>3. PICK i \in 1..Len(found) : found[i][1] = e[1] BY <1>1, <2>1, <4>1
      <4>4. found[i] = e BY <1>21, <4>3
      <4> QED BY <1>19, <2>1, <4>4
    <3> QED BY <1>21, <3>2, <3>3
  <2> QED BY <2>2, <2>3
<1> QED BY <1>10, <1>18, <1>23, <1>24 DEF GoesOn

-----------------------------------------------------------------------------
\* The catalog is sound and counts what is there, and a walk that can go on has every
\* entry that its fingerprint names up to where it stands.
WalkFits ==
  /\ scan \in [prefix : NamePrefixes \cup {<<>>},
               cursor : {<<>>} \cup (SUBSET (TagNames \X Nat)) \X Nat,
               items  : Seq(TagNames \X Nat), done : BOOLEAN]
  /\ NamesAscend(scan.items)
  /\ scan.cursor # <<>> => ItemsOf(scan.items) = UpTo(scan.cursor[1], scan.prefix, scan.cursor[2])
  /\ scan.done => ItemsOf(scan.items) = Under(Entries(tags), scan.prefix)

CatalogInv ==
  /\ IsCatalog(tags) /\ Printed(tags)
  /\ carried \in [TagNames -> Nat]
  /\ \A n \in TagNames : Count(tags, n) = carried[n]
  /\ WalkFits

LEMMA CatalogInvTells == CatalogInv => WalksAddUp
<1> SUFFICES ASSUME CatalogInv PROVE WalksAddUp
  OBVIOUS
<1>1. \A n \in TagNames : Count(tags, n) = carried[n] BY DEF CatalogInv
<1>2. \A n \in TagNames : Count(LoadedTags(Dumped(tags)), n) = carried[n]
  <2>1. \A n \in TagNames : Count(LoadedTags(Dumped(tags)), n) = Count(tags, n)
    BY ReloadedFits DEF CatalogInv
  <2> QED BY <1>1, <2>1
<1>3. ASSUME scan.done PROVE IsListing(scan.items, scan.prefix)
  <2> DEFINE p == scan.prefix
             s == scan.items
  <2>1. NamesAscend(s) /\ ItemsOf(s) = Under(Entries(tags), p) BY <1>3 DEF CatalogInv, WalkFits
  <2> HIDE DEF p, s
  <2>2. Under(Entries(tags), p) =
          {<<n, carried[n]>> : n \in {m \in TagNames : p[1] <= m /\ m <= p[2] /\ carried[m] # 0}}
    BY <1>1 DEF Under, Entries
  <2>3. IsListing(s, p) BY <2>1, <2>2 DEF IsListing, NamesAscend, ItemsOf
  <2> QED BY <2>3 DEF p, s
<1> QED BY <1>1, <1>2, <1>3 DEF WalksAddUp

LEMMA CatalogInitHolds == CatalogInit => CatalogInv
<1> SUFFICES ASSUME CatalogInit PROVE CatalogInv
  OBVIOUS
<1>1. IsCatalog(tags)
  <2>1. tags = [base |-> NoRun, runs |-> <<>>, buffer |-> NoRun, fingerprint |-> {}]
    BY DEF CatalogInit, EmptyTags
  <2>2. <<>> \in Seq(Runs) /\ \A m : Holders(<<>>, m) = {} BY DEF Holders
  <2> QED BY <2>1, <2>2, NoRunIs DEF IsCatalog, Apart
<1>2. tags.fingerprint = {} /\ tags.base = NoRun /\ tags.buffer = NoRun /\ tags.runs = <<>>
  BY DEF CatalogInit, EmptyTags
<1>3. carried \in [TagNames -> Nat] /\ \A n \in TagNames : carried[n] = 0 BY DEF CatalogInit
<1>4. \A n \in TagNames : Count(tags, n) = 0
  <2>1. \A m : Holders(tags.runs, m) = {} BY <1>2 DEF Holders
  <2> QED BY <1>1, <1>2, <2>1, CountIs, NoRunIs
<1>5. Printed(tags) BY <1>2, <1>4 DEF Printed, Entries
<1>6. WalkFits
  <2>1. scan = [prefix |-> <<>>, cursor |-> <<>>, items |-> <<>>, done |-> FALSE]
    BY DEF CatalogInit, NoScan
  <2>2. NamesAscend(<<>>) BY DEF NamesAscend
  <2>3. <<>> \in Seq(TagNames \X Nat) OBVIOUS
  <2> QED BY <2>1, <2>2, <2>3 DEF WalkFits
<1> QED BY <1>1, <1>3, <1>4, <1>5, <1>6 DEF CatalogInv

\* A page, the first or a further one.
LEMMA PageKeepsInv ==
  ASSUME CatalogInv, NEW p \in NamePrefixes \cup {<<>>}, NEW after \in Nat, NEW got \in Seq(TagNames \X Nat),
         NamesAscend(got), ItemsOf(got) = UpTo(Entries(tags), p, after),
         NextPageOf(p, after, got), UNCHANGED <<tags, carried>>
  PROVE  CatalogInv'
<1> DEFINE found == Merged(tags, after, p)
           more  == Len(found) > PageLimit
           items == got \o (IF more THEN SubSeq(found, 1, PageLimit) ELSE found)
<1>1. scan' = [prefix |-> p, done |-> ~more, items |-> items,
               cursor |-> IF more THEN <<tags.fingerprint, found[PageLimit][1]>> ELSE <<>>]
  BY DEF NextPageOf
<1>2. IsCatalog(tags) /\ Printed(tags) BY DEF CatalogInv
<1>3. /\ items \in Seq(TagNames \X Nat) /\ NamesAscend(items)
      /\ more => /\ found[PageLimit][1] \in Nat
                 /\ ItemsOf(items) = UpTo(Entries(tags), p, found[PageLimit][1])
      /\ ~more => ItemsOf(items) = Under(Entries(tags), p)
  <2>1. PICK wanted : wanted = AskedFor(tags, after, p) OBVIOUS
  <2>2. GoesOn(tags, p, found, items) BY <1>2, <2>1, PageContinues
  <2> QED BY <2>2, Zenon DEF GoesOn
<1> HIDE DEF items, more, found
<1>4. tags' = tags /\ carried' = carried OBVIOUS
<1>5. tags.fingerprint \in SUBSET (TagNames \X Nat) /\ tags.fingerprint = Entries(tags)
  BY <1>2 DEF IsCatalog, Printed
<1>6. /\ scan'.prefix = p /\ scan'.items = items
      /\ scan'.done <=> ~more
      /\ more => scan'.cursor = <<tags.fingerprint, found[PageLimit][1]>>
      /\ ~more => scan'.cursor = <<>>
  BY <1>1
<1>7. scan' \in [prefix : NamePrefixes \cup {<<>>},
                 cursor : {<<>>} \cup (SUBSET (TagNames \X Nat)) \X Nat,
                 items  : Seq(TagNames \X Nat), done : BOOLEAN]
  <2>1. (IF more THEN <<tags.fingerprint, found[PageLimit][1]>> ELSE <<>>)
          \in {<<>>} \cup (SUBSET (TagNames \X Nat)) \X Nat
    BY <1>3, <1>5
  <2>2. (~more) \in BOOLEAN OBVIOUS
  <2> QED BY <1>1, <1>3, <2>1, <2>2
<1>8. scan'.cursor # <<>> => ItemsOf(scan'.items) = UpTo(scan'.cursor[1], scan'.prefix, scan'.cursor[2])
  <2>1. CASE more
    <3>1. scan'.cursor[1] = Entries(tags) /\ scan'.cursor[2] = found[PageLimit][1] BY <1>5, <1>6, <2>1
    <3> QED BY <1>3, <1>6, <2>1, <3>1
  <2> QED BY <1>6, <2>1
<1>9. scan'.done => ItemsOf(scan'.items) = Under(Entries(tags'), scan'.prefix) BY <1>3, <1>4, <1>6
<1>10. WalkFits' BY <1>3, <1>6, <1>7, <1>8, <1>9 DEF WalkFits
<1> QED BY <1>4, <1>10 DEF CatalogInv

LEMMA CatalogNextHolds == CatalogInv /\ [CatalogNext]_catalogVars => CatalogInv'
<1> SUFFICES ASSUME CatalogInv, [CatalogNext]_catalogVars PROVE CatalogInv'
  OBVIOUS
<1> USE DEF CatalogInv
<1>1. CASE ReopenCatalog
  <2>1. tags' = LoadedTags(Dumped(tags)) /\ carried' = carried /\ scan' = scan
    BY <1>1 DEF ReopenCatalog
  <2>2. IsCatalog(tags') /\ Printed(tags') /\ \A m \in TagNames : Count(tags', m) = Count(tags, m)
    BY <2>1, ReloadedFits
  <2>3. Entries(tags') = Entries(tags) BY <2>2 DEF Entries
  <2>4. WalkFits' BY <2>1, <2>3 DEF WalkFits
  <2> QED BY <2>1, <2>2, <2>4
<1>2. CASE FurtherPage
  <2>1. scan.cursor # <<>> /\ UNCHANGED <<tags, carried>> BY <1>2 DEF FurtherPage
  <2>2. CASE scan.cursor[1] = tags.fingerprint
    <3>1. NextPageOf(scan.prefix, scan.cursor[2], scan.items) BY <1>2, <2>2 DEF FurtherPage
    <3>2. /\ scan.prefix \in NamePrefixes \cup {<<>>} /\ scan.cursor[2] \in Nat
          /\ scan.items \in Seq(TagNames \X Nat) /\ NamesAscend(scan.items)
          /\ ItemsOf(scan.items) = UpTo(scan.cursor[1], scan.prefix, scan.cursor[2])
      BY <2>1 DEF WalkFits
    <3>3. ItemsOf(scan.items) = UpTo(Entries(tags), scan.prefix, scan.cursor[2])
      BY <2>2, <3>2 DEF Printed
    <3> QED BY <2>1, <3>1, <3>2, <3>3, PageKeepsInv
  <2>3. CASE scan.cursor[1] # tags.fingerprint
    <3>1. scan' = [prefix |-> <<>>, cursor |-> <<>>, items |-> <<>>, done |-> FALSE]
      BY <1>2, <2>3 DEF FurtherPage, NoScan
    <3>2. NamesAscend(<<>>) BY DEF NamesAscend
    <3>3. <<>> \in Seq(TagNames \X Nat) OBVIOUS
    <3>4. WalkFits' BY <3>1, <3>2, <3>3 DEF WalkFits
    <3> QED BY <2>1, <3>4
  <2> QED BY <2>2, <2>3
<1>3. CASE \E p \in NamePrefixes : FirstPageOf(p)
  <2>1. PICK p \in NamePrefixes : NextPageOf(p, 0, <<>>) /\ UNCHANGED <<tags, carried>>
    BY <1>3 DEF FirstPageOf
  <2>2. NamesAscend(<<>>) /\ <<>> \in Seq(TagNames \X Nat) BY DEF NamesAscend
  <2>3. ItemsOf(<<>>) = {} BY DEF ItemsOf
  <2>4. UpTo(Entries(tags), p, 0) = {} BY CatalogAssumption DEF UpTo, Under, Entries
  <2> QED BY <2>1, <2>2, <2>3, <2>4, PageKeepsInv
<1>4. CASE \E n \in TagNames, c \in 0..MaxCount : ChangeTag(n, c)
  <2>1. PICK n \in TagNames, c \in 0..MaxCount : ChangeTag(n, c) BY <1>4
  <2>2. /\ tags' = Changed(tags, n, c) /\ carried' = [carried EXCEPT ![n] = c]
        /\ scan' = [scan EXCEPT !.done = FALSE]
    BY <2>1 DEF ChangeTag
  <2>3. c \in Nat OBVIOUS
  <2>4. /\ IsCatalog(tags') /\ Printed(tags') /\ Count(tags', n) = c
        /\ \A m \in TagNames : m # n => Count(tags', m) = Count(tags, m)
    BY <2>2, <2>3, ChangedFits
  <2>5. carried' \in [TagNames -> Nat] /\ \A m \in TagNames : Count(tags', m) = carried'[m]
    BY <2>2, <2>3, <2>4
  <2>6. WalkFits' BY <2>2 DEF WalkFits
  <2> QED BY <2>4, <2>5, <2>6
<1>5. CASE UNCHANGED catalogVars
  <2>1. tags' = tags /\ carried' = carried /\ scan' = scan BY <1>5 DEF catalogVars
  <2> QED BY <2>1 DEF WalkFits
<1> QED BY <1>1, <1>2, <1>3, <1>4, <1>5 DEF CatalogNext

\* The catalog counts what is there through every flush, merge and reopening, and a
\* walk that ends without StaleCursor has returned the catalog as it stands: each tag
\* once, in order, with its count.
THEOREM WalksReturnTheCatalog == CatalogSpec => []WalksAddUp
<1>1. CatalogSpec => []CatalogInv BY CatalogInitHolds, CatalogNextHolds, PTL DEF CatalogSpec
<1> QED BY <1>1, CatalogInvTells, PTL

-----------------------------------------------------------------------------
(* The detector of near-duplicates (Similar).                              *)

\* A list without what is not in it is itself, and without its last element the rest.
LEMMA OnlyKeeps ==
  ASSUME NEW R, NEW s \in Seq(R), NEW S
  PROVE  /\ Only(s, S) \in Seq(S)
         /\ R \subseteq S => Only(s, S) = s
         /\ \A e : R \subseteq S /\ e \notin S => Only(Append(s, e), S) = s
<1>1. \A t : Only(t, S) = KeepIn(t, S) BY DEF Only, KeepIn
<1>2. Only(s, S) \in Seq(S) BY <1>1, KeepSeq
<1>3. ASSUME R \subseteq S PROVE Only(s, S) = s
  <2> DEFINE T == {t \in Seq(R) : KeepIn(t, S) = t}
  <2>1. <<>> \in T
    <3>1. <<>> \in Seq(R) OBVIOUS
    <3> QED BY <3>1, KeepEmpty
  <2>2. ASSUME NEW t \in Seq(R), NEW e \in R, t \in T PROVE Append(t, e) \in T
    <3>1. e \in S /\ Append(t, e) \in Seq(R) /\ KeepIn(t, S) = t BY <1>3, <2>2
    <3>2. KeepIn(Append(t, e), S) = Append(KeepIn(t, S), e) BY <3>1, KeepAppend
    <3> QED BY <3>1, <3>2
  <2> HIDE DEF T
  <2>3. s \in T BY <2>1, <2>2, Naturally!InductiveSeq
  <2> QED BY <1>1, <2>3 DEF T
<1>4. ASSUME NEW e, R \subseteq S, e \notin S PROVE Only(Append(s, e), S) = s
  <2>1. s \in Seq(R \cup {e})
    <3>1. R \subseteq R \cup {e} OBVIOUS
    <3> QED BY <3>1
  <2>2. e \in R \cup {e} OBVIOUS
  <2>3. KeepIn(Append(s, e), S) = KeepIn(s, S) BY <1>4, <2>1, <2>2, KeepAppend
  <2> QED BY <1>1, <1>3, <1>4, <2>3
<1> QED BY <1>2, <1>3, <1>4

\* Numbers that leave one remainder are no nearer than the divisor.
LEMMA Remainder ==
  ASSUME NEW c \in Nat, c > 0, NEW a \in Nat
  PROVE  (\E q \in Nat : a = (c * q) + (a % c)) /\ a % c \in 0..c - 1
<1>1. a % c < c /\ a % c >= 0 /\ a % c \in Int OBVIOUS
<1>2. a = (c * (a \div c)) + (a % c) /\ a \div c \in Nat OBVIOUS
<1>3. \E q \in Nat : a = (c * q) + (a % c) BY <1>2, Zenon
<1>4. a % c \in 0..c - 1 BY <1>1
<1> QED BY <1>3, <1>4

LEMMA RemainderIs ==
  ASSUME NEW c \in Nat, c > 0, NEW a \in Nat, NEW q \in Nat, NEW r \in Nat, r < c, a = (c * q) + r
  PROVE  a % c = r
OBVIOUS

LEMMA Remainders ==
  ASSUME NEW c \in Nat, c > 0, NEW a \in Nat
  PROVE  /\ a % c \in 0..c - 1 /\ (a + c) % c = a % c
         /\ \A b \in Nat : a % c = b % c /\ a < b => a + c <= b
<1>1. PICK p \in Nat : a = (c * p) + (a % c) /\ a % c \in 0..c - 1 BY Remainder
<1> DEFINE r == a % c
<1>r. a = (c * p) + r /\ r \in Nat /\ r < c BY <1>1
<1> HIDE DEF r
<1>p. c * p \in Nat /\ c * (p + 1) = (c * p) + c OBVIOUS
<1>2. (a + c) % c = r
  <2>1. a + c = (c * (p + 1)) + r /\ p + 1 \in Nat /\ a + c \in Nat BY <1>r, <1>p
  <2> QED BY <1>r, <2>1, RemainderIs
<1>3. ASSUME NEW b \in Nat, r = b % c, a < b PROVE a + c <= b
  <2>1. PICK q \in Nat : b = (c * q) + (b % c) BY Remainder
  <2>2. b = (c * q) + r BY <1>3, <2>1
  <2>3. c * q \in Nat OBVIOUS
  <2>4. c * p < c * q BY <1>3, <1>p, <1>r, <2>2, <2>3
  <2>5. p < q
    <3>1. SUFFICES ASSUME q <= p PROVE FALSE OBVIOUS
    <3>2. c * q <= c * p BY <3>1
    <3> QED BY <1>p, <2>3, <2>4, <3>2
  <2>6. c * (p + 1) <= c * q
    <3>1. p + 1 <= q /\ p + 1 \in Nat BY <2>5
    <3> QED BY <3>1
  <2> QED BY <1>p, <1>r, <2>2, <2>3, <2>6
<1> QED BY <1>1, <1>2, <1>3 DEF r

LEMMA MaxOfSome ==
  ASSUME NEW n \in Nat, NEW T, T \subseteq 1..n, T # {}
  PROVE  Max(T) \in T /\ \A i \in T : i <= Max(T)
<1> DEFINE U == {n - i : i \in T}
<1>1. U \subseteq Nat /\ U # {}
  <2>1. \A i \in T : i \in 1..n OBVIOUS
  <2>2. \A i \in T : n - i \in Nat BY <2>1
  <2> QED BY <2>2
<1>2. PICK u \in U : \A v \in U : u <= v BY <1>1, Naturally!LeastNatural
<1>3. PICK i \in T : u = n - i OBVIOUS
<1>4. \A j \in T : i >= j
  <2>1. \A j \in T : n - i <= n - j BY <1>2, <1>3
  <2> QED BY <2>1
<1>5. \E x \in T : \A y \in T : x >= y BY <1>4
<1>6. Max(T) \in T /\ \A y \in T : Max(T) >= y BY <1>5 DEF Max
<1> QED BY <1>6

\* The ring of the last candidates, and what it is to hold.
Ring(list) ==
  LET slot == [k \in 0..CandidateCap - 1 |-> {i \in DOMAIN list : (i - 1) % CandidateCap = k}]
  IN  {list[Max(slot[k])] : k \in {j \in DOMAIN slot : slot[j] # {}}}
Recent(list) == {list[i] : i \in {j \in DOMAIN list : j > Len(list) - CandidateCap}}

\* The ring ends with the last of the list.
LEMMA RingHoldsTheRecent ==
  ASSUME NEW R, NEW list \in Seq(R) PROVE Ring(list) = Recent(list)
<1> DEFINE slot == [k \in 0..CandidateCap - 1 |-> {i \in DOMAIN list : (i - 1) % CandidateCap = k}]
           c == CandidateCap
           n == Len(list)
<1>1. c \in Nat /\ c > 0 BY SimilarAssumption
<1>2. n \in Nat /\ DOMAIN list = 1..n OBVIOUS
<1>3. \A k \in DOMAIN slot : slot[k] = {i \in 1..n : (i - 1) % c = k} BY <1>2
<1>4. DOMAIN slot = 0..c - 1 OBVIOUS
<1>s. Ring(list) = {list[Max(slot[k])] : k \in {j \in DOMAIN slot : slot[j] # {}}} BY DEF Ring
<1> HIDE DEF c, n, slot
<1>5. ASSUME NEW k \in DOMAIN slot, slot[k] # {}
      PROVE  Max(slot[k]) \in 1..n /\ Max(slot[k]) > n - c
  <2>1. slot[k] \subseteq 1..n BY <1>3
  <2>2. Max(slot[k]) \in slot[k] /\ \A i \in slot[k] : i <= Max(slot[k])
    BY <1>2, <1>5, <2>1, MaxOfSome
  <2> DEFINE i == Max(slot[k])
  <2>3. i \in 1..n /\ (i - 1) % c = k BY <1>3, <2>2
  <2>4. ASSUME i <= n - c PROVE FALSE
    <3> HIDE DEF i
    <3>1. i + c \in 1..n /\ i - 1 \in Nat /\ (i + c) - 1 = (i - 1) + c BY <1>1, <1>2, <2>3, <2>4
    <3>2. ((i - 1) + c) % c = (i - 1) % c BY <1>1, <3>1, Remainders
    <3>3. i + c \in slot[k] BY <1>3, <2>3, <3>1, <3>2
    <3>4. i + c <= i BY <2>2, <3>3 DEF i
    <3> QED BY <1>1, <2>3, <3>4
  <2> HIDE DEF i
  <2>5. i > n - c BY <1>1, <1>2, <2>3, <2>4
  <2> QED BY <2>3, <2>5 DEF i
<1>6. ASSUME NEW i \in 1..n, i > n - c
      PROVE  \E k \in DOMAIN slot : slot[k] # {} /\ Max(slot[k]) = i
  <2> DEFINE k == (i - 1) % c
  <2>1. i - 1 \in Nat OBVIOUS
  <2>2. k \in DOMAIN slot BY <1>1, <1>4, <2>1, Remainders
  <2>3. i \in slot[k] /\ slot[k] \subseteq 1..n BY <1>3, <2>2
  <2>4. Max(slot[k]) \in slot[k] /\ \A j \in slot[k] : j <= Max(slot[k])
    BY <1>2, <2>3, MaxOfSome
  <2> DEFINE j == Max(slot[k])
  <2>5. j \in 1..n /\ (j - 1) % c = (i - 1) % c /\ i <= j BY <1>3, <2>2, <2>3, <2>4
  <2> HIDE DEF j, k
  <2>6. j - 1 \in Nat BY <2>5
  <2>7. i - 1 < j - 1 => (i - 1) + c <= j - 1 BY <1>1, <2>1, <2>5, <2>6, Remainders
  <2>8. i = j BY <1>1, <1>2, <1>6, <2>5, <2>7
  <2> QED BY <2>2, <2>3, <2>8 DEF j
<1>7. {list[Max(slot[k])] : k \in {j \in DOMAIN slot : slot[j] # {}}}
        = {list[i] : i \in {j \in 1..n : j > n - c}}
  BY <1>5, <1>6
<1> QED BY <1>2, <1>7, <1>s DEF c, n, Recent

-----------------------------------------------------------------------------
\* scan_similar by its parts: who is read, by what, with which hint.
May(m, q, id) == q.terms # {} /\ OverlapPossible(m, id, q.terms, q.count)
Jaccard(m, q, id) ==
  IF May(m, q, id) /\ WordsIn(m.facts[id].text) \cap m.vocabulary # {}
    THEN Overlap(m, id, q) ELSE <<0, 1>>
HintsOf(m, q, id) == Signals(id, Jaccard(m, q, id), Cosine(q.vector, m.facts[id].vector))
Searched(m, q) ==
  {c \in HintCandidates(m, q) : /\ c \in DOMAIN m.facts /\ m.facts[c].state = "current"
                                /\ q.vector = NoEmbedding => May(m, q, c)}

LEMMA HintsByParts ==
  ASSUME NEW m, NEW q
  PROVE  HintsFound(m, q) = IF q.count = 0 /\ q.vector = NoEmbedding THEN {}
                            ELSE UNION {HintsOf(m, q, id) : id \in Searched(m, q)}
BY DEF HintsFound, HintsOf, Jaccard, Searched, May

\* What the reader has in mind, of two texts' words.
Shared(A, B) == IF A \cup B = {} THEN <<0, 1>> ELSE <<Cardinality(A \cap B), Cardinality(A \cup B)>>
TruthOf(input, id) ==
  Signals(id, Shared(WordsIn(input.text), WordsIn(engine.facts[id].text)),
          Cosine(input.vector, engine.facts[id].vector))

\* Two similarities that are below the bar weigh alike, and without a vector of its
\* own the newcomer has none that is above.
LEMMA SignalsBelow ==
  ASSUME NEW id, NEW j, NEW k, NEW v, NEW w, ~Above(j, JaccardBar), ~Above(k, JaccardBar)
  PROVE  /\ Signals(id, j, Cosine(v, w)) = Signals(id, k, Cosine(v, w))
         /\ v = NoEmbedding => Signals(id, j, Cosine(v, w)) = {}
<1>1. ASSUME v = NoEmbedding PROVE ~Above(Cosine(v, w), CosineBar)
  <2>1. PICK a \in Nat, b \in Nat \ {0} : CosineBar = <<a, b>> BY SimilarAssumption
  <2>2. Cosine(v, w) = <<-2, 1>> \/ Cosine(v, w) = <<0, 1>> BY <1>1 DEF Cosine
  <2>3. ~Above(<<-2, 1>>, CosineBar) BY <2>1 DEF Above
  <2>4. ~Above(<<0, 1>>, CosineBar) BY <2>1 DEF Above
  <2> QED BY <2>2, <2>3, <2>4
<1> QED BY <1>1 DEF Signals

LEMMA SignalsNameIt ==
  ASSUME NEW id, NEW j, NEW c
  PROVE  /\ \A h \in Signals(id, j, c) : h.id = id
         /\ Signals(id, j, c) # {} <=> (Above(j, JaccardBar) \/ Above(c, CosineBar))
<1> DEFINE V == {[id |-> id, score |-> c, reason |-> "vectorCosine"]}
           L == {[id |-> id, score |-> j, reason |-> "lexicalOverlap"]}
<1>1. V # {} /\ L # {} /\ (\A h \in V : h.id = id) /\ (\A h \in L : h.id = id) OBVIOUS
<1>2. Signals(id, j, c) = IF Above(c, CosineBar) /\ (Above(j, JaccardBar) => Above(c, j)) THEN V
                          ELSE IF Above(j, JaccardBar) THEN L ELSE {}
  BY Zenon DEF Signals
<1> HIDE DEF V, L
<1> QED BY <1>1, <1>2

\* A text has finitely many words.
LEMMA FewWords ==
  ASSUME NEW s, s \in Seq(ToSet(s)) PROVE IsFiniteSet(WordsIn(s))
<1>1. IsFiniteSet(1..Len(s)) BY FS_Interval
<1>2. s \in Surjection(1..Len(s), ToSet(s)) BY DEF Surjection, ToSet
<1> QED BY <1>1, <1>2, FS_Surjection DEF WordsIn

\* How many words two finite sets share, and how many they have together.
LEMMA Counts ==
  ASSUME NEW A, NEW B, IsFiniteSet(A), IsFiniteSet(B)
  PROVE  /\ Cardinality(A) \in Nat /\ Cardinality(B) \in Nat
         /\ Cardinality(A \cap B) \in Nat /\ Cardinality(A \cup B) \in Nat
         /\ Cardinality(A \cap B) <= Cardinality(B)
         /\ Cardinality(A \cap B) <= Cardinality(A)
         /\ Cardinality(A \cup B) = Cardinality(A) + Cardinality(B) - Cardinality(A \cap B)
<1>1. IsFiniteSet(A \cap B) /\ IsFiniteSet(A \cup B) BY FS_Intersection, FS_Union
<1>2. Cardinality(A \cap B) <= Cardinality(B) /\ Cardinality(A \cap B) <= Cardinality(A)
  BY FS_Intersection
<1>3. Cardinality(A \cup B) = Cardinality(A) + Cardinality(B) - Cardinality(A \cap B)
  BY FS_Union
<1> QED BY <1>1, <1>2, <1>3, FS_CardinalityType

\* A larger part of a smaller whole is above a bar the smaller is above.
LEMMA AboveGrows ==
  ASSUME NEW s \in Nat, NEW t \in Int, NEW x \in Nat, NEW y \in Int, s <= x, y <= t,
         Above(<<s, t>>, JaccardBar)
  PROVE  (Above(<<x, y>>, JaccardBar) /\ s > 0) \/ t < 0
<1>1. PICK a \in Nat, b \in Nat \ {0} : JaccardBar = <<a, b>> BY SimilarAssumption
<1>2. s * b > a * t BY <1>1 DEF Above
<1>3. s * b <= x * b BY <1>1
<1>4. a * y <= a * t BY <1>1
<1>5. x * b > a * y /\ x * b \in Int /\ a * y \in Int BY <1>1, <1>2, <1>3, <1>4
<1>6. Above(<<x, y>>, JaccardBar) BY <1>1, <1>5 DEF Above
<1>7. t >= 0 => a * t >= 0 BY <1>1
<1>8. t >= 0 => s > 0
  <2>1. s = 0 => s * b = 0 BY <1>1
  <2>2. a * t \in Int BY <1>1
  <2> QED BY <1>2, <1>7, <2>1, <2>2
<1> QED BY <1>6, <1>8

LEMMA NothingShared == ASSUME NEW n \in Nat PROVE ~Above(<<0, n>>, JaccardBar)
<1>1. PICK a \in Nat, b \in Nat \ {0} : JaccardBar = <<a, b>> BY SimilarAssumption
<1>2. a * n >= 0 /\ 0 * b = 0 BY <1>1
<1> QED BY <1>1, <1>2 DEF Above

\* A document of a fact's words: it has a summary of them, or none yet.
DocFits(doc, B) ==
  /\ doc.terms = B
  /\ doc.distinct = 0 \/ (doc.distinct = Cardinality(B) /\ doc.sig = {BitOfWord[w] : w \in B})

\* A comparison with a fact whose words are known is the one of the texts; what its
\* summary spares reading is not above the bar.
LEMMA ComparisonIsTrue ==
  ASSUME NEW m, NEW q, NEW id, NEW A, NEW B, IsFiniteSet(A), IsFiniteSet(B),
         B = WordsIn(m.facts[id].text), B \subseteq m.vocabulary, m.current,
         q.terms \subseteq A, q.terms \cap B = A \cap B, q.count = Cardinality(A),
         DocFits(m.docs[id], B)
  PROVE  /\ \/ Jaccard(m, q, id) = Shared(A, B)
            \/ ~Above(Jaccard(m, q, id), JaccardBar) /\ ~Above(Shared(A, B), JaccardBar)
         /\ ~May(m, q, id) \/ q.count = 0 =>
              ~Above(Jaccard(m, q, id), JaccardBar) /\ ~Above(Shared(A, B), JaccardBar)
<1> DEFINE a == Cardinality(A)
           b == Cardinality(B)
           both == Cardinality(A \cap B)
           all == Cardinality(A \cup B)
<1>1. /\ a \in Nat /\ b \in Nat /\ both \in Nat /\ all \in Nat
      /\ both <= a /\ both <= b /\ all = a + b - both
  BY Counts
<1>2. A \cap B = {} => ~Above(Shared(A, B), JaccardBar)
  <2>1. SUFFICES ASSUME A \cap B = {} PROVE ~Above(Shared(A, B), JaccardBar) OBVIOUS
  <2>2. both = 0 BY <2>1, FS_EmptySet
  <2>3. Shared(A, B) = <<0, 1>> \/ Shared(A, B) = <<0, all>> BY <2>2 DEF Shared
  <2> QED BY <1>1, <2>3, NothingShared
<1>3. Overlap(m, id, q) = <<both, b + a - both>>
  <2>1. WordsIn(m.facts[id].text) \cap m.vocabulary = B OBVIOUS
  <2>2. B \cap q.terms = A \cap B OBVIOUS
  <2> QED BY <2>1, <2>2 DEF Overlap
<1>4. CASE May(m, q, id) /\ B # {}
  <2>1. Jaccard(m, q, id) = <<both, b + a - both>> BY <1>3, <1>4 DEF Jaccard
  <2>2. Shared(A, B) = <<both, all>> BY <1>4 DEF Shared
  <2>3. b + a - both = all BY <1>1
  <2>4. q.count # 0 BY <1>4, FS_EmptySet, FS_Subset DEF May
  <2> QED BY <1>4, <2>1, <2>2, <2>3, <2>4
<1>5. CASE B = {}
  <2>1. Jaccard(m, q, id) = <<0, 1>> BY <1>5 DEF Jaccard
  <2> QED BY <1>2, <1>5, <2>1, NothingShared
<1>6. CASE ~May(m, q, id)
  <2>1. Jaccard(m, q, id) = <<0, 1>> BY <1>6 DEF Jaccard
  <2>2. ~Above(Shared(A, B), JaccardBar)
    <3>1. CASE q.terms = {} BY <1>2, <3>1
    <3>2. CASE ~OverlapPossible(m, id, q.terms, q.count) /\ A \cap B # {}
      <4> DEFINE bound == OverlapBound(m.docs[id], q.terms)
      <4>1. /\ ~Above(<<bound, a - bound + m.docs[id].distinct>>, JaccardBar)
            /\ m.docs[id].distinct # 0
        BY <3>2 DEF OverlapPossible
      <4>2. m.docs[id].distinct = b /\ m.docs[id].sig = {BitOfWord[w] : w \in B}
        BY <4>1 DEF DocFits
      <4>3. bound \in Nat /\ both <= bound
        <5> DEFINE W == {w \in q.terms : BitOfWord[w] \in m.docs[id].sig}
        <5>1. W \subseteq A /\ A \cap B \subseteq W BY <4>2
        <5>2. IsFiniteSet(W) BY <5>1, FS_Subset
        <5>3. Cardinality(W) \in Nat /\ both <= Cardinality(W)
          BY <5>1, <5>2, FS_Subset, FS_CardinalityType
        <5> QED BY <5>3 DEF OverlapBound
      <4>4. Shared(A, B) = <<both, all>> BY <3>2 DEF Shared
      <4>5. ~Above(<<bound, a - bound + b>>, JaccardBar) BY <4>1, <4>2
      <4> HIDE DEF bound, a, b, both, all
      <4>6. a - bound + b <= all /\ a - bound + b \in Int BY <1>1, <4>3
      <4>7. Above(<<both, all>>, JaccardBar) => Above(<<bound, a - bound + b>>, JaccardBar)
        <5>1. SUFFICES ASSUME Above(<<both, all>>, JaccardBar)
              PROVE  Above(<<bound, a - bound + b>>, JaccardBar)
          OBVIOUS
        <5>2. ~(all < 0) /\ all \in Int BY <1>1
        <5> QED BY <1>1, <4>3, <4>6, <5>1, <5>2, AboveGrows
      <4> QED BY <4>4, <4>5, <4>7
    <3> QED BY <1>2, <1>6, <3>1, <3>2 DEF May
  <2> QED BY <2>1, <2>2, NothingShared
<1> QED BY <1>4, <1>5, <1>6

\* Under an index of another tokenizer, what is above the bar is compared and above it.
LEMMA ComparisonMissesNothing ==
  ASSUME NEW m, NEW q, NEW id, NEW A, NEW B, IsFiniteSet(A), IsFiniteSet(B),
         B = WordsIn(m.facts[id].text), A \subseteq m.vocabulary, ~m.current,
         q.terms = A, q.count = Cardinality(A), Above(Shared(A, B), JaccardBar)
  PROVE  May(m, q, id) /\ q.count # 0 /\ Above(Jaccard(m, q, id), JaccardBar)
<1> DEFINE K == B \cap m.vocabulary
           a == Cardinality(A)
           b == Cardinality(B)
           k == Cardinality(K)
           both == Cardinality(A \cap B)
           all == Cardinality(A \cup B)
<1>1. /\ a \in Nat /\ b \in Nat /\ both \in Nat /\ all \in Nat
      /\ both <= a /\ both <= b /\ all = a + b - both
  BY Counts
<1>2. A \cap B # {}
  <2>1. SUFFICES ASSUME A \cap B = {} PROVE FALSE OBVIOUS
  <2>2. both = 0 BY <2>1, FS_EmptySet
  <2>3. Shared(A, B) = <<0, 1>> \/ Shared(A, B) = <<0, all>> BY <2>2 DEF Shared
  <2> QED BY <1>1, <2>3, NothingShared
<1>3. May(m, q, id) /\ q.count # 0
  BY <1>2, FS_EmptySet DEF May, OverlapPossible
<1>4. k \in Nat /\ k <= b BY FS_Intersection, FS_CardinalityType
<1>5. Jaccard(m, q, id) = <<both, k + a - both>>
  <2>1. K \cap A = A \cap B /\ K # {} BY <1>2
  <2> QED BY <1>3, <2>1 DEF Jaccard, Overlap
<1>6. Above(<<both, all>>, JaccardBar) BY <1>2 DEF Shared
<1>7. Above(<<both, k + a - both>>, JaccardBar)
  <2> HIDE DEF a, b, k, both, all
  <2>1. ~(all < 0) /\ all \in Int /\ k + a - both \in Int /\ k + a - both <= all /\ both <= both
    BY <1>1, <1>4
  <2> QED BY <1>1, <1>6, <2>1, AboveGrows
<1> QED BY <1>3, <1>5, <1>7

-----------------------------------------------------------------------------
\* What is stored has an id below the next; each list names facts that are there; and
\* while the index is today's, it has every word of a fact that no reindex cut short,
\* and a document of exactly those words.
HoldsUp(m, n, cut) ==
  /\ m = [facts |-> m.facts, docs |-> m.docs, vocabulary |-> m.vocabulary,
          lists |-> m.lists, current |-> m.current]
  /\ m.current \in BOOLEAN
  /\ DOMAIN m.facts \subseteq 0..n - 1 /\ DOMAIN m.docs = DOMAIN m.facts
  /\ \A id \in DOMAIN m.facts :
       LET f == m.facts[id]
       IN  /\ f = [text |-> f.text, entity |-> f.entity, vector |-> f.vector, state |-> f.state]
           /\ f.text \in SimilarTexts
  /\ NoEntity \notin DOMAIN m.lists
  /\ \A e \in DOMAIN m.lists : m.lists[e] \in Seq(DOMAIN m.facts)
  /\ m.current => \A id \in DOMAIN m.facts \ cut :
       /\ WordsIn(m.facts[id].text) \subseteq m.vocabulary
       /\ DocFits(m.docs[id], WordsIn(m.facts[id].text))
SimilarInv == stored \in Nat /\ HoldsUp(engine, stored, unread)

LEMMA TextsAreFinite == ASSUME NEW s \in SimilarTexts PROVE IsFiniteSet(WordsIn(s))
<1>1. s \in Seq(ToSet(s)) BY SimilarAssumption DEF SimilarTexts
<1> QED BY <1>1, FewWords

\* The candidates of a query are the reader's, where its list without the excluded is.
LEMMA CandidatesAreRecent ==
  ASSUME SimilarInv, NEW e \in DOMAIN engine.lists, NEW m, NEW q,
         Only(m.lists[q.entity], Nat \ {q.exclude}) = engine.lists[e]
  PROVE  HintCandidates(m, q) = RecentOf(e) /\ RecentOf(e) \subseteq DOMAIN engine.facts
<1> DEFINE list == engine.lists[e]
           slot == [k \in 0..CandidateCap - 1 |-> {i \in DOMAIN list : (i - 1) % CandidateCap = k}]
<1>1. list \in Seq(DOMAIN engine.facts) BY DEF SimilarInv, HoldsUp
<1>2. HintCandidates(m, q) = {list[Max(slot[k])] : k \in {j \in DOMAIN slot : slot[j] # {}}}
  BY DEF HintCandidates
<1>3. RecentOf(e) = {list[i] : i \in {j \in DOMAIN list : j > Len(list) - CandidateCap}}
  BY DEF RecentOf
<1>4. HintCandidates(m, q) = RecentOf(e)
  <2>1. Ring(list) = Recent(list) BY <1>1, RingHoldsTheRecent
  <2> QED BY <1>2, <1>3, <2>1 DEF Ring, Recent
<1>5. RecentOf(e) \subseteq DOMAIN engine.facts BY <1>1, <1>3
<1> QED BY <1>4, <1>5

\* The reader's hints, one by one.
Live(e) == {id \in RecentOf(e) : engine.facts[id].state = "current"}
LEMMA TruthByParts ==
  ASSUME NEW input
  PROVE  Exhaustive(input) = IF NormOf[input.entity] = NoEntity THEN {}
                             ELSE UNION {TruthOf(input, id) : id \in Live(NormOf[input.entity])}
BY DEF Exhaustive, Live, TruthOf, Shared

\* A query reads the engine as it is, or as it is with the newcomer stored.
Asks(m, q, input) ==
  /\ \A c \in DOMAIN engine.facts : /\ c \in DOMAIN m.facts /\ m.facts[c] = engine.facts[c]
                                    /\ m.docs[c] = engine.docs[c]
  /\ m.current = engine.current /\ engine.vocabulary \subseteq m.vocabulary
  /\ q.terms = WordsIn(input.text) \cap m.vocabulary
  /\ q.count = Cardinality(WordsIn(input.text)) /\ q.vector = input.vector

LEMMA FoundIsTrue ==
  ASSUME SimilarInv, engine.current, NEW input \in TextInputs, NEW m, NEW q, Asks(m, q, input),
         NormOf[input.entity] # NoEntity, HintCandidates(m, q) = RecentOf(NormOf[input.entity]),
         RecentOf(NormOf[input.entity]) \subseteq DOMAIN engine.facts
  PROVE  {h \in HintsFound(m, q) : h.id \notin unread}
           = {h \in Exhaustive(input) : h.id \notin unread}
<1> DEFINE e == NormOf[input.entity]
           A == WordsIn(input.text)
<1>1. IsFiniteSet(A) BY TextsAreFinite DEF SimilarTexts
<1>2. ASSUME NEW id \in DOMAIN engine.facts \ unread
      PROVE  /\ HintsOf(m, q, id) = TruthOf(input, id)
             /\ (q.vector = NoEmbedding /\ ~May(m, q, id)) => TruthOf(input, id) = {}
             /\ (q.vector = NoEmbedding /\ q.count = 0) => TruthOf(input, id) = {}
  <2> DEFINE f == engine.facts[id]
             B == WordsIn(f.text)
             j == Jaccard(m, q, id)
             k == Shared(A, B)
  <2>1. /\ B \subseteq engine.vocabulary /\ DocFits(engine.docs[id], B) /\ f.text \in SimilarTexts
    BY <1>2 DEF SimilarInv, HoldsUp
  <2>2. IsFiniteSet(B) BY <2>1, TextsAreFinite
  <2>3. m.facts[id] = f /\ m.docs[id] = engine.docs[id] BY <1>2 DEF Asks
  <2>4. /\ B = WordsIn(m.facts[id].text) /\ B \subseteq m.vocabulary /\ m.current
        /\ q.terms \subseteq A /\ q.terms \cap B = A \cap B /\ q.count = Cardinality(A)
        /\ DocFits(m.docs[id], B)
    BY <2>1, <2>3 DEF Asks
  <2>5. /\ j = k \/ (~Above(j, JaccardBar) /\ ~Above(k, JaccardBar))
        /\ ~May(m, q, id) \/ q.count = 0 => ~Above(j, JaccardBar) /\ ~Above(k, JaccardBar)
    <3> HIDE DEF A, f
    <3> QED BY <1>1, <2>2, <2>4, ComparisonIsTrue
  <2>6. HintsOf(m, q, id) = Signals(id, j, Cosine(q.vector, f.vector)) BY <2>3 DEF HintsOf
  <2>7. TruthOf(input, id) = Signals(id, k, Cosine(q.vector, f.vector)) BY DEF TruthOf, Asks
  <2> HIDE DEF j, k, f
  <2> QED BY <2>5, <2>6, <2>7, SignalsBelow
<1>3. \A id : \A h \in TruthOf(input, id) : h.id = id BY SignalsNameIt DEF TruthOf
<1>4. \A id : \A h \in HintsOf(m, q, id) : h.id = id BY SignalsNameIt DEF HintsOf
<1>5. Exhaustive(input) = UNION {TruthOf(input, id) : id \in Live(e)} BY TruthByParts
<1>6. \A id : id \in Searched(m, q) <=>
               id \in Live(e) /\ (q.vector = NoEmbedding => May(m, q, id))
  BY DEF Searched, Live, Asks
<1>7. Live(e) \subseteq DOMAIN engine.facts BY DEF Live
<1>8. CASE q.count = 0 /\ q.vector = NoEmbedding
  <2>1. HintsFound(m, q) = {} BY <1>8, HintsByParts
  <2>2. \A h \in Exhaustive(input) : h.id \in unread BY <1>2, <1>3, <1>5, <1>7, <1>8
  <2> QED BY <2>1, <2>2
<1>9. CASE ~(q.count = 0 /\ q.vector = NoEmbedding)
  <2>1. HintsFound(m, q) = UNION {HintsOf(m, q, id) : id \in Searched(m, q)}
    BY <1>9, HintsByParts
  <2>2. ASSUME NEW h, h.id \notin unread, h \in HintsFound(m, q) PROVE h \in Exhaustive(input)
    <3>1. PICK id \in Searched(m, q) : h \in HintsOf(m, q, id) BY <2>1, <2>2
    <3>2. id \in DOMAIN engine.facts \ unread /\ id \in Live(e)
      BY <1>4, <1>6, <1>7, <2>2, <3>1
    <3> QED BY <1>2, <1>5, <3>1, <3>2
  <2>3. ASSUME NEW h, h.id \notin unread, h \in Exhaustive(input) PROVE h \in HintsFound(m, q)
    <3>1. PICK id \in Live(e) : h \in TruthOf(input, id) BY <1>5, <2>3
    <3>2. id \in DOMAIN engine.facts \ unread BY <1>3, <1>7, <2>3, <3>1
    <3>3. id \in Searched(m, q) /\ h \in HintsOf(m, q, id) BY <1>2, <1>6, <3>1, <3>2
    <3> QED BY <2>1, <3>3
  <2> QED BY <2>2, <2>3
<1> QED BY <1>8, <1>9

LEMMA NothingSimilarIsMissed ==
  ASSUME SimilarInv, ~engine.current, NEW input \in TextInputs, NEW m, NEW q, Asks(m, q, input),
         WordsIn(input.text) \subseteq m.vocabulary,
         NormOf[input.entity] # NoEntity, HintCandidates(m, q) = RecentOf(NormOf[input.entity]),
         RecentOf(NormOf[input.entity]) \subseteq DOMAIN engine.facts,
         NEW t \in Exhaustive(input)
  PROVE  \E h \in HintsFound(m, q) : h.id = t.id
<1> DEFINE e == NormOf[input.entity]
           A == WordsIn(input.text)
<1>1. PICK id \in Live(e) : t \in TruthOf(input, id) BY TruthByParts
<1>2. /\ id \in DOMAIN engine.facts /\ id \in HintCandidates(m, q)
      /\ engine.facts[id].state = "current"
  BY DEF Live
<1> DEFINE f == engine.facts[id]
           B == WordsIn(f.text)
           j == Jaccard(m, q, id)
           k == Shared(A, B)
           c == Cosine(q.vector, f.vector)
<1>3. IsFiniteSet(A) /\ IsFiniteSet(B)
  BY <1>2, TextsAreFinite DEF SimilarTexts, SimilarInv, HoldsUp
<1>4. m.facts[id] = f /\ id \in DOMAIN m.facts BY <1>2 DEF Asks
<1>5. /\ B = WordsIn(m.facts[id].text) /\ A \subseteq m.vocabulary /\ ~m.current
      /\ q.terms = A /\ q.count = Cardinality(A)
  BY <1>4 DEF Asks
<1>6. Above(k, JaccardBar) => May(m, q, id) /\ q.count # 0 /\ Above(j, JaccardBar)
  <2> HIDE DEF A, f
  <2> QED BY <1>3, <1>5, ComparisonMissesNothing
<1>7. HintsOf(m, q, id) = Signals(id, j, c) BY <1>4 DEF HintsOf
<1>8. TruthOf(input, id) = Signals(id, k, c) BY DEF TruthOf, Asks
<1>9. t.id = id /\ (Above(k, JaccardBar) \/ Above(c, CosineBar))
  <2> HIDE DEF k, c
  <2> QED BY <1>1, <1>8, SignalsNameIt
<1>10. q.vector = NoEmbedding => Above(k, JaccardBar)
  <2>1. SUFFICES ASSUME q.vector = NoEmbedding, ~Above(k, JaccardBar) PROVE FALSE OBVIOUS
  <2>2. Signals(id, k, Cosine(q.vector, f.vector)) = {}
    <3> HIDE DEF k, f
    <3> QED BY <2>1, SignalsBelow
  <2> QED BY <1>1, <1>8, <2>2
<1>11. id \in Searched(m, q) /\ ~(q.count = 0 /\ q.vector = NoEmbedding)
  BY <1>2, <1>4, <1>6, <1>10 DEF Searched
<1>12. \E h \in HintsOf(m, q, id) : h.id = id
  <2> HIDE DEF k, c, j
  <2>1. HintsOf(m, q, id) # {} BY <1>6, <1>7, <1>9, SignalsNameIt
  <2> QED BY <1>7, <2>1, SignalsNameIt
<1>13. HintsFound(m, q) = UNION {HintsOf(m, q, x) : x \in Searched(m, q)}
  BY <1>11, HintsByParts
<1> QED BY <1>9, <1>11, <1>12, <1>13

-----------------------------------------------------------------------------
\* The engine with the newcomer: what each field becomes.
LEMMA StoredFields ==
  ASSUME SimilarInv, NEW input
  PROVE  LET m == Stored(engine, input)
             e == NormOf[input.entity]
             list == IF e \in DOMAIN engine.lists THEN engine.lists[e] ELSE <<>>
             fact == [text |-> input.text, entity |-> e, vector |-> input.vector, state |-> "current"]
         IN  /\ m = [facts |-> m.facts, docs |-> m.docs, vocabulary |-> m.vocabulary,
                     lists |-> m.lists, current |-> m.current]
             /\ m.current = engine.current
             /\ m.vocabulary = engine.vocabulary \cup WordsIn(input.text)
             /\ m.facts = Entered(engine.facts, stored, fact)
             /\ m.docs = Entered(engine.docs, stored, Summary(input.text))
             /\ m.lists = IF e = NoEntity THEN engine.lists
                          ELSE Entered(engine.lists, e, Append(list, stored))
<1> DEFINE e == NormOf[input.entity]
           list == IF e \in DOMAIN engine.lists THEN engine.lists[e] ELSE <<>>
           fact == [text |-> input.text, entity |-> e, vector |-> input.vector, state |-> "current"]
           facts == Entered(engine.facts, stored, fact)
           docs == Entered(engine.docs, stored, Summary(input.text))
           lists == IF e = NoEntity THEN engine.lists
                    ELSE Entered(engine.lists, e, Append(list, stored))
           voc == engine.vocabulary \cup WordsIn(input.text)
<1>1. engine = [facts |-> engine.facts, docs |-> engine.docs, vocabulary |-> engine.vocabulary,
                lists |-> engine.lists, current |-> engine.current]
  BY DEF SimilarInv, HoldsUp
<1>2. Stored(engine, input) = [engine EXCEPT !.facts = facts, !.docs = docs,
                                             !.vocabulary = voc, !.lists = lists]
  BY DEF Stored, NewId
<1> HIDE DEF facts, docs, lists, voc
<1>3. Stored(engine, input) = [facts |-> facts, docs |-> docs, vocabulary |-> voc,
                               lists |-> lists, current |-> engine.current]
  BY <1>1, <1>2
<1> QED BY <1>3 DEF facts, docs, lists, voc

\* An entry that is put in.
LEMMA EnteredIs ==
  ASSUME NEW f, NEW k, NEW v
  PROVE  /\ DOMAIN Entered(f, k, v) = DOMAIN f \cup {k} /\ Entered(f, k, v)[k] = v
         /\ \A x \in DOMAIN f : x # k => Entered(f, k, v)[x] = f[x]
BY DEF Entered

\* Storing keeps it, whatever the newcomer; so does a change of a fact's state.
LEMMA StoringHoldsUp ==
  ASSUME SimilarInv, NEW input \in TextInputs
  PROVE  HoldsUp(Stored(engine, input), stored + 1, unread)
<1> DEFINE m == Stored(engine, input)
           e == NormOf[input.entity]
           list == IF e \in DOMAIN engine.lists THEN engine.lists[e] ELSE <<>>
           fact == [text |-> input.text, entity |-> e, vector |-> input.vector, state |-> "current"]
<1>1. /\ m = [facts |-> m.facts, docs |-> m.docs, vocabulary |-> m.vocabulary,
              lists |-> m.lists, current |-> m.current]
      /\ m.current = engine.current /\ m.vocabulary = engine.vocabulary \cup WordsIn(input.text)
      /\ m.facts = Entered(engine.facts, stored, fact)
      /\ m.docs = Entered(engine.docs, stored, Summary(input.text))
      /\ m.lists = IF e = NoEntity THEN engine.lists
                   ELSE Entered(engine.lists, e, Append(list, stored))
  BY StoredFields
<1> DEFINE D == DOMAIN engine.facts
<1>2. /\ stored \in Nat /\ engine.current \in BOOLEAN /\ D \subseteq 0..stored - 1
      /\ DOMAIN engine.docs = D /\ NoEntity \notin DOMAIN engine.lists
      /\ \A x \in DOMAIN engine.lists : engine.lists[x] \in Seq(D)
  BY DEF SimilarInv, HoldsUp
<1>3. /\ \A id \in D : LET f == engine.facts[id]
           IN  /\ f = [text |-> f.text, entity |-> f.entity, vector |-> f.vector, state |-> f.state]
               /\ f.text \in SimilarTexts
      /\ engine.current => \A id \in D \ unread :
           /\ WordsIn(engine.facts[id].text) \subseteq engine.vocabulary
           /\ DocFits(engine.docs[id], WordsIn(engine.facts[id].text))
  BY DEF SimilarInv, HoldsUp
<1>4. stored \notin D BY <1>2
<1>5. DocFits(Summary(input.text), WordsIn(input.text)) BY DEF DocFits, Summary, SummaryOf
<1>6. input.text \in SimilarTexts BY DEF SimilarTexts
<1>7. /\ fact = [text |-> fact.text, entity |-> fact.entity, vector |-> fact.vector,
                 state |-> fact.state]
      /\ fact.text = input.text
  OBVIOUS
<1> HIDE DEF m, fact, list
<1>8. /\ DOMAIN m.facts = D \cup {stored} /\ m.facts[stored] = fact
      /\ \A id \in D : m.facts[id] = engine.facts[id]
  BY <1>1, <1>4 DEF Entered
<1>9. /\ DOMAIN m.docs = D \cup {stored} /\ m.docs[stored] = Summary(input.text)
      /\ \A id \in D : m.docs[id] = engine.docs[id]
  BY <1>1, <1>2, <1>4 DEF Entered
<1>10. DOMAIN m.facts \subseteq 0..(stored + 1) - 1 BY <1>2, <1>8
<1>11. \A id \in DOMAIN m.facts : LET f == m.facts[id]
           IN  /\ f = [text |-> f.text, entity |-> f.entity, vector |-> f.vector, state |-> f.state]
               /\ f.text \in SimilarTexts
  <2> SUFFICES ASSUME NEW id \in DOMAIN m.facts
               PROVE  LET f == m.facts[id]
                      IN  /\ f = [text |-> f.text, entity |-> f.entity, vector |-> f.vector,
                                  state |-> f.state]
                          /\ f.text \in SimilarTexts
    OBVIOUS
  <2>1. CASE id = stored BY <1>6, <1>7, <1>8, <2>1
  <2>2. CASE id \in D BY <1>3, <1>8, <2>2
  <2> QED BY <1>8, <2>1, <2>2
<1>12. ASSUME NEW x \in DOMAIN m.lists PROVE m.lists[x] \in Seq(DOMAIN m.facts)
  <2>1. \A l \in Seq(D) : l \in Seq(D \cup {stored}) OBVIOUS
  <2>2. CASE x \in DOMAIN engine.lists /\ m.lists[x] = engine.lists[x] BY <1>2, <1>8, <2>1, <2>2
  <2>3. CASE m.lists[x] = Append(list, stored)
    <3>1. list \in Seq(D)
      <4>1. <<>> \in Seq(D) OBVIOUS
      <4>2. list = <<>> \/ (e \in DOMAIN engine.lists /\ list = engine.lists[e]) BY Zenon DEF list
      <4> HIDE DEF D
      <4> QED BY <1>2, <4>1, <4>2
    <3>2. list \in Seq(D \cup {stored}) BY <2>1, <3>1
    <3>3. Append(list, stored) \in Seq(D \cup {stored}) BY <3>2
    <3> QED BY <1>8, <2>3, <3>3
  <2>4. CASE e = NoEntity BY <1>1, <2>2, <2>4
  <2>5. CASE e # NoEntity
    <3>1. m.lists = Entered(engine.lists, e, Append(list, stored)) BY <1>1, <2>5
    <3>2. CASE x = e BY <2>3, <3>1, <3>2 DEF Entered
    <3>3. CASE x # e BY <2>2, <3>1, <3>3 DEF Entered
    <3> QED BY <3>2, <3>3
  <2> QED BY <2>4, <2>5
<1>13. NoEntity \notin DOMAIN m.lists BY <1>1, <1>2 DEF Entered
<1>14. ASSUME m.current, NEW id \in DOMAIN m.facts \ unread
       PROVE  /\ WordsIn(m.facts[id].text) \subseteq m.vocabulary
              /\ DocFits(m.docs[id], WordsIn(m.facts[id].text))
  <2>1. CASE id = stored BY <1>1, <1>5, <1>7, <1>8, <1>9, <2>1
  <2>2. CASE id \in D BY <1>1, <1>3, <1>8, <1>9, <1>14, <2>2
  <2> QED BY <1>8, <2>1, <2>2
<1>15. m.current \in BOOLEAN /\ DOMAIN m.docs = DOMAIN m.facts BY <1>1, <1>2, <1>8, <1>9
<1>16. HoldsUp(m, stored + 1, unread)
  <2>1. m = [facts |-> m.facts, docs |-> m.docs, vocabulary |-> m.vocabulary,
             lists |-> m.lists, current |-> m.current]
    BY <1>1
  <2> QED BY <1>10, <1>11, <1>12, <1>13, <1>14, <1>15, <2>1, Zenon DEF HoldsUp
<1> QED BY <1>16 DEF m

LEMMA StateHoldsUp ==
  ASSUME NEW m, NEW n, NEW cut, HoldsUp(m, n, cut), NEW id \in DOMAIN m.facts, NEW st
  PROVE  HoldsUp([m EXCEPT !.facts[id].state = st], n, cut)
<1> DEFINE x == [m EXCEPT !.facts[id].state = st]
           facts == [m.facts EXCEPT ![id].state = st]
<1>1. /\ m = [facts |-> m.facts, docs |-> m.docs, vocabulary |-> m.vocabulary,
              lists |-> m.lists, current |-> m.current]
      /\ \A i \in DOMAIN m.facts :
           LET f == m.facts[i]
           IN  /\ f = [text |-> f.text, entity |-> f.entity, vector |-> f.vector, state |-> f.state]
               /\ f.text \in SimilarTexts
  BY DEF HoldsUp
<1>2. DOMAIN facts = DOMAIN m.facts OBVIOUS
<1>3. ASSUME NEW i \in DOMAIN m.facts
      PROVE  /\ facts[i].text = m.facts[i].text /\ facts[i].text \in SimilarTexts
             /\ facts[i] = [text |-> facts[i].text, entity |-> facts[i].entity,
                            vector |-> facts[i].vector, state |-> facts[i].state]
  <2> DEFINE f == m.facts[i]
  <2>1. f = [text |-> f.text, entity |-> f.entity, vector |-> f.vector, state |-> f.state]
        /\ f.text \in SimilarTexts
    BY <1>1
  <2>2. facts[i] = IF i = id THEN [f EXCEPT !.state = st] ELSE f OBVIOUS
  <2> HIDE DEF f, facts
  <2>3. facts[i] = f \/ facts[i] = [text |-> f.text, entity |-> f.entity, vector |-> f.vector,
                                    state |-> st]
    BY <2>1, <2>2
  <2>4. facts[i].text = f.text /\ facts[i] = [text |-> facts[i].text, entity |-> facts[i].entity,
                            vector |-> facts[i].vector, state |-> facts[i].state]
    BY <2>1, <2>3
  <2> QED BY <2>1, <2>4 DEF f
<1>4. x = [facts |-> facts, docs |-> m.docs, vocabulary |-> m.vocabulary,
           lists |-> m.lists, current |-> m.current]
  <2>1. x = [m EXCEPT !.facts = facts] BY <1>1
  <2> HIDE DEF facts, x
  <2> QED BY <1>1, <2>1
<1> HIDE DEF facts, x
<1>5. /\ x.facts = facts /\ x.docs = m.docs /\ x.vocabulary = m.vocabulary
      /\ x.lists = m.lists /\ x.current = m.current
      /\ x = [facts |-> x.facts, docs |-> x.docs, vocabulary |-> x.vocabulary,
              lists |-> x.lists, current |-> x.current]
  BY <1>4
<1>6. HoldsUp(x, n, cut) BY <1>2, <1>3, <1>5 DEF HoldsUp
<1> QED BY <1>6 DEF x

\* A pass of maintenance keeps it, and what it leaves out words of is cut short.
LEMMA CompactHoldsUp == ASSUME SimilarInv, CompactTexts PROVE SimilarInv'
<1> DEFINE kept == {id \in DOMAIN engine.facts : engine.facts[id].state # "forgotten"}
           D == DOMAIN engine.facts
           x == engine'
           facts == Restrict(engine.facts, kept)
           docs == [id \in kept |-> IF engine.current THEN SummaryOf(engine.docs[id].terms)
                                    ELSE SummaryOf(Looked(engine, id))]
           lists == [e \in DOMAIN engine.lists |-> Only(engine.lists[e], kept)]
           cut == {id \in kept : ~engine.current
                     /\ ~(WordsIn(engine.facts[id].text) \subseteq engine.vocabulary)}
<1>1. /\ stored \in Nat /\ engine.current \in BOOLEAN /\ D \subseteq 0..stored - 1
      /\ DOMAIN engine.docs = D /\ NoEntity \notin DOMAIN engine.lists
      /\ \A e \in DOMAIN engine.lists : engine.lists[e] \in Seq(D)
      /\ engine = [facts |-> engine.facts, docs |-> engine.docs, vocabulary |-> engine.vocabulary,
                   lists |-> engine.lists, current |-> engine.current]
  BY DEF SimilarInv, HoldsUp
<1>2. /\ \A id \in D : LET f == engine.facts[id]
           IN  /\ f = [text |-> f.text, entity |-> f.entity, vector |-> f.vector, state |-> f.state]
               /\ f.text \in SimilarTexts
      /\ engine.current => \A id \in D \ unread :
           /\ WordsIn(engine.facts[id].text) \subseteq engine.vocabulary
           /\ DocFits(engine.docs[id], WordsIn(engine.facts[id].text))
  BY DEF SimilarInv, HoldsUp
<1>3. /\ x = [engine EXCEPT !.facts = facts, !.docs = docs, !.lists = lists, !.current = TRUE]
      /\ unread' = unread \cup cut /\ stored' = stored
  BY Zenon DEF CompactTexts
<1>k. kept \subseteq D OBVIOUS
<1>4. \A id \in kept : facts[id] = engine.facts[id] BY DEF Restrict
<1>5. DOMAIN facts = kept BY DEF Restrict
<1>6. DOMAIN docs = kept /\ DOMAIN lists = DOMAIN engine.lists OBVIOUS
<1>7. \A e \in DOMAIN lists : lists[e] \in Seq(kept) BY <1>1, OnlyKeeps
<1>8. \A id \in kept : docs[id] = IF engine.current THEN SummaryOf(engine.docs[id].terms)
                                   ELSE SummaryOf(Looked(engine, id))
  OBVIOUS
<1>9. \A B : DocFits(SummaryOf(B), B) BY DEF DocFits, SummaryOf
<1>10. ASSUME NEW id \in kept \ (unread \cup cut)
       PROVE  /\ WordsIn(engine.facts[id].text) \subseteq engine.vocabulary
              /\ DocFits(docs[id], WordsIn(engine.facts[id].text))
  <2> DEFINE B == WordsIn(engine.facts[id].text)
  <2>1. CASE engine.current
    <3>1. B \subseteq engine.vocabulary /\ engine.docs[id].terms = B
      BY <1>2, <1>k, <1>10, <2>1 DEF DocFits
    <3> HIDE DEF docs
    <3>2. docs[id] = SummaryOf(B) BY <1>8, <1>10, <2>1, <3>1
    <3> QED BY <1>9, <3>1, <3>2
  <2>2. CASE ~engine.current
    <3>1. B \subseteq engine.vocabulary BY <1>10, <2>2
    <3>2. Looked(engine, id) = B BY <3>1 DEF Looked
    <3> HIDE DEF docs
    <3>3. docs[id] = SummaryOf(B) BY <1>8, <1>10, <2>2, <3>2
    <3> QED BY <1>9, <3>1, <3>3
  <2> QED BY <1>1, <2>1, <2>2
<1> HIDE DEF facts, docs, lists, cut, kept, x
<1>11. x = [facts |-> facts, docs |-> docs, vocabulary |-> engine.vocabulary,
            lists |-> lists, current |-> TRUE]
  BY <1>1, <1>3
<1>12. /\ x.facts = facts /\ x.docs = docs /\ x.vocabulary = engine.vocabulary
       /\ x.lists = lists /\ x.current = TRUE
       /\ x = [facts |-> x.facts, docs |-> x.docs, vocabulary |-> x.vocabulary,
               lists |-> x.lists, current |-> x.current]
  BY <1>11
<1>13. HoldsUp(x, stored, unread \cup cut)
  <2>1. DOMAIN x.facts \subseteq 0..stored - 1 /\ DOMAIN x.docs = DOMAIN x.facts
    BY <1>1, <1>k, <1>5, <1>6, <1>12
  <2>2. NoEntity \notin DOMAIN x.lists /\ x.current \in BOOLEAN BY <1>1, <1>6, <1>12
  <2>3. \A e \in DOMAIN x.lists : x.lists[e] \in Seq(DOMAIN x.facts) BY <1>5, <1>7, <1>12
  <2>4. \A id \in DOMAIN x.facts : LET f == x.facts[id]
           IN  /\ f = [text |-> f.text, entity |-> f.entity, vector |-> f.vector, state |-> f.state]
               /\ f.text \in SimilarTexts
    <3> SUFFICES ASSUME NEW id \in DOMAIN x.facts
                 PROVE  LET f == x.facts[id]
                        IN  /\ f = [text |-> f.text, entity |-> f.entity, vector |-> f.vector,
                                    state |-> f.state]
                            /\ f.text \in SimilarTexts
      OBVIOUS
    <3>1. id \in D /\ x.facts[id] = engine.facts[id] BY <1>k, <1>4, <1>5, <1>12
    <3> QED BY <1>2, <3>1
  <2>5. \A id \in DOMAIN x.facts \ (unread \cup cut) :
          /\ WordsIn(x.facts[id].text) \subseteq x.vocabulary
          /\ DocFits(x.docs[id], WordsIn(x.facts[id].text))
    <3> SUFFICES ASSUME NEW id \in DOMAIN x.facts \ (unread \cup cut)
                 PROVE  /\ WordsIn(x.facts[id].text) \subseteq x.vocabulary
                        /\ DocFits(x.docs[id], WordsIn(x.facts[id].text))
      OBVIOUS
    <3>1. id \in kept \ (unread \cup cut) /\ x.facts[id] = engine.facts[id]
      BY <1>4, <1>5, <1>12
    <3> QED BY <1>10, <1>12, <3>1
  <2> QED BY <1>12, <2>1, <2>2, <2>3, <2>4, <2>5, Zenon DEF HoldsUp
<1> QED BY <1>1, <1>3, <1>13 DEF SimilarInv, x

\* The first engines: empty, or of two texts an older build wrote.
LEMMA OldImageHoldsUp ==
  ASSUME NEW a \in SimilarTexts, NEW b \in SimilarTexts, NEW entity, entity # NoEntity,
         NEW summarized, NEW current \in BOOLEAN
  PROVE  HoldsUp(OldImage(<<a, b>>, entity, summarized, current), 2, {})
<1> DEFINE ids == 0..1
           text(id) == <<a, b>>[id + 1]
           words(id) == IF current THEN text(id) ELSE OldWords[text(id)]
           facts == [id \in ids |-> [text |-> text(id), entity |-> entity,
                                     vector |-> NoEmbedding, state |-> "current"]]
           docs == [id \in ids |-> IF summarized THEN Summary(words(id))
                                   ELSE Unsummarized(words(id))]
           voc == UNION {WordsIn(words(id)) : id \in ids}
           list == [i \in 1..2 |-> i - 1]
           lists == Entered(<<>>, entity, list)
           x == [facts |-> facts, docs |-> docs, vocabulary |-> voc,
                 lists |-> lists, current |-> current]
<1>1. OldImage(<<a, b>>, entity, summarized, current) = x
  <2>1. Len(<<a, b>>) = 2 /\ 0..Len(<<a, b>>) - 1 = ids OBVIOUS
  <2> QED BY <2>1 DEF OldImage
<1>2. list \in Seq(ids)
  <2>1. \A i \in 1..2 : i - 1 \in ids OBVIOUS
  <2>2. list \in [1..2 -> ids] BY <2>1
  <2> QED BY <2>2
<1>3. DOMAIN lists = {entity} /\ lists[entity] = list BY DEF Entered
<1>4. \A id \in ids : text(id) \in SimilarTexts
  <2>1. text(0) = a /\ text(1) = b OBVIOUS
  <2>2. \A id \in ids : id = 0 \/ id = 1 OBVIOUS
  <2> QED BY <2>1, <2>2
<1>5. \A id \in ids : WordsIn(words(id)) \subseteq voc OBVIOUS
<1>6. \A id \in ids : DocFits(docs[id], WordsIn(words(id)))
  <2>1. \A w : DocFits(Summary(w), WordsIn(w)) BY DEF DocFits, Summary, SummaryOf
  <2>2. \A w : DocFits(Unsummarized(w), WordsIn(w))
    BY DEF DocFits, Unsummarized, Summary, SummaryOf
  <2> HIDE DEF words
  <2>3. \A id \in ids : docs[id] = Summary(words(id)) \/ docs[id] = Unsummarized(words(id))
    OBVIOUS
  <2> HIDE DEF docs
  <2> QED BY <2>1, <2>2, <2>3
<1>7. DOMAIN facts = ids /\ DOMAIN docs = ids OBVIOUS
<1>8. \A id \in ids : facts[id].text = text(id) OBVIOUS
<1>9. \A id \in ids : facts[id] = [text |-> facts[id].text, entity |-> facts[id].entity,
                                    vector |-> facts[id].vector, state |-> facts[id].state]
  OBVIOUS
<1>10. current => \A id \in ids : words(id) = facts[id].text BY <1>8
<1> HIDE DEF facts, docs, list, lists, voc, words, text
<1>11. /\ x.facts = facts /\ x.docs = docs /\ x.vocabulary = voc /\ x.lists = lists
       /\ x.current = current
       /\ x = [facts |-> x.facts, docs |-> x.docs, vocabulary |-> x.vocabulary,
               lists |-> x.lists, current |-> x.current]
  OBVIOUS
<1> HIDE DEF x
<1>12. DOMAIN x.facts \subseteq 0..2 - 1 /\ DOMAIN x.docs = DOMAIN x.facts BY <1>7, <1>11
<1>13. \A id \in DOMAIN x.facts : LET f == x.facts[id]
           IN  /\ f = [text |-> f.text, entity |-> f.entity, vector |-> f.vector, state |-> f.state]
               /\ f.text \in SimilarTexts
  BY <1>4, <1>7, <1>8, <1>9, <1>11
<1>14. NoEntity \notin DOMAIN x.lists /\ \A e \in DOMAIN x.lists : x.lists[e] \in Seq(DOMAIN x.facts)
  BY <1>2, <1>3, <1>7, <1>11
<1>15. x.current => \A id \in DOMAIN x.facts \ {} :
         /\ WordsIn(x.facts[id].text) \subseteq x.vocabulary
         /\ DocFits(x.docs[id], WordsIn(x.facts[id].text))
  BY <1>5, <1>6, <1>7, <1>10, <1>11
<1>16. x.current \in BOOLEAN BY <1>11
<1> QED BY <1>1, <1>11, <1>12, <1>13, <1>14, <1>15, <1>16, Zenon DEF HoldsUp

LEMMA SimilarInductive ==
  /\ SimilarInit => SimilarInv
  /\ SimilarInv /\ [SimilarNext]_similarVars => SimilarInv'
<1>1. ASSUME SimilarInit PROVE SimilarInv
  <2>1. CASE engine = NewEngine /\ stored = 0
    <3>1. unread = {} BY <1>1 DEF SimilarInit
    <3>2. /\ NewEngine.facts = <<>> /\ NewEngine.docs = <<>> /\ NewEngine.vocabulary = {}
          /\ NewEngine.lists = <<>> /\ NewEngine.current = TRUE
          /\ NewEngine = [facts |-> NewEngine.facts, docs |-> NewEngine.docs,
                          vocabulary |-> NewEngine.vocabulary, lists |-> NewEngine.lists,
                          current |-> NewEngine.current]
      BY DEF NewEngine
    <3>3. DOMAIN <<>> = {} OBVIOUS
    <3> QED BY <2>1, <3>1, <3>2, <3>3 DEF SimilarInv, HoldsUp
  <2>2. ASSUME NEW a \in SimilarTexts, NEW b \in SimilarTexts, NEW summarized \in BOOLEAN,
               NEW current \in BOOLEAN, NEW entity \in Range(NormOf) \ {NoEntity, Unnamed},
               engine = OldImage(<<a, b>>, entity, summarized, current), stored = 2
        PROVE  SimilarInv
    <3>1. HoldsUp(engine, 2, {}) BY <2>2, OldImageHoldsUp
    <3> QED BY <1>1, <2>2, <3>1 DEF SimilarInv, SimilarInit
  <2> QED BY <1>1, <2>1, <2>2 DEF SimilarInit
<1>2. ASSUME SimilarInv, [SimilarNext]_similarVars PROVE SimilarInv'
  <2>1. ASSUME stored' = stored + 1, HoldsUp(engine', stored + 1, unread), UNCHANGED unread
        PROVE  SimilarInv'
    BY <1>2, <2>1 DEF SimilarInv
  <2>2. CASE RememberText BY <1>2, <2>1, <2>2, StoringHoldsUp DEF RememberText
  <2>3. CASE RememberGuarded BY <1>2, <2>1, <2>3, StoringHoldsUp DEF RememberGuarded
  <2>4. CASE ReviseText
    <3>1. PICK input \in TextInputs, id \in DOMAIN engine.facts :
            engine' = [Stored(engine, input) EXCEPT !.facts[id].state = "closed"]
      BY <2>4 DEF ReviseText
    <3>2. HoldsUp(Stored(engine, input), stored + 1, unread) BY <1>2, StoringHoldsUp
    <3>3. id \in DOMAIN Stored(engine, input).facts BY <1>2, StoredFields DEF Entered
    <3>4. HoldsUp(engine', stored + 1, unread) BY <3>1, <3>2, <3>3, StateHoldsUp
    <3> QED BY <2>1, <2>4, <3>4 DEF ReviseText
  <2>5. CASE ForgetText
    <3>1. PICK id \in DOMAIN engine.facts :
            engine' = [engine EXCEPT !.facts[id].state = "forgotten"]
      BY <2>5 DEF ForgetText
    <3>2. HoldsUp(engine, stored, unread) BY <1>2 DEF SimilarInv
    <3>3. HoldsUp(engine', stored, unread) BY <3>1, <3>2, StateHoldsUp
    <3> QED BY <1>2, <2>5, <3>3 DEF ForgetText, SimilarInv
  <2>6. CASE CompactTexts BY <1>2, <2>6, CompactHoldsUp
  <2>7. CASE UNCHANGED similarVars BY <1>2, <2>7 DEF similarVars, SimilarInv
  <2> QED BY <1>2, <2>2, <2>3, <2>4, <2>5, <2>6, <2>7 DEF SimilarNext
<1> QED BY <1>1, <1>2

\* The query of what is not stored yet asks the engine as it is.
LEMMA InputQueryAsks ==
  ASSUME SimilarInv, NEW input \in TextInputs, NormOf[input.entity] \in DOMAIN engine.lists
  PROVE  LET q == InputQuery(engine, input)
             e == NormOf[input.entity]
         IN  /\ Asks(engine, q, input)
             /\ HintCandidates(engine, q) = RecentOf(e) /\ RecentOf(e) \subseteq DOMAIN engine.facts
<1> DEFINE q == InputQuery(engine, input)
           e == NormOf[input.entity]
<1>1. /\ q.entity = e /\ q.exclude = NoEntity /\ q.terms = WordsIn(input.text) \cap engine.vocabulary
      /\ q.count = Cardinality(WordsIn(input.text)) /\ q.vector = input.vector
  BY DEF InputQuery
<1> HIDE DEF q
<1>2. Asks(engine, q, input) BY <1>1 DEF Asks
<1>3. /\ engine.lists[e] \in Seq(DOMAIN engine.facts) /\ DOMAIN engine.facts \subseteq Nat
  BY DEF SimilarInv, HoldsUp
<1>4. Only(engine.lists[e], Nat \ {NoEntity}) = engine.lists[e]
  <2>1. DOMAIN engine.facts \subseteq Nat \ {NoEntity} BY <1>3, SimilarAssumption
  <2> HIDE DEF e
  <2> QED BY <1>3, <2>1, OnlyKeeps
<1>5. /\ Only(engine.lists[q.entity], Nat \ {q.exclude}) = engine.lists[e]
      /\ e \in DOMAIN engine.lists
  BY <1>1, <1>4
<1>6. HintCandidates(engine, q) = RecentOf(e) /\ RecentOf(e) \subseteq DOMAIN engine.facts
  <2> HIDE DEF e
  <2> QED BY <1>5, CandidatesAreRecent
<1> QED BY <1>2, <1>6 DEF q

\* The query of what was just stored asks the engine with it, and not about itself.
LEMMA StoredQueryAsks ==
  ASSUME SimilarInv, NEW input \in TextInputs, NormOf[input.entity] # NoEntity
  PROVE  LET m == Stored(engine, input)
             q == StoredQuery(m, stored)
             e == NormOf[input.entity]
         IN  /\ Asks(m, q, input) /\ WordsIn(input.text) \subseteq m.vocabulary
             /\ m.facts[stored].entity = e
             /\ HintCandidates(m, q) = RecentOf(e) /\ RecentOf(e) \subseteq DOMAIN engine.facts
<1> DEFINE m == Stored(engine, input)
           q == StoredQuery(m, stored)
           e == NormOf[input.entity]
           list == IF e \in DOMAIN engine.lists THEN engine.lists[e] ELSE <<>>
           fact == [text |-> input.text, entity |-> e, vector |-> input.vector, state |-> "current"]
           D == DOMAIN engine.facts
<1>1. /\ m.current = engine.current /\ m.vocabulary = engine.vocabulary \cup WordsIn(input.text)
      /\ m.facts = Entered(engine.facts, stored, fact)
      /\ m.docs = Entered(engine.docs, stored, Summary(input.text))
      /\ m.lists = Entered(engine.lists, e, Append(list, stored))
  BY StoredFields
<1>2. fact.text = input.text /\ fact.entity = e /\ fact.vector = input.vector OBVIOUS
<1>3. /\ D \subseteq Nat \ {stored} /\ DOMAIN engine.docs = D
      /\ \A x \in DOMAIN engine.lists : engine.lists[x] \in Seq(D)
  BY DEF SimilarInv, HoldsUp
<1>4. list \in Seq(D)
  <2>1. <<>> \in Seq(D) OBVIOUS
  <2>2. list = <<>> \/ (e \in DOMAIN engine.lists /\ list = engine.lists[e]) BY Zenon
  <2> HIDE DEF list, D
  <2> QED BY <1>3, <2>1, <2>2
<1> HIDE DEF m, fact, list
<1>5. /\ m.facts[stored] = fact /\ m.lists[e] = Append(list, stored)
      /\ \A c \in D : c \in DOMAIN m.facts /\ m.facts[c] = engine.facts[c]
                     /\ m.docs[c] = engine.docs[c]
  BY <1>1, <1>3 DEF Entered
<1>6. /\ q.entity = e /\ q.exclude = stored /\ q.terms = WordsIn(input.text)
      /\ q.count = Cardinality(WordsIn(input.text)) /\ q.vector = input.vector
  BY <1>2, <1>5 DEF StoredQuery
<1> HIDE DEF q
<1>7. Asks(m, q, input)
  <2>1. q.terms = WordsIn(input.text) \cap m.vocabulary BY <1>1, <1>6
  <2> QED BY <1>1, <1>5, <1>6, <2>1 DEF Asks
<1>8. Only(m.lists[e], Nat \ {stored}) = list
  <2> HIDE DEF D
  <2> DEFINE S == Nat \ {stored}
  <2>1. D \subseteq S /\ stored \notin S BY <1>3
  <2> HIDE DEF S
  <2>2. \A x : D \subseteq S /\ x \notin S => Only(Append(list, x), S) = list
    BY <1>4, OnlyKeeps, Zenon
  <2>3. Only(Append(list, stored), S) = list BY <2>1, <2>2
  <2> QED BY <1>5, <2>3 DEF S
<1>9. HintCandidates(m, q) = RecentOf(e) /\ RecentOf(e) \subseteq D
  <2>1. HintCandidates(m, q) = Ring(list) BY <1>6, <1>8 DEF HintCandidates, Ring
  <2>2. RecentOf(e) = Recent(list) BY DEF RecentOf, Recent, list
  <2>3. Ring(list) = Recent(list) BY <1>4, RingHoldsTheRecent
  <2>4. Recent(list) \subseteq D BY <1>4 DEF Recent
  <2> QED BY <2>1, <2>2, <2>3, <2>4
<1>10. WordsIn(input.text) \subseteq m.vocabulary /\ m.facts[stored].entity = e
  BY <1>1, <1>2, <1>5
<1> QED BY <1>7, <1>9, <1>10 DEF q, m

\* The check before a fact is stored and the hint after it are one comparison, and it is
\* the one that reads every text of the entity's most recent facts; under an index of
\* another tokenizer the hint still names everything that is similar (scan_similar).
THEOREM DetectorIsExact == SimilarSpec => []SimilarAgrees
<1>1. ASSUME SimilarInv PROVE SimilarAgrees
  <2> SUFFICES ASSUME NEW input \in TextInputs
               PROVE  LET readable(found) == {h \in found : h.id \notin unread}
                          hint == FindSimilar(Stored(engine, input), stored)
                          truth == Exhaustive(input)
                      IN  /\ engine.current => /\ readable(FindSimilarInput(engine, input)) = readable(truth)
                                               /\ readable(hint) = readable(truth)
                          /\ ~engine.current => \A t \in truth : \E h \in hint : h.id = t.id
    BY DEF SimilarAgrees, NewId
  <2> DEFINE e == NormOf[input.entity]
             m == Stored(engine, input)
             q == StoredQuery(m, stored)
             p == InputQuery(engine, input)
             hint == FindSimilar(m, stored)
             truth == Exhaustive(input)
             found == FindSimilarInput(engine, input)
  <2>1. NoEntity \notin DOMAIN engine.lists BY <1>1 DEF SimilarInv, HoldsUp
  <2>2. CASE e = NoEntity
    <3>1. truth = {} BY <2>2, TruthByParts
    <3>2. found = {} BY <2>1, <2>2 DEF FindSimilarInput
    <3>3. m.facts[stored].entity = e
      <4> DEFINE fact == [text |-> input.text, entity |-> e, vector |-> input.vector,
                          state |-> "current"]
      <4>1. m.facts = Entered(engine.facts, stored, fact) BY <1>1, StoredFields
      <4>2. fact.entity = e OBVIOUS
      <4> HIDE DEF fact, m
      <4> QED BY <4>1, <4>2 DEF Entered
    <3>4. hint = {} BY <2>2, <3>3 DEF FindSimilar
    <3> QED BY <3>1, <3>2, <3>4
  <2>3. CASE e # NoEntity
    <3>1. /\ Asks(m, q, input) /\ WordsIn(input.text) \subseteq m.vocabulary
          /\ m.facts[stored].entity = e
          /\ HintCandidates(m, q) = RecentOf(e) /\ RecentOf(e) \subseteq DOMAIN engine.facts
      BY <1>1, <2>3, StoredQueryAsks
    <3>2. hint = HintsFound(m, q) BY <2>3, <3>1 DEF FindSimilar
    <3> HIDE DEF m, q
    <3>3. ASSUME ~engine.current, NEW t \in truth PROVE \E h \in hint : h.id = t.id
      BY <1>1, <2>3, <3>1, <3>2, <3>3, NothingSimilarIsMissed
    <3>4. ASSUME engine.current
          PROVE  {h \in hint : h.id \notin unread} = {h \in truth : h.id \notin unread}
      BY <1>1, <2>3, <3>1, <3>2, <3>4, FoundIsTrue
    <3>5. CASE e \in DOMAIN engine.lists
      <4>1. /\ Asks(engine, p, input)
            /\ HintCandidates(engine, p) = RecentOf(e) /\ RecentOf(e) \subseteq DOMAIN engine.facts
        BY <1>1, <3>5, InputQueryAsks
      <4>2. found = HintsFound(engine, p) BY <3>5 DEF FindSimilarInput
      <4> HIDE DEF p
      <4>3. ASSUME engine.current
            PROVE  {h \in found : h.id \notin unread} = {h \in truth : h.id \notin unread}
        BY <1>1, <2>3, <4>1, <4>2, <4>3, FoundIsTrue
      <4> QED BY <3>3, <3>4, <4>3 DEF m
    <3>6. CASE e \notin DOMAIN engine.lists
      <4>1. found = {} BY <3>6 DEF FindSimilarInput
      <4>2. RecentOf(e) = {} BY <3>6 DEF RecentOf
      <4>3. truth = {} BY <2>3, <4>2, TruthByParts DEF Live
      <4> QED BY <3>3, <3>4, <4>1, <4>3 DEF m
    <3> QED BY <3>5, <3>6
  <2> QED BY <2>2, <2>3
<1> QED BY <1>1, SimilarInductive, PTL DEF SimilarSpec
=============================================================================
