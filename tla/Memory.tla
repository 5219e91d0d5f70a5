------------------------------- MODULE Memory -------------------------------
(***************************************************************************)
(* One engine (Memory of plugmem-core, memory.rs) under any sequence of    *)
(* its mutating verbs, one action per verb, each journaling what it does.  *)
(* The journal itself is not kept: `replayed` is what loading it on top of *)
(* an empty image yields, record by record.                                *)
(***************************************************************************)
EXTENDS Engine

CONSTANTS
  Links,     \* the link lists a remember may carry
  Brought,   \* the vectors a caller may bring: {}, or {Given}
  Hazardous  \* inputs allowed besides well-formed ones, see Hazards

\* A caller's clock that moves back; a valid_from ahead of the clock or before
\* the revised fact's own; a remember that apply_remember refuses half-way.
Hazards == {"clockBack", "misdated", "refused"}

ASSUME MemoryAssumption == /\ Links \subseteq Seq(Edges \cup {BadName})
                           /\ Brought \subseteq {Given}
                           /\ Hazardous \subseteq Hazards

VARIABLES
  mem,       \* the engine's state
  replayed,  \* what replay makes of the journal: [ok, mem]
  clock,     \* history: the last `now` a caller passed
  steady,    \* history: none was earlier than the one before
  sound      \* history: no remember was refused half-way

vars == <<mem, replayed, clock, steady, sound>>

\* A caller's `now`.
Tick(now) == /\ now >= clock \/ "clockBack" \in Hazardous
             /\ clock' = now
             /\ steady' = (steady /\ now >= clock)

\* The vectors a remember may bring: none, the caller's own, or one of the
\* embedder whose space the engine has recorded (Database::remember claims it
\* under the same lock).
InputVectors == {NoVector} \cup Brought \cup ({mem.space} \cap Spaces)

WellDated(in, since) == since <= in.from /\ in.from <= in.now

\* The arguments of a remember, or of a revise of a fact valid since `since`.
Argument(in, since) ==
  /\ mem.next < MaxFacts
  /\ mem.nextEdge + Len(in.links) <= MaxEdges
  /\ Tick(in.now)
  /\ WellDated(in, since) \/ "misdated" \in Hazardous

Journal(op) == replayed' = Replay(replayed, op) /\ UNCHANGED sound

-----------------------------------------------------------------------------
(* The verbs.                                                              *)

\* remember, remember_guarded when nothing similar blocks it, remember_batch
\* input by input.
Remember ==
  \E in \in Inputs(Links, InputVectors) :
    /\ Argument(in, 0)
    /\ ~Refused(in)
    /\ mem' = ApplyRemember(mem, in, NoFact)
    /\ Journal(RememberOp(in, NoFact, mem.next))

Revise ==
  \E in \in Inputs(Links, InputVectors), id \in IdsOf(mem) :
    /\ Revisable(mem, id)
    /\ Argument(in, mem.facts[id].from)
    /\ ~Refused(in)
    /\ mem' = ApplyRevise(mem, in, id)
    /\ Journal(RememberOp(in, id, mem.next))

\* Either of the two when apply_remember returns an error: nothing is journaled.
RefusedRemember ==
  /\ "refused" \in Hazardous
  /\ Len(mem.docs) < MaxFacts       \* bound: every refusal indexes its text
  /\ \E in \in Inputs(Links, InputVectors) :
       /\ Argument(in, 0)
       /\ Refused(in)
       /\ mem' = HalfRemembered(mem, in)
  /\ sound' = FALSE
  /\ UNCHANGED replayed

\* NotFound when the record is gone; journaled even if it was tombstoned.
Forget ==
  \E id \in IdsOf(mem) :
    /\ mem' = ApplyForget(mem, id)
    /\ Journal(ForgetOp(id))
    /\ UNCHANGED <<clock, steady>>

\* Nothing is journaled when no current fact carries the tag.
RemoveTag ==
  \E tag \in Tags, now \in Times :
    /\ Tick(now)
    /\ mem.next + Len(RemoveTagTargets(mem, tag)) <= MaxFacts
    /\ RemoveTagTargets(mem, tag) # <<>>
    /\ mem' = ApplyRemoveTag(mem, now, tag)
    /\ Journal(RemoveTagOp(tag, now))

\* The caller names the fact an edge came from: any id, purged ones included.
Link ==
  \E e \in Edges, now \in Times, fact \in {NoFact} \cup (0..mem.next - 1) :
    /\ Tick(now)
    /\ mem.nextEdge < MaxEdges
    /\ mem' = OpenEdge(mem, e, now, fact)
    /\ Journal(LinkOp(e, now, fact))

Unlink ==
  \E e \in Edges, now \in Times :
    /\ Tick(now)
    /\ mem' = CloseEdge(mem, e, now)
    /\ Journal(UnlinkOp(e, now))

\* claim_vector_space: repeating a claim is a no-op.
ClaimVectorSpace ==
  \E s \in Spaces :
    /\ s # mem.space
    /\ MayClaim(mem, s)
    /\ mem' = [mem EXCEPT !.space = s]
    /\ Journal(SetSpaceOp(s))
    /\ UNCHANGED <<clock, steady>>

\* maintain, maintain_with_options, when the plan compacts: the marker is
\* journaled, then the rebuilt parts are installed.
Maintain ==
  /\ Journal(MaintainOp)
  /\ mem' = Purge(mem)
  /\ UNCHANGED <<clock, steady>>

Init == mem = EmptyMemory /\ replayed = Loaded(EmptyMemory)
        /\ clock = 0 /\ steady = TRUE /\ sound = TRUE

Next == \/ Remember \/ Revise \/ RefusedRemember \/ Forget \/ RemoveTag \/ Link \/ Unlink
        \/ ClaimVectorSpace \/ Maintain

Spec == Init /\ [][Next]_vars

-----------------------------------------------------------------------------
(* Properties.                                                             *)

Facts == mem.facts

\* Whatever the caller's clock does, a version of an edge never ends before it began
\* (the clamp in close_current_edge); and while the clock does not move back an as-of
\* query sees at most one version of an edge: intervals [from, to) never overlap.
VersionsOrdered ==
  /\ \A v \in DOMAIN mem.history : mem.history[v].from <= mem.history[v].to
  /\ steady => \A v, w \in DOMAIN mem.history :
       v < w /\ mem.history[v].key = mem.history[w].key
         => mem.history[v].to <= mem.history[w].from

\* Every posting list, and BM25, names the retained facts that belong in it, each
\* once and ascending (Postings::push encodes id deltas); and the tag catalog, kept by
\* increments and never rebuilt, counts the current facts of each tag (what
\* verify_tag_catalog recounts), after any mixture of verbs and purges.  A remember
\* refused half-way has indexed a text that no fact has.
IndexesAgree == sound =>
  /\ mem.docs = Ascending(IdsOf(mem), mem.next)
  /\ DOMAIN mem.aux = IdsOf(mem)
  /\ \A t \in Tags :
       LET carriers == {id \in IdsOf(mem) : t \in mem.aux[id]}
       IN /\ mem.tagIdx[t]  = Ascending(carriers, mem.next)
          /\ mem.catalog[t] = Cardinality({id \in carriers : IsCurrent(Facts[id])})

\* A query as of any time sees one revision of a fact: along a revises-chain
\* the intervals [from, to) follow each other and never overlap, and a fact has
\* at most one successor.
OneRevisionAtATime ==
  LET root[id \in FactIds] == IF id \notin IdsOf(mem) \/ Facts[id].revises \notin IdsOf(mem)
                              THEN id ELSE root[Facts[id].revises]
  IN  \A a, b \in IdsOf(mem) :
        a < b /\ root[a] = root[b] => Facts[a].to <= Facts[b].from

\* A reopened database is the one that was written: replaying the journal gives
\* the live state back, field by field, and never finds it corrupt; unless a verb
\* was refused half-way, of which the journal knows nothing.
ReplayRebuilds == sound => replayed = Loaded(mem)

\* Vectors of an embedder are compared only with vectors of the same space:
\* every automatic vector stored is of the recorded one.
OneVectorSpace ==
  \A id \in IdsOf(mem) : Facts[id].vec \in Spaces => Facts[id].vec = mem.space

\* What a verb may never do to what is recorded already: move a fact's
\* beginning, reopen it, un-forget it, change its tags, give its id to another
\* fact, or drop a fact that was not forgotten or a version of an edge.
RecordsOnlyClose ==
  [][ /\ \A id \in IdsOf(mem) :
           IF id \in IdsOf(mem')
           THEN /\ [mem'.facts[id] EXCEPT !.to = OpenEnd, !.tomb = FALSE]
                     = [Facts[id] EXCEPT !.to = OpenEnd, !.tomb = FALSE]
                /\ IsClosed(Facts[id]) => mem'.facts[id].to = Facts[id].to
                /\ Facts[id].tomb => mem'.facts[id].tomb
                /\ mem'.aux[id] = mem.aux[id]
           ELSE Facts[id].tomb
      /\ \A id \in IdsOf(mem') \ IdsOf(mem) : id >= mem.next
      /\ mem'.next >= mem.next
      /\ \A v \in DOMAIN mem.history :
           /\ v \in DOMAIN mem'.history
           /\ mem.history[v].to # OpenEnd => mem'.history[v] = mem.history[v] ]_vars

\* One revision of a fact and one version of an edge at any time.
OneAtATime == OneRevisionAtATime /\ VersionsOrdered
=============================================================================
