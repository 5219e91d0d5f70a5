------------------------------- MODULE Recall -------------------------------
(***************************************************************************)
(* recall (plugmem-core/src/memory/recall.rs): the sources that are        *)
(* capped, the walk of the entity graph and the selection under a budget.  *)
(* recall changes nothing, so one step asks a question of one of them and  *)
(* has the answer.  The caps are a few instead of hundreds, and what is    *)
(* asked lies on both sides of them.                                       *)
(*                                                                         *)
(* A fact and an entity are numbers, their ids.  A similarity is a number  *)
(* from a small set, a weight is the hops it decays over, and `admits` is  *)
(* the set of the facts the shared rule admits.                            *)
(***************************************************************************)
EXTENDS SequencesExt

CONSTANTS
  Ids,           \* facts: 1..n
  Nodes,         \* entities: 1..n
  Ties,          \* edges: <<source, target>>
  Depths,        \* graph_depth
  Subjects,      \* functions fact -> its entity, or 0
  Provenance,    \* tie -> the fact of its edge, or 0
  SourceCap,     \* SOURCE_CAP
  TagFirstMax,   \* TEMPORAL_TAG_FIRST_MAX
  EntityCap, EdgeCap, FactCap, ExamineCap,  \* GRAPH_*_CAP
  Costs, Budgets,
  HashBits, HashFactor,                          \* the Fibonacci hash: 64 and 0x9E37_79B9_7F4A_7C15
  WordBits, MemberBits, MinWords, MaxWords,      \* ALLOW_*: 64, 8, 8 and 2^14
  Moments        \* times a fact may bear

ASSUME RecallAssumption == /\ Ids \cup Nodes \subseteq Nat \ {0} /\ Ties \subseteq Nodes \X Nodes
                           /\ SourceCap \in Nat \ {0} /\ {EntityCap, EdgeCap, FactCap} \subseteq Nat \ {0}
                           /\ TagFirstMax \in Nat /\ ExamineCap \in Nat /\ Depths \subseteq Nat
                           /\ {HashBits, HashFactor, WordBits, MemberBits, MinWords} \subseteq Nat \ {0}
                           /\ MaxWords \in Nat /\ MinWords <= MaxWords /\ Moments \subseteq Nat

VARIABLES
  asked,  \* [of] \cup the question: which part of recall, and its inputs
  got     \* what it returned

recallVars == <<asked, got>>

UpTo(s, n) == SubSeq(s, 1, Min({n, Len(s)}))

-----------------------------------------------------------------------------
(* Admission: the rule all sources share.                                  *)

\* AllowFilter::fill: words for the members, clamped, rounded up to a power of two;
\* and the bit of each member.
FilterSize(n) ==
  LET words == Max({MinWords, Min({MaxWords, (n * MemberBits + WordBits - 1) \div WordBits})})
  IN WordBits * (CHOOSE p \in {2^i : i \in 0..HashBits} : words <= p /\ p < 2 * words)

\* AllowFilter::index: the topmost bits of the hash.
FilterBit(size, id) == ((id * HashFactor) % 2^HashBits) \div (2^HashBits \div size)

FilterOver(allow) == LET size == FilterSize(Cardinality(allow))
                 IN [size |-> size, bits |-> {FilterBit(size, id) : id \in allow}]

MaybeContains(filter, id) == FilterBit(filter.size, id) \in filter.bits

\* admit: first the tags, by the filter and then by the set, then the record.
Admit(q) ==
  /\ q.filtered => MaybeContains(FilterOver(q.allow), q.id) /\ q.id \in q.allow
  /\ ~q.fact.tomb /\ q.fact.recorded <= q.asOf /\ q.fact.from <= q.asOf
  /\ q.closed \/ q.asOf < q.fact.to

-----------------------------------------------------------------------------
(* Sources.                                                                *)

\* order: the more similar first, then the smaller id.
BestFirst(S, sim) ==
  SetToSortSeq(S, LAMBDA a, b : sim[a] > sim[b] \/ (sim[a] = sim[b] /\ a < b))

\* A bug Ordered must not have: the entries past the band stay as they are.
OrderedNever(list, band, sim) == list

\* The entries past the band, in order from here on.
Ordered(list, band, sim) == SubSeq(list, 1, band) \o BestFirst(ToSet(SubSeq(list, band + 1, Len(list))), sim)

\* vec_graph_source: the best SOURCE_CAP of what was scanned go to the front, and
\* the admitted are compacted over the list they are read from, which is put in
\* order past the band when the reading gets there.
VecSource(scanned, sim, admits) ==
  LET n     == Len(scanned)
      band  == Min({SourceCap, n})
      front == UpTo(BestFirst(ToSet(scanned), sim), band)
      Read(c, read) ==
        LET list == IF read = band + 1 THEN Ordered(c.list, band, sim) ELSE c.list
        IN IF c.write = SourceCap THEN c
           ELSE IF list[read] \notin admits THEN [c EXCEPT !.list = list]
           ELSE [list |-> [list EXCEPT ![c.write + 1] = list[read]], write |-> c.write + 1]
      all   == FoldLeft(Read, [list |-> front \o SelectSeq(scanned, LAMBDA f : f \notin ToSet(front)),
                               write |-> 0], [i \in 1..n |-> i])
  IN SubSeq(all.list, 1, all.write)

NewestFirst(S, at) == SetToSortSeq(S, LAMBDA a, b : at[a] > at[b] \/ (at[a] = at[b] /\ a > b))

\* time_source_from_tags: the allowed facts, those in the range, and then in order.
TimeFromTags(at, range, admits, allow) ==
  UpTo(NewestFirst({f \in allow \cap admits : range[1] <= at[f] /\ at[f] < range[2]}, at), SourceCap)

\* time_source: back through the temporal index until the cap is full, unless the
\* allow-set is small enough to look at.
TimeSource(at, range, admits, allow, filtered) ==
  LET index == NewestFirst({f \in Ids : range[1] <= at[f] /\ at[f] < range[2]}, at)
  IN IF filtered /\ allow # {} /\ Cardinality(allow) <= TagFirstMax
     THEN TimeFromTags(at, range, admits, allow)
     ELSE FoldLeft(LAMBDA out, f : IF Len(out) < SourceCap /\ f \in admits /\ (filtered => f \in allow)
                                   THEN Append(out, f) ELSE out, <<>>, index)

-----------------------------------------------------------------------------
(* The graph.                                                              *)

\* neighbors: the ties out of the entity in key order, then the ties into it.
Neighbors(ties, e) ==
  LET out  == SetToSortSeq({t \in ties : t[1] = e}, LAMBDA s, t : s[2] < t[2])
      into == SetToSortSeq({t \in ties : t[2] = e}, LAMBDA s, t : s[1] < t[1])
  IN [i \in DOMAIN out |-> [tie |-> out[i], other |-> out[i][2]]]
     \o [i \in DOMAIN into |-> [tie |-> into[i], other |-> into[i][1]]]

\* full: neither list can take more.
Full(w) == Len(w.ties) >= EdgeCap /\ Len(w.seen) >= EntityCap

\* The visitor of one neighbor, at a distance of so many hops.
Visited(w, n, hops) ==
  [w EXCEPT !.ties = IF Len(@) < EdgeCap /\ n.tie \notin ToSet(@) THEN Append(@, n.tie) ELSE @,
            !.seen = IF Len(@) < EntityCap /\ ~\E i \in DOMAIN @ : @[i].node = n.other
                     THEN Append(@, [node |-> n.other, hops |-> hops]) ELSE @]

\* The expansion: hop by hop, the entities of the hop before, until both are full.
Expanded(ties, anchors, depth) ==
  LET Hop(w, hops) ==
        FoldLeft(LAMBDA u, i : IF Full(u) THEN u
                               ELSE FoldLeft(LAMBDA v, n : IF Full(v) THEN v ELSE Visited(v, n, hops),
                                             u, Neighbors(ties, u.seen[i].node)),
                 [w EXCEPT !.frontier = Len(w.seen)],
                 [i \in 1..(Len(w.seen) - w.frontier) |-> w.frontier + i])
  IN FoldLeft(Hop, [ties |-> <<>>, frontier |-> 0,
                    seen |-> [i \in DOMAIN anchors |-> [node |-> anchors[i], hops |-> 0]]],
              [h \in 1..depth |-> h])

\* The facts of the visited entities in the order of the visit, so many looked at
\* and so many taken; then the provenance of the edges, at one hop.
Candidates(w, subject, admits) ==
  LET about(s) == SetToSortSeq({f \in Ids : subject[f] = s.node}, <)
      listed   == FlattenSeq([i \in DOMAIN w.seen |->
                    LET a == about(w.seen[i]) IN [j \in DOMAIN a |-> [fact |-> a[j], hops |-> w.seen[i].hops]]])
      Take(out, c) == IF Len(out) < FactCap /\ c.fact \in admits THEN Append(out, c) ELSE out
      Behind(out, t) ==
        IF Provenance[t] # 0 /\ ~\E i \in DOMAIN out : out[i].fact = Provenance[t]
        THEN Take(out, [fact |-> Provenance[t], hops |-> 1]) ELSE out
  IN FoldLeft(Behind, FoldLeft(Take, <<>>, UpTo(listed, ExamineCap)), w.ties)

\* graph_source: the nearest first, then the smaller id, and no more than a source has.
GraphSource(candidates) ==
  UpTo(SortSeq(candidates, LAMBDA a, b : a.hops < b.hops \/ (a.hops = b.hops /\ a.fact < b.fact)), SourceCap)

-----------------------------------------------------------------------------
(* Selection.                                                              *)

\* Down the ranking until there are k or the next one is too dear.
Selected(ranked, cost, k, budget) ==
  FoldLeft(LAMBDA a, f : IF a.truncated THEN a
                         ELSE IF Len(a.facts) = k \/ a.spent + cost[f] > budget
                              THEN [a EXCEPT !.truncated = TRUE]
                         ELSE [a EXCEPT !.facts = Append(@, f), !.spent = @ + cost[f]],
           [facts |-> <<>>, spent |-> 0, truncated |-> FALSE], ranked)

-----------------------------------------------------------------------------
Nothing == [of |-> "nothing"]

RecallInit == asked = Nothing /\ got = <<>>

\* What the HNSW graph and the flat tail gave, in whatever order.
AskVectors ==
  \E scanned \in UNION {SetToSeqs(S) : S \in SUBSET Ids}, sim \in [Ids -> {0, 1}], admits \in SUBSET Ids :
    /\ asked' = [of |-> "vectors", scanned |-> ToSet(scanned), sim |-> sim, admits |-> admits]
    /\ got' = VecSource(scanned, sim, admits)

AskTimes ==
  \E at \in [Ids -> {0, 1}], to \in {1, 2}, admits, allow \in SUBSET Ids, filtered \in BOOLEAN :
    /\ filtered <=> allow # {}
    /\ asked' = [of |-> "times", at |-> at, range |-> <<0, to>>,
                 admits |-> IF filtered THEN admits \cap allow ELSE admits]
    /\ got' = TimeSource(at, <<0, to>>, admits, allow, filtered)

AskGraph ==
  \E ties \in SUBSET Ties, anchors \in UNION {SetToSeqs(S) : S \in SUBSET Nodes},
     depth \in Depths, subject \in Subjects, admits \in {Ids, Ids \ {1}} :
    LET w == Expanded(ties, anchors, depth)
        c == Candidates(w, subject, admits)
    IN /\ Len(anchors) \in 1..2
       /\ asked' = [of |-> "graph", ties |-> ties, anchors |-> ToSet(anchors), depth |-> depth,
                    subject |-> subject, admits |-> admits]
       /\ got' = [walk |-> w, all |-> c, facts |-> GraphSource(c)]

AskSelection ==
  \E ranked \in UNION {SetToSeqs(S) : S \in SUBSET Ids}, cost \in [Ids -> Costs],
     k \in {1, 3}, budget \in Budgets :
    /\ asked' = [of |-> "selection", ranked |-> ranked, cost |-> cost, k |-> k, budget |-> budget]
    /\ got' = Selected(ranked, cost, k, budget)

AskAdmission ==
  \E allow \in SUBSET Ids, id \in Ids, asOf \in Moments, tomb, closed \in BOOLEAN,
     recorded, from, to \in Moments :
    LET q == [of |-> "admission", allow |-> allow, filtered |-> allow # {}, id |-> id, asOf |-> asOf,
              closed |-> closed,
              fact |-> [tomb |-> tomb, recorded |-> recorded, from |-> from, to |-> to]]
    IN /\ from <= to
       /\ asked' = q /\ got' = Admit(q)

RecallNext == asked = Nothing /\ (AskAdmission \/ AskVectors \/ AskTimes \/ AskGraph \/ AskSelection)

RecallSpec == RecallInit /\ [][RecallNext]_recallVars

-----------------------------------------------------------------------------
(* Property: each answer against what was asked for.                       *)

\* The filter in front of the allow-set loses no member and stays within its words,
\* and what is admitted was known by then and, unless the closed are asked for,
\* true then.
AdmissionAnswered ==
  LET q     == asked
      known == q.fact.recorded <= q.asOf
      holds == q.fact.from <= q.asOf /\ q.asOf < q.fact.to
      ended == q.fact.from <= q.asOf /\ q.fact.to <= q.asOf
  IN /\ \A f \in q.allow : /\ MaybeContains(FilterOver(q.allow), f)
                            /\ FilterBit(FilterSize(Cardinality(q.allow)), f) < MaxWords * WordBits
     /\ got <=> /\ ~q.fact.tomb /\ known /\ (holds \/ (ended /\ q.closed))
                /\ q.filtered => q.id \in q.allow

\* The best of the admitted, as if all that was scanned had been ranked.
VectorsAnswered == got = UpTo(BestFirst(asked.scanned \cap asked.admits, asked.sim), SourceCap)

\* The newest of the admitted, whichever way the allow-set sent the query.
TimesAnswered ==
  got = UpTo(NewestFirst({f \in asked.admits : asked.at[f] < asked.range[2]}, asked.at), SourceCap)

\* The nodes within so many hops of the anchors.
Ball(hops) ==
  LET ball[h \in 0..hops] ==
        IF h = 0 THEN asked.anchors
        ELSE ball[h-1] \cup {n \in Nodes : \E t \in asked.ties : n \in {t[1], t[2]} /\ ball[h-1] \cap {t[1], t[2]} # {}}
  IN ball[hops]

TiesOf(S) == {t \in asked.ties : t[1] \in S \/ t[2] \in S}

\* The walk is breadth first; a list that is not full has all there is, although the
\* other may be; a fact comes once, and with no cap in the way every admitted fact
\* of a visited entity or behind a walked edge comes, the nearest first.
GraphAnswered ==
  LET w      == got.walk
      seen   == {w.seen[i].node : i \in DOMAIN w.seen}
      looked == {w.seen[i].node : i \in {j \in DOMAIN w.seen : w.seen[j].hops < asked.depth}}
      due    == {f \in asked.admits : asked.subject[f] \in seen}
                \cup ({Provenance[t] : t \in ToSet(w.ties)} \cap asked.admits)
      facts  == {got.all[i].fact : i \in DOMAIN got.all}
  IN /\ \A i \in DOMAIN w.seen : /\ w.seen[i].node \in Ball(w.seen[i].hops)
                                 /\ w.seen[i].hops > 0 => w.seen[i].node \notin Ball(w.seen[i].hops - 1)
     /\ Len(w.seen) < EntityCap => seen = Ball(asked.depth)
     /\ ToSet(w.ties) \subseteq TiesOf(looked)
     /\ Len(w.ties) < EdgeCap => ToSet(w.ties) = TiesOf(looked)
     /\ IsInjective([i \in DOMAIN got.all |-> got.all[i].fact]) /\ facts \subseteq due
     /\ Len(got.all) < FactCap /\ Cardinality({f \in Ids : asked.subject[f] \in seen}) <= ExamineCap
          => facts = due
     /\ \A i, j \in DOMAIN got.facts : i < j => got.facts[i].hops <= got.facts[j].hops
     /\ \A c \in ToSet(got.all) \ ToSet(got.facts) : /\ Len(got.facts) = SourceCap
                                                     /\ got.facts[SourceCap].hops <= c.hops

\* The longest beginning of the ranking that k and the budget allow, and whether it
\* is less than the ranking.
SelectionAnswered ==
  LET Fits(n) == n <= asked.k /\ FoldLeft(LAMBDA a, b : a + b, 0, [i \in 1..n |-> asked.cost[asked.ranked[i]]]) <= asked.budget
  IN /\ got.facts = UpTo(asked.ranked, CHOOSE n \in 0..Len(asked.ranked) :
                            Fits(n) /\ \A m \in 0..Len(asked.ranked) : Fits(m) => m <= n)
     /\ got.truncated <=> got.facts # asked.ranked

\* Ranking before admission, compacting in place, stopping a walk when its lists are
\* full, looking at a small allow-set instead of at the index and the filter before
\* the allow-set change no answer.
RecallAgrees ==
  /\ asked.of = "admission" => AdmissionAnswered
  /\ asked.of = "vectors"   => VectorsAnswered
  /\ asked.of = "times"     => TimesAnswered
  /\ asked.of = "graph"     => GraphAnswered
  /\ asked.of = "selection" => SelectionAnswered
=============================================================================
