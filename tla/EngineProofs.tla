---------------------------- MODULE EngineProofs ----------------------------
(***************************************************************************)
(* Lemmas about the operators of Engine, for MemoryProofs and              *)
(* DatabaseProofs: what keeping the elements of a set from a sequence      *)
(* yields, what each verb leaves of every field of a memory, and what      *)
(* loading a journal on top of an image yields.  Induction over sequences  *)
(* and folds is SequenceFolds', instantiated for replay and for links.     *)
(***************************************************************************)
EXTENDS Engine, SequenceTheorems, FunctionTheorems, TLAPS

Naturally == INSTANCE SequenceFolds WITH Step <- Replay
Linking   == INSTANCE SequenceFolds WITH Step <- OpenLink

-----------------------------------------------------------------------------
(* Filters: purge, remove_tag.                                             *)

\* g is the recursive function in KeepIn's definition.
KeptBy(s, S, g) ==
  g = [n \in 0..Len(s) |-> IF n = 0 THEN <<>>
                           ELSE IF s[n] \in S THEN Append(g[n - 1], s[n]) ELSE g[n - 1]]

\* The equation that defines KeepIn has a solution.
LEMMA KeepExists ==
  ASSUME NEW R, NEW s \in Seq(R), NEW S
  PROVE  \E g : KeptBy(s, S, g) /\ KeepIn(s, S) = g[Len(s)]
<1> DEFINE Upto(m, g) ==
             g = [n \in 0..m |-> IF n = 0 THEN <<>>
                                 ELSE IF s[n] \in S THEN Append(g[n - 1], s[n]) ELSE g[n - 1]]
           T == {m \in Nat : \E g : Upto(m, g)}
<1>1. 0 \in T
  <2>1. Upto(0, [n \in 0..0 |-> <<>>]) OBVIOUS
  <2> QED BY <2>1
<1>2. ASSUME NEW m \in Nat, m \in T PROVE m + 1 \in T
  <2>1. PICK g : Upto(m, g) BY <1>2
  <2> DEFINE h == [n \in 0..m + 1 |->
                     IF n = m + 1 THEN IF s[n] \in S THEN Append(g[m], s[n]) ELSE g[m] ELSE g[n]]
  <2>2. ASSUME NEW n \in 0..m + 1
        PROVE  h[n] = IF n = 0 THEN <<>>
                      ELSE IF s[n] \in S THEN Append(h[n - 1], s[n]) ELSE h[n - 1]
    <3>1. CASE n = m + 1
      BY <3>1
    <3>2. CASE n # m + 1
      <4>1. n \in 0..m /\ (n # 0 => n - 1 \in 0..m /\ n - 1 # m + 1 /\ n - 1 \in 0..m + 1) BY <3>2
      <4>2. h[n] = g[n] /\ (n # 0 => h[n - 1] = g[n - 1]) BY <4>1, <3>2
      <4>3. g[n] = IF n = 0 THEN <<>>
                   ELSE IF s[n] \in S THEN Append(g[n - 1], s[n]) ELSE g[n - 1]
        BY <2>1, <4>1
      <4> HIDE DEF h, Upto
      <4> QED BY <4>2, <4>3
    <3> QED BY <3>1, <3>2
  <2>3. h = [n \in 0..m + 1 |-> h[n]] OBVIOUS
  <2> HIDE DEF h
  <2>4. Upto(m + 1, h) BY <2>2, <2>3
  <2> QED BY <2>4
<1> HIDE DEF T
<1>3. Len(s) \in T BY <1>1, <1>2, Naturally!Inductive
<1> QED BY <1>3 DEF T, KeptBy, KeepIn

\* One step of it.
LEMMA KeepStep ==
  ASSUME NEW R, NEW s \in Seq(R), NEW S, NEW g, KeptBy(s, S, g), NEW n \in Nat, n + 1 <= Len(s)
  PROVE  g[n + 1] = IF s[n + 1] \in S THEN Append(g[n], s[n + 1]) ELSE g[n]
<1>1. Len(s) \in Nat /\ n + 1 \in 0..Len(s) /\ n + 1 # 0 /\ (n + 1) - 1 = n OBVIOUS
<1> QED BY <1>1 DEF KeptBy

\* Nothing of nothing.
LEMMA KeepEmpty == ASSUME NEW S PROVE KeepIn(<<>>, S) = <<>>
<1>1. PICK g : KeptBy(<<>>, S, g) /\ KeepIn(<<>>, S) = g[0]
  <2>1. <<>> \in Seq({}) /\ Len(<<>>) = 0 OBVIOUS
  <2> QED BY <2>1, KeepExists
<1> QED BY <1>1 DEF KeptBy

\* One more element is kept or not.
LEMMA KeepAppend ==
  ASSUME NEW R, NEW s \in Seq(R), NEW e \in R, NEW S
  PROVE  /\ e \in S => KeepIn(Append(s, e), S) = Append(KeepIn(s, S), e)
         /\ e \notin S => KeepIn(Append(s, e), S) = KeepIn(s, S)
<1> DEFINE t == Append(s, e)
           k == Len(s)
<1>1. /\ t \in Seq(R) /\ k \in Nat /\ Len(t) = k + 1 /\ t[k + 1] = e
      /\ \A n \in 1..k : t[n] = s[n]
  OBVIOUS
<1>2. PICK g : KeptBy(s, S, g) /\ KeepIn(s, S) = g[k]
  BY KeepExists
<1>3. PICK h : KeptBy(t, S, h) /\ KeepIn(t, S) = h[k + 1]
  BY <1>1, KeepExists
<1> HIDE DEF t
<1> DEFINE T == {n \in Nat : n <= k => g[n] = h[n]}
<1>4. 0 \in T
  BY <1>1, <1>2, <1>3 DEF KeptBy
<1>5. ASSUME NEW n \in Nat, n \in T PROVE n + 1 \in T
  <2>1. SUFFICES ASSUME n + 1 <= k PROVE g[n + 1] = h[n + 1]
    OBVIOUS
  <2>2. g[n + 1] = IF s[n + 1] \in S THEN Append(g[n], s[n + 1]) ELSE g[n]
    BY <1>1, <1>2, <2>1, KeepStep
  <2>3. h[n + 1] = IF t[n + 1] \in S THEN Append(h[n], t[n + 1]) ELSE h[n]
    BY <1>1, <1>3, <2>1, KeepStep
  <2> QED BY <1>1, <1>5, <2>1, <2>2, <2>3
<1> HIDE DEF T
<1>6. k \in T BY <1>1, <1>4, <1>5, Naturally!Inductive
<1>7. g[k] = h[k] BY <1>1, <1>6 DEF T
<1>8. h[k + 1] = IF t[k + 1] \in S THEN Append(h[k], t[k + 1]) ELSE h[k]
  BY <1>1, <1>3, KeepStep
<1> QED BY <1>1, <1>2, <1>3, <1>7, <1>8 DEF t

\* What is kept was there, and is in S.
LEMMA KeepSeq ==
  ASSUME NEW R, NEW s \in Seq(R), NEW S
  PROVE  KeepIn(s, S) \in Seq(R) /\ KeepIn(s, S) \in Seq(S)
<1> DEFINE T == {t \in Seq(R) : KeepIn(t, S) \in Seq(R) /\ KeepIn(t, S) \in Seq(S)}
<1>1. <<>> \in T
  <2>1. <<>> \in Seq(R) /\ <<>> \in Seq(S) OBVIOUS
  <2> QED BY <2>1, KeepEmpty
<1>2. ASSUME NEW t \in Seq(R), NEW e \in R, t \in T PROVE Append(t, e) \in T
  <2>1. Append(t, e) \in Seq(R) OBVIOUS
  <2>2. CASE e \in S
    <3>1. Append(KeepIn(t, S), e) \in Seq(R) /\ Append(KeepIn(t, S), e) \in Seq(S)
      BY <1>2, <2>2
    <3> QED BY <2>1, <2>2, <3>1, KeepAppend
  <2>3. CASE e \notin S BY <1>2, <2>1, <2>3, KeepAppend
  <2> QED BY <2>2, <2>3
<1> HIDE DEF T
<1>3. s \in T BY <1>1, <1>2, Naturally!InductiveSeq
<1> QED BY <1>3 DEF T

\* It depends only on which of the elements are in S.
LEMMA KeepSame ==
  ASSUME NEW R, NEW s \in Seq(R), NEW S, NEW U, R \cap S = R \cap U
  PROVE  KeepIn(s, S) = KeepIn(s, U)
<1> DEFINE T == {t \in Seq(R) : KeepIn(t, S) = KeepIn(t, U)}
<1>1. <<>> \in T
  <2>1. <<>> \in Seq(R) OBVIOUS
  <2> QED BY <2>1, KeepEmpty
<1>2. ASSUME NEW t \in Seq(R), NEW e \in R, t \in T PROVE Append(t, e) \in T
  <2>1. (e \in S <=> e \in U) /\ Append(t, e) \in Seq(R) OBVIOUS
  <2>2. KeepIn(t, S) = KeepIn(t, U) BY <1>2
  <2>3. CASE e \in S
    <3>1. KeepIn(Append(t, e), S) = Append(KeepIn(t, S), e) BY <2>3, KeepAppend
    <3>2. KeepIn(Append(t, e), U) = Append(KeepIn(t, U), e) BY <2>1, <2>3, KeepAppend
    <3> QED BY <2>1, <2>2, <3>1, <3>2
  <2>4. CASE e \notin S
    <3>1. KeepIn(Append(t, e), S) = KeepIn(t, S) BY <2>4, KeepAppend
    <3>2. KeepIn(Append(t, e), U) = KeepIn(t, U) BY <2>1, <2>4, KeepAppend
    <3> QED BY <2>1, <2>2, <3>1, <3>2
  <2> QED BY <2>3, <2>4
<1> HIDE DEF T
<1>3. s \in T BY <1>1, <1>2, Naturally!InductiveSeq
<1> QED BY <1>3 DEF T

\* Keeping twice keeps what is in both sets.
LEMMA KeepTwice ==
  ASSUME NEW R, NEW s \in Seq(R), NEW S, NEW U
  PROVE  KeepIn(KeepIn(s, S), U) = KeepIn(s, S \cap U)
<1> DEFINE T == {t \in Seq(R) : KeepIn(KeepIn(t, S), U) = KeepIn(t, S \cap U)}
<1>1. <<>> \in T
  <2>1. <<>> \in Seq(R) OBVIOUS
  <2> QED BY <2>1, KeepEmpty
<1>2. ASSUME NEW t \in Seq(R), NEW e \in R, t \in T PROVE Append(t, e) \in T
  <2>0. Append(t, e) \in Seq(R) OBVIOUS
  <2>1. KeepIn(t, S) \in Seq(R) BY KeepSeq
  <2>2. CASE e \in S
    <3>1. KeepIn(Append(t, e), S) = Append(KeepIn(t, S), e) BY <2>2, KeepAppend
    <3>2. /\ e \in U => KeepIn(Append(KeepIn(t, S), e), U) = Append(KeepIn(KeepIn(t, S), U), e)
          /\ e \notin U => KeepIn(Append(KeepIn(t, S), e), U) = KeepIn(KeepIn(t, S), U)
      BY <2>1, KeepAppend
    <3>3. CASE e \in U
      <4>1. e \in S \cap U BY <2>2, <3>3
      <4>2. KeepIn(Append(t, e), S \cap U) = Append(KeepIn(t, S \cap U), e) BY <4>1, KeepAppend
      <4> QED BY <1>2, <2>0, <3>1, <3>2, <3>3, <4>2
    <3>4. CASE e \notin U
      <4>1. e \notin S \cap U BY <3>4
      <4>2. KeepIn(Append(t, e), S \cap U) = KeepIn(t, S \cap U) BY <4>1, KeepAppend
      <4> QED BY <1>2, <2>0, <3>1, <3>2, <3>4, <4>2
    <3> QED BY <3>3, <3>4
  <2>3. CASE e \notin S
    <3>1. e \notin S \cap U BY <2>3
    <3> QED BY <1>2, <2>0, <2>3, <3>1, KeepAppend
  <2> QED BY <2>2, <2>3
<1> HIDE DEF T
<1>3. s \in T BY <1>1, <1>2, Naturally!InductiveSeq
<1> QED BY <1>3 DEF T

\* Keeping from one sequence after another.
LEMMA KeepConcat ==
  ASSUME NEW R, NEW s \in Seq(R), NEW t \in Seq(R), NEW S
  PROVE  KeepIn(s \o t, S) = KeepIn(s, S) \o KeepIn(t, S)
<1> DEFINE T == {u \in Seq(R) : KeepIn(s \o u, S) = KeepIn(s, S) \o KeepIn(u, S)}
<1>0. KeepIn(s, S) \in Seq(R) BY KeepSeq
<1>1. <<>> \in T
  <2>1. s \o <<>> = s /\ KeepIn(s, S) \o <<>> = KeepIn(s, S) BY <1>0
  <2>2. <<>> \in Seq(R) OBVIOUS
  <2> QED BY <2>1, <2>2, KeepEmpty
<1>2. ASSUME NEW u \in Seq(R), NEW e \in R, u \in T PROVE Append(u, e) \in T
  <2>1. s \o Append(u, e) = Append(s \o u, e) /\ s \o u \in Seq(R) OBVIOUS
  <2>2. KeepIn(u, S) \in Seq(R) BY KeepSeq
  <2>3. KeepIn(s, S) \o Append(KeepIn(u, S), e) = Append(KeepIn(s, S) \o KeepIn(u, S), e)
    BY <1>0, <2>2
  <2>4. Append(u, e) \in Seq(R) OBVIOUS
  <2>5. CASE e \in S
    <3>1. KeepIn(Append(u, e), S) = Append(KeepIn(u, S), e) BY <2>5, KeepAppend
    <3>2. KeepIn(Append(s \o u, e), S) = Append(KeepIn(s \o u, S), e) BY <2>1, <2>5, KeepAppend
    <3> QED BY <1>2, <2>1, <2>3, <2>4, <3>1, <3>2
  <2>6. CASE e \notin S
    <3>1. KeepIn(Append(u, e), S) = KeepIn(u, S) BY <2>6, KeepAppend
    <3>2. KeepIn(Append(s \o u, e), S) = KeepIn(s \o u, S) BY <2>1, <2>6, KeepAppend
    <3> QED BY <1>2, <2>1, <2>4, <3>1, <3>2
  <2> QED BY <2>5, <2>6
<1> HIDE DEF T
<1>3. t \in T BY <1>1, <1>2, Naturally!InductiveSeq
<1> QED BY <1>3 DEF T
-----------------------------------------------------------------------------
(* What a memory is.                                                       *)

FactShape    == [revises : Nat \cup {NoFact}, from : Times, to : Times \cup {OpenEnd},
                 tomb : BOOLEAN, vec : Vectors]
VersionShape == [key : Edges, fact : Nat \cup {NoFact}, from : Times,
                 to : Times \cup {OpenEnd}]
MemoryFields == {"facts", "aux", "docs", "tagIdx", "catalog", "next", "current", "history",
                 "nextEdge", "space"}

\* Facts and what is kept by fact id.  A refused remember leaves its tags under the
\* next id.
FactsShape(m) ==
  /\ m.next \in Nat
  /\ \A id \in IdsOf(m) : /\ id \in Nat /\ id < m.next
                          /\ m.facts[id] \in FactShape
                          /\ id \in DOMAIN m.aux
  /\ \A id \in DOMAIN m.aux : id \in Nat /\ id <= m.next /\ m.aux[id] \in SUBSET Tags
  /\ m.docs \in Seq(Nat)
  /\ DOMAIN m.tagIdx = Tags /\ \A t \in Tags : m.tagIdx[t] \in Seq(Nat)
  /\ DOMAIN m.catalog = Tags /\ \A t \in Tags : m.catalog[t] \in Nat
  /\ m.space \in Spaces \cup {NoSpace}

\* Versions of edges; the current graph is what verify finds, and no version ends
\* before it began.
GraphShape(m) ==
  /\ m.nextEdge \in Nat
  /\ \A v \in DOMAIN m.history : v \in Nat /\ v < m.nextEdge /\ m.history[v] \in VersionShape
  /\ \A e \in DOMAIN m.current : e \in Edges /\ m.current[e] \in DOMAIN m.history
  /\ VerifyGraph(m)
  /\ \A v \in DOMAIN m.history : m.history[v].from <= m.history[v].to

Shape(m) == DOMAIN m = MemoryFields /\ FactsShape(m) /\ GraphShape(m)

\* The memory of a new database is one.
LEMMA EmptyShape == Shape(EmptyMemory)
BY EngineAssumption DEF EmptyMemory, Shape, MemoryFields, FactsShape, GraphShape, IdsOf,
   VerifyGraph

-----------------------------------------------------------------------------
(* The graph.                                                              *)

\* x's graph is m's after edges were closed and opened: what was recorded of a
\* version stays but for the end of an open one.
GraphGrows(m, x) ==
  /\ GraphShape(x)
  /\ x.nextEdge >= m.nextEdge
  /\ \A v \in DOMAIN m.history :
       /\ v \in DOMAIN x.history
       /\ m.history[v].to # OpenEnd => x.history[v] = m.history[v]

\* And nothing else changed.
Grown(m, x) ==
  /\ DOMAIN x = MemoryFields
  /\ x.facts = m.facts /\ x.aux = m.aux /\ x.docs = m.docs /\ x.tagIdx = m.tagIdx
  /\ x.catalog = m.catalog /\ x.next = m.next /\ x.space = m.space
  /\ GraphGrows(m, x)

\* At the time now, everything recorded is past, in the order of the versions' ids.
Dated(m, now) ==
  /\ \A v \in DOMAIN m.history :
       m.history[v].from <= now /\ (m.history[v].to # OpenEnd => m.history[v].to <= now)
  /\ \A v, w \in DOMAIN m.history :
       v < w /\ m.history[v].key = m.history[w].key => m.history[v].to <= m.history[w].from

\* Nothing is recorded: the graph has grown by nothing.
LEMMA GrownReflexive ==
  ASSUME NEW m, Shape(m) PROVE Grown(m, m)
BY DEF Grown, GraphGrows, Shape, GraphShape

\* And it may grow twice.
LEMMA GrownTransitive ==
  ASSUME NEW m, NEW x, NEW y, GraphShape(m), Grown(m, x), Grown(x, y) PROVE Grown(m, y)
BY DEF Grown, GraphGrows, GraphShape

\* close_current_edge ends the open version, and no other.
LEMMA CloseEdgeGrows ==
  ASSUME NEW m, Shape(m), NEW e \in Edges, NEW now \in Times
  PROVE  Grown(m, CloseEdge(m, e, now))
<1>1. CASE e \notin DOMAIN m.current
  BY <1>1, GrownReflexive DEF CloseEdge
<1>2. CASE e \in DOMAIN m.current
  <2> DEFINE v == m.current[e]
             x == CloseEdge(m, e, now)
  <2>1. v \in DOMAIN m.history /\ m.history[v] \in VersionShape
    BY <1>2 DEF Shape, GraphShape
  <2>2. CloseTime(m, e, now) \in Times
    BY <2>1 DEF CloseTime, VersionShape, Times
  <2>3. x = [m EXCEPT !.history[v].to = CloseTime(m, e, now),
                      !.current = Restrict(m.current, DOMAIN m.current \ {e})]
    BY <1>2 DEF CloseEdge
  <2>4. /\ DOMAIN x = MemoryFields
        /\ x.facts = m.facts /\ x.aux = m.aux /\ x.docs = m.docs /\ x.tagIdx = m.tagIdx
        /\ x.catalog = m.catalog /\ x.next = m.next /\ x.space = m.space
        /\ x.nextEdge = m.nextEdge
        /\ x.history = [m.history EXCEPT ![v].to = CloseTime(m, e, now)]
        /\ x.current = Restrict(m.current, DOMAIN m.current \ {e})
    BY <2>3 DEF Shape, MemoryFields
  <2> HIDE DEF x
  <2>5. /\ m.history[v].key = e /\ m.history[v].to = OpenEnd
        /\ \A w \in DOMAIN m.history : w # v => m.history[w].key # e \/ m.history[w].to # OpenEnd
        /\ \A f \in DOMAIN m.current : f # e => m.current[f] # v
    BY <1>2 DEF Shape, GraphShape, VerifyGraph
  <2>6. /\ DOMAIN x.history = DOMAIN m.history
        /\ x.history[v] \in VersionShape /\ x.history[v].key = e
        /\ x.history[v].to = CloseTime(m, e, now) /\ x.history[v].from = m.history[v].from
        /\ \A w \in DOMAIN m.history : w # v => x.history[w] = m.history[w]
    BY <2>1, <2>2, <2>4, <2>5 DEF VersionShape
  <2>7. x.history[v].from <= x.history[v].to /\ x.history[v].to # OpenEnd
    BY <2>1, <2>2, <2>6, EngineAssumption DEF CloseTime, VersionShape, Times, OpenEnd
  <2>8. /\ DOMAIN x.current = DOMAIN m.current \ {e}
        /\ \A f \in DOMAIN x.current : x.current[f] = m.current[f]
    BY <2>4 DEF Restrict
  <2>9. VerifyGraph(x)
    BY <2>5, <2>6, <2>7, <2>8 DEF Shape, GraphShape, VerifyGraph
  <2>10. GraphShape(x)
    BY <2>4, <2>6, <2>7, <2>8, <2>9 DEF Shape, GraphShape
  <2>11. \A w \in DOMAIN m.history :
           /\ w \in DOMAIN x.history
           /\ m.history[w].to # OpenEnd => x.history[w] = m.history[w]
    BY <2>5, <2>6
  <2>12. x.nextEdge >= m.nextEdge BY <2>4 DEF Shape, GraphShape
  <2> HIDE DEF v
  <2> QED BY <2>4, <2>10, <2>11, <2>12 DEF Grown, GraphGrows, x
<1> QED BY <1>1, <1>2

\* An edge that was closed is in no one's current graph.
LEMMA ClosedEdge ==
  ASSUME NEW m, Shape(m), NEW e \in Edges, NEW now
  PROVE  e \notin DOMAIN CloseEdge(m, e, now).current
BY DEF CloseEdge, Restrict, Shape, MemoryFields

\* The memory after one more version.
Opened(c, e, now, fact) ==
  [c EXCEPT !.history = Put(@, c.nextEdge, [key |-> e, fact |-> fact, from |-> now,
                                           to |-> OpenEnd]),
            !.current = Put(@, e, c.nextEdge),
            !.nextEdge = @ + 1]

\* open_edge closes, then opens.
LEMMA OpenEdgeSteps ==
  ASSUME NEW m, NEW e, NEW now, NEW fact
  PROVE  OpenEdge(m, e, now, fact) = IF SameLink(m, e, fact) THEN m
                                     ELSE Opened(CloseEdge(m, e, now), e, now, fact)
BY DEF OpenEdge, Opened

\* A new version has an id of its own.
LEMMA OpenedGrows ==
  ASSUME NEW c, Shape(c), NEW e \in Edges, e \notin DOMAIN c.current, NEW now \in Times,
         NEW fact \in Nat \cup {NoFact}
  PROVE  Grown(c, Opened(c, e, now, fact))
<1> DEFINE x == Opened(c, e, now, fact)
           n == c.nextEdge
           r == [key |-> e, fact |-> fact, from |-> now, to |-> OpenEnd]
<1>1. /\ DOMAIN x = MemoryFields
      /\ x.facts = c.facts /\ x.aux = c.aux /\ x.docs = c.docs /\ x.tagIdx = c.tagIdx
      /\ x.catalog = c.catalog /\ x.next = c.next /\ x.space = c.space
      /\ x.nextEdge = n + 1
      /\ x.history = Put(c.history, n, r) /\ x.current = Put(c.current, e, n)
  BY DEF Opened, Shape, MemoryFields
<1>2. n \in Nat /\ n \notin DOMAIN c.history
  BY DEF Shape, GraphShape
<1> HIDE DEF x, n
<1>3. /\ DOMAIN x.history = DOMAIN c.history \cup {n} /\ x.history[n] = r
      /\ \A v \in DOMAIN c.history : x.history[v] = c.history[v]
  BY <1>1, <1>2 DEF Put
<1>4. /\ DOMAIN x.current = DOMAIN c.current \cup {e} /\ x.current[e] = n
      /\ \A f \in DOMAIN c.current : x.current[f] = c.current[f]
  BY <1>1 DEF Put
<1>5. r \in VersionShape /\ r.key = e /\ r.to = OpenEnd /\ r.from <= r.to
  BY EngineAssumption DEF VersionShape, Times, OpenEnd
<1> HIDE DEF r
<1>6. VerifyGraph(x)
  <2>1. \A f \in DOMAIN c.current : /\ c.current[f] \in DOMAIN c.history
                                    /\ c.history[c.current[f]].key = f
                                    /\ c.history[c.current[f]].to = OpenEnd
    BY DEF Shape, GraphShape, VerifyGraph
  <2>2. \A v \in DOMAIN c.history : c.history[v].to = OpenEnd =>
          c.history[v].key \in DOMAIN c.current /\ c.current[c.history[v].key] = v
    BY DEF Shape, GraphShape, VerifyGraph
  <2> QED BY <1>2, <1>3, <1>4, <1>5, <2>1, <2>2 DEF VerifyGraph
<1>7. GraphShape(x)
  <2>1. \A v \in DOMAIN c.history : /\ v \in Nat /\ v < n /\ c.history[v] \in VersionShape
                                    /\ c.history[v].from <= c.history[v].to
    BY DEF Shape, GraphShape, n
  <2>2. \A f \in DOMAIN c.current : f \in Edges /\ c.current[f] \in DOMAIN c.history
    BY DEF Shape, GraphShape
  <2> QED BY <1>1, <1>2, <1>3, <1>4, <1>5, <1>6, <2>1, <2>2 DEF GraphShape
<1> QED BY <1>1, <1>2, <1>3, <1>7 DEF Grown, GraphGrows, n, x

\* A memory with a grown graph is a memory.
LEMMA GrownShape ==
  ASSUME NEW m, Shape(m), NEW x, Grown(m, x) PROVE Shape(x)
BY DEF Shape, Grown, GraphGrows, FactsShape, IdsOf

\* open_edge ends at most one version and adds at most one.
LEMMA OpenEdgeGrows ==
  ASSUME NEW m, Shape(m), NEW e \in Edges, NEW now \in Times, NEW fact \in Nat \cup {NoFact}
  PROVE  Grown(m, OpenEdge(m, e, now, fact))
<1>1. CASE SameLink(m, e, fact)
  BY <1>1, GrownReflexive, OpenEdgeSteps
<1>2. CASE ~SameLink(m, e, fact)
  <2> DEFINE c == CloseEdge(m, e, now)
  <2>1. Grown(m, c) /\ Shape(c) /\ e \notin DOMAIN c.current
    BY CloseEdgeGrows, GrownShape, ClosedEdge
  <2>2. Grown(c, Opened(c, e, now, fact))
    BY <2>1, OpenedGrows
  <2>3. Grown(m, Opened(c, e, now, fact))
    BY <2>1, <2>2, GrownTransitive DEF Shape
  <2> QED BY <1>2, <2>3, OpenEdgeSteps
<1> QED BY <1>1, <1>2

\* A clock that has not moved back dates the versions in their order.
LEMMA CloseEdgeDated ==
  ASSUME NEW m, Shape(m), NEW e \in Edges, NEW now \in Times, Dated(m, now)
  PROVE  Dated(CloseEdge(m, e, now), now)
<1>1. CASE e \notin DOMAIN m.current
  BY <1>1 DEF CloseEdge
<1>2. CASE e \in DOMAIN m.current
  <2> DEFINE v == m.current[e]
             x == CloseEdge(m, e, now)
  <2>1. /\ v \in DOMAIN m.history /\ m.history[v] \in VersionShape
        /\ m.history[v].from <= now /\ m.history[v].to = OpenEnd
    BY <1>2 DEF Shape, GraphShape, VerifyGraph, Dated
  <2>2. CloseTime(m, e, now) = now
    BY <2>1 DEF CloseTime, VersionShape, Times
  <2>3. x.history = [m.history EXCEPT ![v].to = now]
    BY <1>2, <2>2 DEF CloseEdge, Shape, MemoryFields
  <2> HIDE DEF x
  <2>4. /\ DOMAIN x.history = DOMAIN m.history
        /\ x.history[v].from = m.history[v].from /\ x.history[v].to = now
        /\ x.history[v].key = m.history[v].key
        /\ \A w \in DOMAIN m.history : w # v => x.history[w] = m.history[w]
    BY <2>1, <2>3 DEF VersionShape
  <2>5. \A w \in DOMAIN m.history : v < w /\ m.history[v].key = m.history[w].key => FALSE
    \* its successor would begin after OpenEnd
    <3>1. SUFFICES ASSUME NEW w \in DOMAIN m.history, v < w, m.history[v].key = m.history[w].key
                   PROVE  FALSE
      OBVIOUS
    <3>2. OpenEnd <= m.history[w].from /\ m.history[w] \in VersionShape
      BY <2>1, <3>1 DEF Dated, Shape, GraphShape
    <3> QED BY <3>2, EngineAssumption DEF VersionShape, Times, OpenEnd
  <2>6. now \in Nat /\ \A w \in DOMAIN m.history : w \in Nat /\ m.history[w].from \in Nat
    BY EngineAssumption DEF Shape, GraphShape, VersionShape, Times
  <2> HIDE DEF v
  <2>7. \A w \in DOMAIN x.history :
          x.history[w].from <= now /\ (x.history[w].to # OpenEnd => x.history[w].to <= now)
    BY <2>1, <2>4, <2>6 DEF Dated
  <2>8. \A w, u \in DOMAIN x.history :
          w < u /\ x.history[w].key = x.history[u].key => x.history[w].to <= x.history[u].from
    BY <2>1, <2>4, <2>5 DEF Dated
  <2> QED BY <2>7, <2>8 DEF Dated, x
<1> QED BY <1>1, <1>2

\* A new version begins after the ended ones of its edge.
LEMMA OpenedDated ==
  ASSUME NEW c, Shape(c), NEW e \in Edges, e \notin DOMAIN c.current, NEW now \in Times,
         NEW fact, Dated(c, now)
  PROVE  Dated(Opened(c, e, now, fact), now)
<1> DEFINE x == Opened(c, e, now, fact)
           n == c.nextEdge
           r == [key |-> e, fact |-> fact, from |-> now, to |-> OpenEnd]
<1>1. x.history = Put(c.history, n, r)
  BY DEF Opened, Shape, MemoryFields
<1>2. n \in Nat /\ \A v \in DOMAIN c.history : v \in Nat /\ v < n
  BY DEF Shape, GraphShape
<1> HIDE DEF x, n
<1>3. /\ DOMAIN x.history = DOMAIN c.history \cup {n} /\ x.history[n] = r
      /\ \A v \in DOMAIN c.history : x.history[v] = c.history[v] /\ v # n
  BY <1>1, <1>2 DEF Put
<1>4. r.key = e /\ r.to = OpenEnd /\ r.from = now /\ now <= now
  BY DEF Times
<1> HIDE DEF r
\* Every version of the edge has ended.
<1>5. \A v \in DOMAIN c.history : c.history[v].key = e => c.history[v].to <= now
  BY DEF Shape, GraphShape, VerifyGraph, Dated
<1>6. \A w \in DOMAIN x.history :
        x.history[w].from <= now /\ (x.history[w].to # OpenEnd => x.history[w].to <= now)
  BY <1>3, <1>4 DEF Dated
<1>7. ASSUME NEW w \in DOMAIN x.history, NEW u \in DOMAIN x.history, w < u,
             x.history[w].key = x.history[u].key
      PROVE  x.history[w].to <= x.history[u].from
  <2>1. w \in DOMAIN c.history
    BY <1>2, <1>3, <1>7
  <2>2. CASE u = n BY <2>1, <2>2, <1>3, <1>4, <1>5, <1>7
  <2>3. CASE u # n BY <2>1, <2>3, <1>3, <1>7 DEF Dated
  <2> QED BY <2>2, <2>3
<1> QED BY <1>6, <1>7 DEF Dated, x

\* So open_edge keeps the versions in their order.
LEMMA OpenEdgeDated ==
  ASSUME NEW m, Shape(m), NEW e \in Edges, NEW now \in Times, NEW fact, Dated(m, now)
  PROVE  Dated(OpenEdge(m, e, now, fact), now)
<1>1. CASE SameLink(m, e, fact)
  BY <1>1, OpenEdgeSteps
<1>2. CASE ~SameLink(m, e, fact)
  <2> DEFINE c == CloseEdge(m, e, now)
  <2>1. Shape(c) /\ e \notin DOMAIN c.current /\ Dated(c, now)
    BY CloseEdgeGrows, GrownShape, ClosedEdge, CloseEdgeDated
  <2>2. Dated(Opened(c, e, now, fact), now)
    BY <2>1, OpenedDated
  <2> QED BY <1>2, <2>2, OpenEdgeSteps
<1> QED BY <1>1, <1>2

\* What was past stays past.
LEMMA DatedLater ==
  ASSUME NEW m, Shape(m), NEW now \in Times, NEW later \in Times, now <= later, Dated(m, now)
  PROVE  Dated(m, later)
<1>1. \A v \in DOMAIN m.history :
        /\ m.history[v].from \in Times
        /\ m.history[v].to # OpenEnd => m.history[v].to \in Times
  BY DEF Shape, GraphShape, VersionShape
<1> QED BY <1>1 DEF Dated, Times

\* The community modules' fold is the one SequenceFolds is about.
LEMMA LinksFold ==
  ASSUME NEW m, NEW l
  PROVE  FoldLeft(OpenLink, m, l) = Linking!Folded(m, l)
BY DEF FoldLeft, MapThenFoldSet, Max, Linking!Folded, Linking!Folds, Linking!TopOf

\* Links one after the other.
LEMMA LinksGrow ==
  ASSUME NEW m, Shape(m), NEW now \in Times, NEW fact \in Nat \cup {NoFact},
         NEW l \in Seq([op : {"Link"}, edge : Edges, now : {now}, fact : {fact}])
  PROVE  /\ Grown(m, FoldLeft(OpenLink, m, l))
         /\ Dated(m, now) => Dated(FoldLeft(OpenLink, m, l), now)
<1> DEFINE R == [op : {"Link"}, edge : Edges, now : {now}, fact : {fact}]
           Good(x) == Grown(m, x) /\ (Dated(m, now) => Dated(x, now))
           T == {k \in Seq(R) : Good(Linking!Folded(m, k))}
<1>1. <<>> \in T
  <2>1. <<>> \in Seq(R) OBVIOUS
  <2> QED BY <2>1, GrownReflexive, Linking!FoldEmpty
<1>2. ASSUME NEW k \in Seq(R), NEW r \in R, k \in T PROVE Append(k, r) \in T
  <2> DEFINE x == Linking!Folded(m, k)
             y == OpenEdge(x, r.edge, now, fact)
  <2>1. Linking!Folded(m, Append(k, r)) = y
    BY Linking!FoldAppend DEF OpenLink
  <2>2. Grown(m, x) /\ Shape(x)
    BY <1>2, GrownShape
  <2>3. Grown(x, y) /\ (Dated(x, now) => Dated(y, now))
    BY <2>2, OpenEdgeGrows, OpenEdgeDated
  <2>4. Grown(m, y)
    BY <2>2, <2>3, GrownTransitive DEF Shape
  <2>5. Append(k, r) \in Seq(R) OBVIOUS
  <2> QED BY <1>2, <2>1, <2>3, <2>4, <2>5
<1> HIDE DEF T
<1>3. l \in T BY <1>1, <1>2, Naturally!InductiveSeq
<1> QED BY <1>3, LinksFold DEF T

\* The links before one that cannot be made, as the journal would have them.
LEMMA LinksOf ==
  ASSUME NEW m, NEW links \in Seq(Edges \cup {BadName}), NEW now
  PROVE  \E l \in Seq([op : {"Link"}, edge : Edges, now : {now}, fact : {m.next}]) :
           OpenLinks(m, links, now) = FoldLeft(OpenLink, m, l)
<1> DEFINE upTo == SelectInSeq(links, LAMBDA e : e = BadName)
           done == IF upTo = 0 THEN links ELSE SubSeq(links, 1, upTo - 1)
           bad  == {i \in 1..Len(links) : links[i] = BadName}
<1>1. done \in Seq(Edges)
  <2>1. CASE bad = {}
    <3>1. upTo = 0 BY <2>1 DEF SelectInSeq
    <3>2. \A i \in 1..Len(links) : links[i] \in Edges BY <2>1
    <3> QED BY <3>1, <3>2
  <2>2. CASE bad # {}
    <3>1. upTo = Min(bad) BY <2>2 DEF SelectInSeq
    <3>2. bad \subseteq Nat OBVIOUS
    <3>3. \E n \in bad : \A i \in bad : n <= i BY <2>2, <3>2, Naturally!LeastNatural
    <3>4. upTo \in bad /\ \A i \in bad : upTo <= i BY <3>1, <3>3 DEF Min
    <3>5. upTo \in Nat /\ upTo # 0 /\ upTo <= Len(links) BY <3>4
    <3> HIDE DEF upTo
    <3>6. \A i \in 1..upTo - 1 : links[i] \in Edges BY <3>4, <3>5
    <3>7. SubSeq(links, 1, upTo - 1) \in Seq(Edges) BY <3>5, <3>6, SubSeqProperties
    <3> QED BY <3>5, <3>7
  <2> QED BY <2>1, <2>2
<1> HIDE DEF done
<1> DEFINE l == [i \in DOMAIN done |-> LinkOp(done[i], now, m.next)]
           R == [op : {"Link"}, edge : Edges, now : {now}, fact : {m.next}]
<1>2. l \in Seq(R)
  <2>1. Len(done) \in Nat /\ DOMAIN done = 1..Len(done) /\ \A i \in DOMAIN done : done[i] \in Edges
    BY <1>1
  <2>2. \A e \in Edges : LinkOp(e, now, m.next) \in R BY DEF LinkOp
  <2> HIDE DEF R
  <2>3. l \in [1..Len(done) -> R] BY <2>1, <2>2
  <2> QED BY <2>1, <2>3
<1>3. OpenLinks(m, links, now) = FoldLeft(OpenLink, m, l)
  BY DEF OpenLinks, done
<1> QED BY <1>2, <1>3

\* So the links of one remember change nothing but the graph.
LEMMA OpenLinksGrow ==
  ASSUME NEW m, Shape(m), NEW links \in Seq(Edges \cup {BadName}), NEW now \in Times
  PROVE  /\ Grown(m, OpenLinks(m, links, now))
         /\ Dated(m, now) => Dated(OpenLinks(m, links, now), now)
<1>1. PICK l \in Seq([op : {"Link"}, edge : Edges, now : {now}, fact : {m.next}]) :
        OpenLinks(m, links, now) = FoldLeft(OpenLink, m, l)
  BY LinksOf
<1>2. m.next \in Nat \cup {NoFact} BY DEF Shape, FactsShape
<1> QED BY <1>1, <1>2, LinksGrow

\* Memories with the same graph.
SameGraph(m, x) == x.history = m.history /\ x.current = m.current /\ x.nextEdge = m.nextEdge

\* They agree on everything about it.
LEMMA SameGraphShape ==
  ASSUME NEW m, NEW x, GraphShape(m), SameGraph(m, x)
  PROVE  GraphShape(x) /\ \A now : Dated(m, now) => Dated(x, now)
BY DEF GraphShape, SameGraph, VerifyGraph, Dated

-----------------------------------------------------------------------------
(* The facts.                                                              *)

\* A remember's or a revise's arguments.
Wanted == Inputs(Seq(Edges \cup {BadName}), Vectors)

Pushed(m, T) == PushTags(IndexDoc(m), T)

\* Indexing the text and pushing the tags, field by field.
LEMMA PushedFields ==
  ASSUME NEW m, Shape(m), NEW T \in SUBSET Tags
  PROVE  /\ DOMAIN Pushed(m, T) = MemoryFields
         /\ Pushed(m, T).facts = m.facts /\ Pushed(m, T).catalog = m.catalog
         /\ Pushed(m, T).next = m.next /\ Pushed(m, T).space = m.space
         /\ Pushed(m, T).docs = Append(m.docs, m.next)
         /\ m.next \in DOMAIN m.aux => Pushed(m, T).aux = m.aux
         /\ m.next \notin DOMAIN m.aux => Pushed(m, T).aux = Put(m.aux, m.next, T)
         /\ Pushed(m, T).tagIdx = [t \in Tags |-> IF t \in T THEN Append(m.tagIdx[t], m.next)
                                                  ELSE m.tagIdx[t]]
         /\ SameGraph(m, Pushed(m, T))
         /\ Shape(Pushed(m, T))
<1> DEFINE x == Pushed(m, T)
<1>1. DOMAIN m = MemoryFields /\ m.next \in Nat
  BY DEF Shape, FactsShape
<1>2. /\ DOMAIN x = MemoryFields
      /\ x.facts = m.facts /\ x.catalog = m.catalog /\ x.next = m.next /\ x.space = m.space
      /\ x.docs = Append(m.docs, m.next)
      /\ x.aux = IF m.next \in DOMAIN m.aux THEN m.aux ELSE Put(m.aux, m.next, T)
      /\ x.tagIdx = [t \in Tags |-> IF t \in T THEN Append(m.tagIdx[t], m.next)
                                    ELSE m.tagIdx[t]]
      /\ SameGraph(m, x)
  BY <1>1 DEF Pushed, PushTags, IndexDoc, MemoryFields, SameGraph
<1> HIDE DEF x
<1>3. GraphShape(x)
  BY <1>2, SameGraphShape DEF Shape
<1>4. x.docs \in Seq(Nat) /\ DOMAIN x.tagIdx = Tags /\ \A t \in Tags : x.tagIdx[t] \in Seq(Nat)
  BY <1>1, <1>2 DEF Shape, FactsShape
<1>5. /\ DOMAIN m.aux \subseteq DOMAIN x.aux
      /\ \A id \in DOMAIN x.aux : id \in Nat /\ id <= m.next /\ x.aux[id] \in SUBSET Tags
  <2>1. \A id \in DOMAIN m.aux : id \in Nat /\ id <= m.next /\ m.aux[id] \in SUBSET Tags
    BY DEF Shape, FactsShape
  <2>2. CASE m.next \in DOMAIN m.aux BY <1>2, <2>1, <2>2
  <2>3. CASE m.next \notin DOMAIN m.aux BY <1>1, <1>2, <2>1, <2>3 DEF Put
  <2> QED BY <2>2, <2>3
<1>6. FactsShape(x)
  BY <1>2, <1>4, <1>5 DEF Shape, FactsShape, IdsOf
<1> QED BY <1>2, <1>3, <1>6 DEF Shape, x

\* A tag set that is there stays.
LEMMA PushedAux ==
  ASSUME NEW m, Shape(m), NEW T \in SUBSET Tags
  PROVE  \A id \in DOMAIN m.aux : Pushed(m, T).aux[id] = m.aux[id]
BY DEF Pushed, PushTags, IndexDoc, Shape, MemoryFields, Put

\* What a remember or a revise leaves of every field.
Remembered(m, x, in, revises) ==
  /\ DOMAIN x = MemoryFields
  /\ x.facts = Put(m.facts, m.next, [revises |-> revises, from |-> in.from,
                                     to |-> OpenEnd, tomb |-> FALSE, vec |-> in.vec])
  /\ x.aux = IF m.next \in DOMAIN m.aux THEN m.aux ELSE Put(m.aux, m.next, in.tags)
  /\ x.docs = Append(m.docs, m.next)
  /\ x.tagIdx = [t \in Tags |-> IF t \in in.tags THEN Append(m.tagIdx[t], m.next)
                                ELSE m.tagIdx[t]]
  /\ x.catalog = Counted(m.catalog, in.tags)
  /\ x.next = m.next + 1 /\ x.space = m.space
  /\ GraphGrows(m, x)
  /\ Dated(m, in.now) => Dated(x, in.now)

\* apply_remember does that.
LEMMA RememberFields ==
  ASSUME NEW m, Shape(m), NEW in \in Wanted, NEW revises
  PROVE  Remembered(m, ApplyRemember(m, in, revises), in, revises)
<1> DEFINE p == Pushed(m, in.tags)
           l == OpenLinks(p, in.links, in.now)
           x == ApplyRemember(m, in, revises)
<1>1. in.tags \in SUBSET Tags /\ in.links \in Seq(Edges \cup {BadName}) /\ in.now \in Times
  BY DEF Wanted, Inputs
<1>2. Shape(p) /\ SameGraph(m, p)
  BY <1>1, PushedFields
<1>3. Grown(p, l) /\ (Dated(p, in.now) => Dated(l, in.now))
  BY <1>1, <1>2, OpenLinksGrow
<1>4. SameGraph(l, x) /\ DOMAIN x = MemoryFields /\ x.docs = l.docs /\ x.tagIdx = l.tagIdx
      /\ x.aux = l.aux /\ x.space = l.space
      /\ x.facts = Put(l.facts, m.next, [revises |-> revises, from |-> in.from,
                                         to |-> OpenEnd, tomb |-> FALSE, vec |-> in.vec])
      /\ x.catalog = Counted(l.catalog, in.tags) /\ x.next = m.next + 1
  <2>1. DOMAIN l = MemoryFields BY <1>3 DEF Grown
  <2>2. x = [l EXCEPT !.facts = Put(l.facts, m.next, [revises |-> revises, from |-> in.from,
                                         to |-> OpenEnd, tomb |-> FALSE, vec |-> in.vec]),
                      !.catalog = Counted(l.catalog, in.tags),
                      !.next = m.next + 1]
    BY DEF ApplyRemember, Pushed, NextFact
  <2> HIDE DEF x, l
  <2> QED BY <2>1, <2>2 DEF MemoryFields, SameGraph
<1> HIDE DEF x, l, p
<1>5. GraphGrows(m, x)
  <2>1. GraphShape(x) BY <1>3, <1>4, SameGraphShape DEF Grown, GraphGrows
  <2> QED BY <2>1, <1>2, <1>3, <1>4 DEF Grown, GraphGrows, SameGraph
<1>6. Dated(m, in.now) => Dated(x, in.now)
  <2>1. Dated(m, in.now) => Dated(p, in.now) BY <1>2, SameGraphShape DEF Shape
  <2>2. Dated(l, in.now) => Dated(x, in.now)
    BY <1>3, <1>4, SameGraphShape DEF Grown, GraphGrows
  <2> QED BY <1>3, <2>1, <2>2
<1>7. /\ l.facts = m.facts /\ l.catalog = m.catalog /\ l.space = m.space
      /\ l.docs = Append(m.docs, m.next)
      /\ l.aux = IF m.next \in DOMAIN m.aux THEN m.aux ELSE Put(m.aux, m.next, in.tags)
      /\ l.tagIdx = [t \in Tags |-> IF t \in in.tags THEN Append(m.tagIdx[t], m.next)
                                    ELSE m.tagIdx[t]]
  BY <1>1, <1>3, PushedFields DEF Grown, p
<1> QED BY <1>4, <1>5, <1>6, <1>7 DEF Remembered, x

\* Which is a memory.
LEMMA RememberShape ==
  ASSUME NEW m, Shape(m), NEW in \in Wanted, NEW revises \in Nat \cup {NoFact}, NEW x,
         Remembered(m, x, in, revises)
  PROVE  Shape(x)
<1>1. in.tags \in SUBSET Tags /\ in.from \in Times /\ in.vec \in Vectors
  BY DEF Wanted, Inputs
<1>2. m.next \in Nat /\ m.next \notin IdsOf(m) /\ x.next = m.next + 1
  BY DEF Shape, FactsShape, Remembered
<1> DEFINE r == [revises |-> revises, from |-> in.from, to |-> OpenEnd, tomb |-> FALSE,
                 vec |-> in.vec]
<1>3. r \in FactShape
  BY <1>1 DEF FactShape
<1> HIDE DEF r
<1>4. /\ IdsOf(x) = IdsOf(m) \cup {m.next} /\ x.facts[m.next] = r
      /\ \A id \in IdsOf(m) : x.facts[id] = m.facts[id]
  BY <1>2 DEF Remembered, Put, IdsOf, r
<1>5. /\ DOMAIN x.aux = DOMAIN m.aux \cup {m.next}
      /\ \A id \in DOMAIN x.aux : x.aux[id] = m.aux[id] \/ x.aux[id] = in.tags
      /\ \A id \in DOMAIN m.aux : x.aux[id] = m.aux[id]
  BY DEF Remembered, Put
<1>6. x.docs \in Seq(Nat) /\ DOMAIN x.tagIdx = Tags /\ \A t \in Tags : x.tagIdx[t] \in Seq(Nat)
  BY <1>2 DEF Shape, FactsShape, Remembered
<1>7. DOMAIN x.catalog = Tags /\ \A t \in Tags : x.catalog[t] \in Nat
  BY DEF Shape, FactsShape, Remembered, Counted
<1>8. \A id \in IdsOf(x) : id \in Nat /\ id < x.next /\ x.facts[id] \in FactShape /\ id \in DOMAIN x.aux
  BY <1>2, <1>3, <1>4, <1>5 DEF Shape, FactsShape
<1>9. \A id \in DOMAIN x.aux : id \in Nat /\ id <= x.next /\ x.aux[id] \in SUBSET Tags
  <2>1. \A id \in DOMAIN m.aux : id \in Nat /\ id <= m.next /\ m.aux[id] \in SUBSET Tags
    BY DEF Shape, FactsShape
  <2>2. m.next \in DOMAIN m.aux => x.aux[m.next] \in SUBSET Tags BY <2>1, <1>5
  <2>3. m.next \notin DOMAIN m.aux => x.aux[m.next] = in.tags BY DEF Remembered, Put
  <2> QED BY <1>1, <1>2, <1>5, <2>1, <2>2, <2>3
<1>10. FactsShape(x)
  <2>1. x.next \in Nat /\ x.space \in Spaces \cup {NoSpace}
    BY <1>2 DEF Remembered, Shape, FactsShape
  <2> QED BY <1>6, <1>7, <1>8, <1>9, <2>1 DEF FactsShape
<1> QED BY <1>10 DEF Shape, Remembered, GraphGrows

\* A memory in which nothing but facts and the catalog's counts changed, no fact
\* came or went and the counts are numbers still.
Revalued(m, x) ==
  /\ DOMAIN x = MemoryFields
  /\ IdsOf(x) = IdsOf(m)
  /\ x.aux = m.aux /\ x.docs = m.docs /\ x.tagIdx = m.tagIdx /\ x.next = m.next
  /\ x.space = m.space /\ SameGraph(m, x)

\* It is a memory if its facts and counts are.
LEMMA RevaluedShape ==
  ASSUME NEW m, Shape(m), NEW x, Revalued(m, x),
         \A id \in IdsOf(m) : x.facts[id] \in FactShape,
         DOMAIN x.catalog = Tags, \A t \in Tags : x.catalog[t] \in Nat
  PROVE  Shape(x)
<1>1. GraphShape(x) BY SameGraphShape DEF Shape, Revalued
<1>2. FactsShape(x) BY DEF Shape, FactsShape, Revalued
<1> QED BY <1>1, <1>2 DEF Shape, Revalued

\* The counts do not go below zero.
LEMMA DiscountedShape ==
  ASSUME NEW m, Shape(m), NEW T, NEW n \in Nat
  PROVE  /\ DOMAIN Discounted(m.catalog, T, n) = Tags
         /\ \A t \in Tags : Discounted(m.catalog, T, n)[t] \in Nat
BY DEF Shape, FactsShape, Discounted

\* The target's end is all that closing it changes, and the counts of its tags.
LEMMA CloseTargetFields ==
  ASSUME NEW m, Shape(m), NEW id \in IdsOf(m), NEW at \in Times
  PROVE  LET x == CloseTarget(m, id, at)
         IN  /\ Revalued(m, x) /\ Shape(x)
             /\ \A i \in IdsOf(m) : x.facts[i] = IF i = id THEN [m.facts[id] EXCEPT !.to = at]
                                              ELSE m.facts[i]
             /\ x.catalog = Discounted(m.catalog, m.aux[id], 1)
<1> DEFINE x == CloseTarget(m, id, at)
<1>1. /\ DOMAIN x = MemoryFields
      /\ x.facts = [m.facts EXCEPT ![id].to = at]
      /\ x.catalog = Discounted(m.catalog, m.aux[id], 1)
      /\ x.aux = m.aux /\ x.docs = m.docs /\ x.tagIdx = m.tagIdx /\ x.next = m.next
      /\ x.space = m.space /\ SameGraph(m, x)
  BY DEF CloseTarget, Shape, MemoryFields, SameGraph
<1> HIDE DEF x
<1>2. Revalued(m, x)
  BY <1>1 DEF Revalued, IdsOf
<1>3. \A i \in IdsOf(m) : m.facts[i] \in FactShape
  BY DEF Shape, FactsShape
<1>4. \A i \in IdsOf(m) : x.facts[i] \in FactShape
  BY <1>1, <1>3 DEF FactShape, IdsOf
<1>5. DOMAIN x.catalog = Tags /\ \A t \in Tags : x.catalog[t] \in Nat
  <2> DEFINE c == Discounted(m.catalog, m.aux[id], 1)
  <2>1. DOMAIN c = Tags /\ \A t \in Tags : c[t] \in Nat BY DiscountedShape
  <2> HIDE DEF c
  <2>2. x.catalog = c BY <1>1 DEF c
  <2> QED BY <2>1, <2>2
<1>6. Shape(x)
  BY <1>2, <1>4, <1>5, RevaluedShape
<1> QED BY <1>1, <1>2, <1>6 DEF x, IdsOf

\* apply_forget: the tombstone, and the counts of a current fact.
LEMMA ForgetFields ==
  ASSUME NEW m, Shape(m), NEW id \in IdsOf(m)
  PROVE  LET x == ApplyForget(m, id)
         IN  /\ Revalued(m, x) /\ Shape(x)
             /\ \A i \in IdsOf(m) : x.facts[i] = IF i = id THEN [m.facts[id] EXCEPT !.tomb = TRUE]
                                              ELSE m.facts[i]
             /\ x.catalog = IF IsCurrent(m.facts[id]) THEN Discounted(m.catalog, m.aux[id], 1)
                            ELSE m.catalog
<1> DEFINE x == ApplyForget(m, id)
<1>0. \A i \in IdsOf(m) : m.facts[i] \in FactShape
  BY DEF Shape, FactsShape
<1>1. CASE m.facts[id].tomb
  <2>1. x = m BY <1>1 DEF ApplyForget
  <2>2. [m.facts[id] EXCEPT !.tomb = TRUE] = m.facts[id] BY <1>0, <1>1 DEF FactShape
  <2>4. Revalued(m, m) BY DEF Revalued, SameGraph, Shape
  <2> QED BY <1>1, <2>1, <2>2, <2>4 DEF IsCurrent
<1>2. CASE ~m.facts[id].tomb
  <2>1. /\ DOMAIN x = MemoryFields
        /\ x.facts = [m.facts EXCEPT ![id].tomb = TRUE]
        /\ x.catalog = IF IsCurrent(m.facts[id]) THEN Discounted(m.catalog, m.aux[id], 1)
                       ELSE m.catalog
        /\ x.aux = m.aux /\ x.docs = m.docs /\ x.tagIdx = m.tagIdx /\ x.next = m.next
        /\ x.space = m.space /\ SameGraph(m, x)
    BY <1>2 DEF ApplyForget, IsCurrent, Shape, MemoryFields, SameGraph
  <2> HIDE DEF x
  <2>2. Revalued(m, x)
    BY <2>1 DEF Revalued, IdsOf
  <2>3. \A i \in IdsOf(m) : x.facts[i] \in FactShape
    BY <2>1, <1>0 DEF FactShape, IdsOf
  <2>4. DOMAIN x.catalog = Tags /\ \A t \in Tags : x.catalog[t] \in Nat
    <3> DEFINE c == Discounted(m.catalog, m.aux[id], 1)
    <3>0. DOMAIN c = Tags /\ \A t \in Tags : c[t] \in Nat BY DiscountedShape
    <3> HIDE DEF c
    <3>1. CASE IsCurrent(m.facts[id])
      <4>1. x.catalog = c BY <2>1, <3>1 DEF c
      <4> QED BY <3>0, <4>1
    <3>2. CASE ~IsCurrent(m.facts[id]) BY <2>1, <3>2 DEF Shape, FactsShape
    <3> QED BY <3>1, <3>2
  <2>5. Shape(x)
    BY <2>2, <2>3, <2>4, RevaluedShape
  <2> QED BY <2>1, <2>2, <2>5 DEF x, IdsOf
<1> QED BY <1>1, <1>2

\* claim_vector_space records a space, and no more.
LEMMA SetSpaceShape ==
  ASSUME NEW m, Shape(m), NEW s \in Spaces
  PROVE  Shape([m EXCEPT !.space = s])
<1> DEFINE x == [m EXCEPT !.space = s]
<1>1. /\ DOMAIN x = MemoryFields /\ x.space = s
      /\ x.facts = m.facts /\ x.aux = m.aux /\ x.docs = m.docs /\ x.tagIdx = m.tagIdx
      /\ x.next = m.next /\ x.catalog = m.catalog /\ SameGraph(m, x)
  BY DEF Shape, MemoryFields, SameGraph
<1> HIDE DEF x
<1>2. GraphShape(x) BY <1>1, SameGraphShape DEF Shape
<1>3. FactsShape(x) BY <1>1 DEF Shape, FactsShape, IdsOf
<1> QED BY <1>1, <1>2, <1>3 DEF Shape, x

\* reembed_apply gives every retained fact another vector.
LEMMA ReembeddedShape ==
  ASSUME NEW m, Shape(m), NEW s \in Spaces
  PROVE  Shape(Reembedded(m, s))
<1> DEFINE x == Reembedded(m, s)
<1>1. /\ DOMAIN x = MemoryFields /\ x.space = s
      /\ x.facts = [id \in IdsOf(m) |->
                      [m.facts[id] EXCEPT !.vec = IF m.facts[id].tomb THEN NoVector ELSE s]]
      /\ x.aux = m.aux /\ x.docs = m.docs /\ x.tagIdx = m.tagIdx
      /\ x.next = m.next /\ x.catalog = m.catalog /\ SameGraph(m, x)
  BY DEF Reembedded, Shape, MemoryFields, SameGraph
<1> HIDE DEF x
<1>2. GraphShape(x) BY <1>1, SameGraphShape DEF Shape
<1>3. \A id \in IdsOf(m) : m.facts[id] \in FactShape BY DEF Shape, FactsShape
<1>4. IdsOf(x) = IdsOf(m) /\ \A id \in IdsOf(m) : x.facts[id] \in FactShape
  BY <1>1, <1>3 DEF IdsOf, FactShape, Vectors
<1>5. FactsShape(x) BY <1>1, <1>4 DEF Shape, FactsShape
<1> QED BY <1>1, <1>2, <1>5 DEF Shape, x

\* remove_tag's successors: the ids they get, and the fact each succeeds.
NewIds(m, tag) == m.next..m.next + Len(RemoveTagTargets(m, tag)) - 1
Succeeded(m, tag, id) == RemoveTagTargets(m, tag)[id - m.next + 1]
LeftTags(m, tag, id)  == m.aux[Succeeded(m, tag, id)] \ {tag}

\* The replaced facts are current facts.
LEMMA TargetsAreCurrent ==
  ASSUME NEW m, Shape(m), NEW tag \in Tags
  PROVE  /\ RemoveTagTargets(m, tag) \in Seq({id \in IdsOf(m) : Revisable(m, id)})
         /\ Len(RemoveTagTargets(m, tag)) \in Nat
         /\ \A id \in NewIds(m, tag) :
              /\ id \in Nat /\ id >= m.next /\ id < m.next + Len(RemoveTagTargets(m, tag))
              /\ Succeeded(m, tag, id) \in IdsOf(m) /\ Revisable(m, Succeeded(m, tag, id))
<1> DEFINE S == {id \in IdsOf(m) : Revisable(m, id)}
           targets == RemoveTagTargets(m, tag)
<1>1. m.tagIdx[tag] \in Seq(Nat) /\ m.next \in Nat
  BY DEF Shape, FactsShape
<1>2. targets \in Seq(S)
  BY <1>1, KeepSeq DEF RemoveTagTargets
<1> HIDE DEF targets
<1>3. Len(targets) \in Nat /\ \A i \in 1..Len(targets) : targets[i] \in S
  BY <1>2
<1>4. \A id \in m.next..m.next + Len(targets) - 1 :
        /\ id \in Nat /\ id >= m.next /\ id < m.next + Len(targets)
        /\ id - m.next + 1 \in 1..Len(targets)
  BY <1>1, <1>3
<1> QED BY <1>2, <1>3, <1>4 DEF NewIds, Succeeded, targets

\* What remove_tag leaves of every field.
Retagged(m, x, now, tag) ==
  /\ DOMAIN x = MemoryFields
  /\ IdsOf(x) = IdsOf(m) \cup NewIds(m, tag)
  /\ \A id \in NewIds(m, tag) : x.facts[id] = Successor(m, now, Succeeded(m, tag, id))
  /\ \A id \in IdsOf(m) : x.facts[id] = IF id \in ToSet(RemoveTagTargets(m, tag))
                                        THEN [m.facts[id] EXCEPT !.to = now] ELSE m.facts[id]
  /\ DOMAIN x.aux = DOMAIN m.aux \cup NewIds(m, tag)
  /\ \A id \in DOMAIN m.aux : x.aux[id] = m.aux[id]
  /\ \A id \in NewIds(m, tag) \ DOMAIN m.aux : x.aux[id] = LeftTags(m, tag, id)
  /\ LET ids == [i \in 1..Len(RemoveTagTargets(m, tag)) |-> m.next + i - 1]
     IN  /\ x.docs = m.docs \o ids
         /\ x.tagIdx = [t \in Tags |-> m.tagIdx[t]
                          \o KeepIn(ids, {id \in NewIds(m, tag) : t \in LeftTags(m, tag, id)})]
  /\ x.catalog = Discounted(m.catalog, {tag}, Len(RemoveTagTargets(m, tag)))
  /\ x.next = m.next + Len(RemoveTagTargets(m, tag))
  /\ x.space = m.space /\ SameGraph(m, x)

\* apply_remove_tag does that.
LEMMA RemoveTagFields ==
  ASSUME NEW m, Shape(m), NEW tag \in Tags, NEW now
  PROVE  Retagged(m, ApplyRemoveTag(m, now, tag), now, tag)
<1> DEFINE x == ApplyRemoveTag(m, now, tag)
           targets == RemoveTagTargets(m, tag)
           n == Len(targets)
           new == NewIds(m, tag)
           ids == [i \in 1..n |-> m.next + i - 1]
<1>1. \A id \in IdsOf(m) : id \notin new
  <2>1. \A id \in IdsOf(m) : id \in Nat /\ id < m.next /\ m.next \in Nat BY DEF Shape, FactsShape
  <2>2. \A id \in new : id \in Nat /\ id >= m.next BY TargetsAreCurrent
  <2> QED BY <2>1, <2>2
<1>2. /\ DOMAIN x = MemoryFields
      /\ x.facts = [id \in IdsOf(m) \cup new |->
                      IF id \in new THEN Successor(m, now, Succeeded(m, tag, id))
                      ELSE IF id \in ToSet(targets) THEN [m.facts[id] EXCEPT !.to = now]
                      ELSE m.facts[id]]
      /\ x.aux = [id \in DOMAIN m.aux \cup new |->
                    IF id \in DOMAIN m.aux THEN m.aux[id] ELSE LeftTags(m, tag, id)]
      /\ x.docs = m.docs \o ids
      /\ x.tagIdx = [t \in Tags |-> m.tagIdx[t]
                       \o KeepIn(ids, {id \in new : t \in LeftTags(m, tag, id)})]
      /\ x.catalog = Discounted(m.catalog, {tag}, n)
      /\ x.next = m.next + n
      /\ x.space = m.space /\ SameGraph(m, x)
  BY DEF ApplyRemoveTag, Shape, MemoryFields, SameGraph, NewIds, Succeeded, LeftTags
<1> HIDE DEF x, new
<1> QED BY <1>1, <1>2 DEF Retagged, IdsOf, x, new

\* Which is a memory.
LEMMA RemoveTagShape ==
  ASSUME NEW m, Shape(m), NEW tag \in Tags, NEW now \in Times, NEW x, Retagged(m, x, now, tag)
  PROVE  Shape(x)
<1> DEFINE n == Len(RemoveTagTargets(m, tag))
           new == NewIds(m, tag)
           ids == [i \in 1..n |-> m.next + i - 1]
<1>1. m.next \in Nat /\ n \in Nat
  BY TargetsAreCurrent DEF Shape, FactsShape
<1>2. \A id \in new : id \in Nat /\ id >= m.next /\ id < m.next + n
                      /\ Succeeded(m, tag, id) \in IdsOf(m)
  BY TargetsAreCurrent
<1>3. \A id \in IdsOf(m) : id \in Nat /\ id < m.next /\ m.facts[id] \in FactShape
                           /\ id \in DOMAIN m.aux
  BY DEF Shape, FactsShape
<1>4. ids \in Seq(Nat)
  BY <1>1
<1> HIDE DEF ids, new
<1>5. x.docs \in Seq(Nat)
  <2>1. m.docs \in Seq(Nat) BY DEF Shape, FactsShape
  <2>2. x.docs = m.docs \o ids BY DEF Retagged, ids
  <2> QED BY <1>4, <2>1, <2>2
<1>6. DOMAIN x.tagIdx = Tags /\ \A t \in Tags : x.tagIdx[t] \in Seq(Nat)
  <2>1. x.tagIdx = [t \in Tags |-> m.tagIdx[t] \o KeepIn(ids, {id \in new : t \in LeftTags(m, tag, id)})]
    BY DEF Retagged, ids, new
  <2>2. ASSUME NEW t \in Tags PROVE x.tagIdx[t] \in Seq(Nat)
    <3>1. m.tagIdx[t] \in Seq(Nat) BY DEF Shape, FactsShape
    <3>2. KeepIn(ids, {id \in new : t \in LeftTags(m, tag, id)}) \in Seq(Nat)
      BY <1>4, KeepSeq
    <3> QED BY <2>1, <3>1, <3>2
  <2> QED BY <2>1, <2>2
<1>7. DOMAIN x.catalog = Tags /\ \A t \in Tags : x.catalog[t] \in Nat
  <2> DEFINE c == Discounted(m.catalog, {tag}, n)
  <2>1. DOMAIN c = Tags /\ \A t \in Tags : c[t] \in Nat BY <1>1, DiscountedShape
  <2> HIDE DEF c
  <2>2. x.catalog = c BY DEF Retagged, c
  <2> QED BY <2>1, <2>2
<1>8. \A id \in IdsOf(x) : id \in Nat /\ id < x.next /\ x.facts[id] \in FactShape /\ id \in DOMAIN x.aux
  <2>1. IdsOf(x) = IdsOf(m) \cup new /\ x.next = m.next + n /\ DOMAIN x.aux = DOMAIN m.aux \cup new
    BY DEF Retagged, new
  <2>2. \A id \in IdsOf(m) : x.facts[id] \in FactShape
    <3>1. \A f \in FactShape : [f EXCEPT !.to = now] \in FactShape BY DEF FactShape
    <3> QED BY <1>3, <3>1 DEF Retagged
  <2>3. \A id \in new : x.facts[id] \in FactShape
    <3>1. \A id \in new : x.facts[id] = Successor(m, now, Succeeded(m, tag, id))
      BY DEF Retagged, new
    <3>2. \A i \in IdsOf(m) : Successor(m, now, i) \in FactShape
      BY <1>3 DEF Successor, FactShape
    <3> QED BY <1>2, <3>1, <3>2
  <2> QED BY <1>1, <1>2, <1>3, <2>1, <2>2, <2>3
<1>9. \A id \in DOMAIN x.aux : id \in Nat /\ id <= x.next /\ x.aux[id] \in SUBSET Tags
  <2>1. \A id \in DOMAIN m.aux : id \in Nat /\ id <= m.next /\ m.aux[id] \in SUBSET Tags
    BY DEF Shape, FactsShape
  <2>2. /\ DOMAIN x.aux = DOMAIN m.aux \cup new /\ x.next = m.next + n
        /\ \A id \in DOMAIN m.aux : x.aux[id] = m.aux[id]
        /\ \A id \in new \ DOMAIN m.aux : x.aux[id] = LeftTags(m, tag, id)
    BY DEF Retagged, new
  <2>3. \A id \in new : LeftTags(m, tag, id) \in SUBSET Tags
    BY <1>2, <1>3, <2>1 DEF LeftTags
  <2> QED BY <1>1, <1>2, <2>1, <2>2, <2>3
<1>10. x.next \in Nat /\ x.space \in Spaces \cup {NoSpace}
  BY <1>1 DEF Retagged, Shape, FactsShape
<1>11. FactsShape(x)
  BY <1>5, <1>6, <1>7, <1>8, <1>9, <1>10 DEF FactsShape
<1>12. GraphShape(x)
  BY SameGraphShape DEF Shape, Retagged
<1> QED BY <1>11, <1>12 DEF Shape, Retagged

\* What a purge leaves of every field.
LEMMA PurgeFields ==
  ASSUME NEW m, Shape(m)
  PROVE  LET x == Purge(m)
             live == {id \in IdsOf(m) : ~m.facts[id].tomb}
         IN  /\ DOMAIN x = MemoryFields
             /\ IdsOf(x) = live /\ \A id \in live : x.facts[id] = m.facts[id]
             /\ DOMAIN x.aux = live /\ \A id \in live : x.aux[id] = m.aux[id]
             /\ x.docs = KeepIn(m.docs, live)
             /\ x.tagIdx = [t \in Tags |-> Ascending({id \in live : t \in m.aux[id]}, m.next)]
             /\ x.catalog = m.catalog /\ x.next = m.next /\ x.space = m.space
             /\ SameGraph(m, x)
BY DEF Purge, Shape, MemoryFields, SameGraph, Restrict, IdsOf

\* An ascending list of ids.
LEMMA AscendingSeq ==
  ASSUME NEW S, NEW n \in Nat
  PROVE  Ascending(S, n) \in Seq(Nat) /\ Ascending(S, n) \in Seq(S)
<1>1. [i \in 1..n |-> i - 1] \in Seq(Nat) OBVIOUS
<1> QED BY <1>1, KeepSeq DEF Ascending

\* A purged memory is a memory.
LEMMA PurgeShape ==
  ASSUME NEW m, Shape(m)
  PROVE  Shape(Purge(m))
<1> DEFINE x == Purge(m)
           live == {id \in IdsOf(m) : ~m.facts[id].tomb}
<1>1. /\ DOMAIN x = MemoryFields
      /\ IdsOf(x) = live /\ \A id \in live : x.facts[id] = m.facts[id]
      /\ DOMAIN x.aux = live /\ \A id \in live : x.aux[id] = m.aux[id]
      /\ x.docs = KeepIn(m.docs, live)
      /\ x.tagIdx = [t \in Tags |-> Ascending({id \in live : t \in m.aux[id]}, m.next)]
      /\ x.catalog = m.catalog /\ x.next = m.next /\ x.space = m.space
      /\ SameGraph(m, x)
  BY PurgeFields
<1> HIDE DEF x
<1>2. m.next \in Nat /\ m.docs \in Seq(Nat) BY DEF Shape, FactsShape
<1>3. x.docs \in Seq(Nat) BY <1>1, <1>2, KeepSeq
<1>4. DOMAIN x.tagIdx = Tags /\ \A t \in Tags : x.tagIdx[t] \in Seq(Nat)
  BY <1>1, <1>2, AscendingSeq
<1>5. FactsShape(x)
  BY <1>1, <1>3, <1>4 DEF Shape, FactsShape
<1>6. GraphShape(x) BY <1>1, SameGraphShape DEF Shape
<1> QED BY <1>1, <1>5, <1>6 DEF Shape, x

\* A remember refused half-way leaves a memory too.
LEMMA HalfRememberedShape ==
  ASSUME NEW m, Shape(m), NEW in \in Wanted
  PROVE  LET x == HalfRemembered(m, in)
         IN  /\ Shape(x) /\ GraphGrows(m, x)
             /\ x.facts = m.facts /\ x.next = m.next /\ x.space = m.space
             /\ \A id \in IdsOf(m) : x.aux[id] = m.aux[id]
             /\ Dated(m, in.now) => Dated(x, in.now)
<1> DEFINE x == HalfRemembered(m, in)
<1>1. in.tags \in SUBSET Tags /\ in.links \in Seq(Edges \cup {BadName}) /\ in.now \in Times
  BY DEF Wanted, Inputs
<1>2. CASE in.dupKey
  <2>1. /\ DOMAIN x = MemoryFields
        /\ x.facts = m.facts /\ x.aux = m.aux /\ x.docs = Append(m.docs, m.next)
        /\ x.tagIdx = m.tagIdx /\ x.catalog = m.catalog /\ x.next = m.next /\ x.space = m.space
        /\ SameGraph(m, x)
    BY <1>2 DEF HalfRemembered, IndexDoc, Shape, MemoryFields, SameGraph
  <2> HIDE DEF x
  <2>2. GraphShape(x) /\ (Dated(m, in.now) => Dated(x, in.now))
    BY <2>1, SameGraphShape DEF Shape
  <2>3. FactsShape(x) BY <2>1 DEF Shape, FactsShape, IdsOf
  <2>4. GraphGrows(m, x) BY <2>1, <2>2 DEF GraphGrows, SameGraph, Shape, GraphShape
  <2> QED BY <2>1, <2>2, <2>3, <2>4 DEF Shape, x
<1>3. CASE ~in.dupKey
  <2> DEFINE p == Pushed(m, in.tags)
  <2>1. x = OpenLinks(p, in.links, in.now) BY <1>3 DEF HalfRemembered, Pushed
  <2>2. /\ Shape(p) /\ SameGraph(m, p)
        /\ p.facts = m.facts /\ p.next = m.next /\ p.space = m.space
        /\ \A id \in DOMAIN m.aux : p.aux[id] = m.aux[id]
    <3>1. Shape(p) /\ SameGraph(m, p) BY <1>1, PushedFields
    <3>2. p.facts = m.facts /\ p.next = m.next /\ p.space = m.space BY <1>1, PushedFields
    <3>3. \A id \in DOMAIN m.aux : p.aux[id] = m.aux[id]
      BY <1>1, PushedAux
    <3> HIDE DEF p
    <3> QED BY <3>1, <3>2, <3>3
  <2> HIDE DEF p, x
  <2>3. Grown(p, x) /\ (Dated(p, in.now) => Dated(x, in.now))
    BY <1>1, <2>1, <2>2, OpenLinksGrow
  <2>4. Shape(x) BY <2>2, <2>3, GrownShape
  <2>5. GraphGrows(m, x) BY <2>2, <2>3 DEF Grown, GraphGrows, SameGraph
  <2>6. Dated(m, in.now) => Dated(p, in.now) BY <2>2, SameGraphShape DEF Shape
  <2>7. \A id \in IdsOf(m) : id \in DOMAIN m.aux BY DEF Shape, FactsShape
  <2>8. \A id \in IdsOf(m) : x.aux[id] = m.aux[id] BY <2>2, <2>3, <2>7 DEF Grown
  <2> QED BY <2>2, <2>3, <2>4, <2>5, <2>6, <2>8 DEF Grown, x
<1> QED BY <1>2, <1>3

\* revise leaves a memory.
LEMMA ReviseShape ==
  ASSUME NEW m, Shape(m), NEW in \in Wanted, NEW target \in IdsOf(m)
  PROVE  Shape(ApplyRevise(m, in, target))
<1> DEFINE x == ApplyRemember(m, in, target)
<1>1. target \in Nat BY DEF Shape, FactsShape
<1>2. Remembered(m, x, in, target) BY RememberFields
<1>3. Shape(x) BY <1>1, <1>2, RememberShape
<1>4. target \in IdsOf(x) /\ in.from \in Times
  BY <1>2 DEF Remembered, Put, IdsOf, Wanted, Inputs
<1> QED BY <1>3, <1>4, CloseTargetFields DEF ApplyRevise

-----------------------------------------------------------------------------
(* The journal.                                                            *)

\* The records a journal may hold.
JournalOps ==
  [op : {"Remember"}, in : Wanted, revises : Nat \cup {NoFact}, id : Nat]
  \cup [op : {"Forget"}, id : Nat]
  \cup [op : {"Link"}, edge : Edges, now : Times, fact : Nat \cup {NoFact}]
  \cup [op : {"Unlink"}, edge : Edges, now : Times]
  \cup [op : {"RemoveTag"}, tag : Tags, now : Times]
  \cup [op : {"SetVectorSpace"}, space : Spaces]
  \cup {MaintainOp}

\* What loading yields: whether it succeeded, and a memory.
IsLoad(l) == l.ok \in BOOLEAN /\ l = [ok |-> l.ok, mem |-> l.mem] /\ Shape(l.mem)

\* Either verdict on a memory.
LEMMA LoadedIsLoad == ASSUME NEW m, Shape(m) PROVE IsLoad(Loaded(m)) /\ IsLoad(Corrupt(m))
BY DEF IsLoad, Loaded, Corrupt

\* Replaying a record on a memory yields a memory.
LEMMA ReplayOpShape ==
  ASSUME NEW m, Shape(m), NEW op \in JournalOps
  PROVE  IsLoad(ReplayOp(m, op))
<1>1. CASE op \in [op : {"Remember"}, in : Wanted, revises : Nat \cup {NoFact}, id : Nat]
  <2>1. op.in \in Wanted /\ op.revises \in Nat \cup {NoFact} /\ op.op = "Remember" BY <1>1
  <2>2. Shape(ApplyRemember(m, op.in, NoFact)) BY <2>1, RememberFields, RememberShape
  <2>3. Revisable(m, op.revises) => Shape(ApplyRevise(m, op.in, op.revises))
    BY <2>1, ReviseShape DEF Revisable
  <2>4. ReplayOp(m, op) = ReplayRemember(m, op) BY <2>1 DEF ReplayOp
  <2> QED BY <2>2, <2>3, <2>4, LoadedIsLoad DEF ReplayRemember
<1>2. CASE op \in [op : {"Forget"}, id : Nat]
  <2>1. ReplayOp(m, op) = IF op.id \in IdsOf(m) THEN Loaded(ApplyForget(m, op.id)) ELSE Corrupt(m)
    BY <1>2 DEF ReplayOp
  <2> QED BY <2>1, ForgetFields, LoadedIsLoad
<1>3. CASE op \in [op : {"Link"}, edge : Edges, now : Times, fact : Nat \cup {NoFact}]
  <2>1. ReplayOp(m, op) = Loaded(OpenEdge(m, op.edge, op.now, op.fact))
    BY <1>3 DEF ReplayOp
  <2>2. op.edge \in Edges /\ op.now \in Times /\ op.fact \in Nat \cup {NoFact} BY <1>3
  <2> QED BY <2>1, <2>2, OpenEdgeGrows, GrownShape, LoadedIsLoad
<1>4. CASE op \in [op : {"Unlink"}, edge : Edges, now : Times]
  <2>1. ReplayOp(m, op) = Loaded(CloseEdge(m, op.edge, op.now))
    BY <1>4 DEF ReplayOp
  <2>2. op.edge \in Edges /\ op.now \in Times BY <1>4
  <2> QED BY <2>1, <2>2, CloseEdgeGrows, GrownShape, LoadedIsLoad
<1>5. CASE op \in [op : {"RemoveTag"}, tag : Tags, now : Times]
  <2>1. ReplayOp(m, op) = Loaded(ApplyRemoveTag(m, op.now, op.tag))
    BY <1>5 DEF ReplayOp
  <2>2. op.tag \in Tags /\ op.now \in Times BY <1>5
  <2> QED BY <2>1, <2>2, RemoveTagFields, RemoveTagShape, LoadedIsLoad
<1>6. CASE op \in [op : {"SetVectorSpace"}, space : Spaces]
  <2>1. ReplayOp(m, op) = IF MayClaim(m, op.space) THEN Loaded([m EXCEPT !.space = op.space])
                          ELSE Corrupt(m)
    BY <1>6 DEF ReplayOp
  <2> QED BY <1>6, <2>1, SetSpaceShape, LoadedIsLoad
<1>7. CASE op = MaintainOp
  <2>1. ReplayOp(m, op) = Loaded(Purge(m)) BY <1>7 DEF ReplayOp, MaintainOp
  <2> QED BY <2>1, PurgeShape, LoadedIsLoad
<1> QED BY <1>1, <1>2, <1>3, <1>4, <1>5, <1>6, <1>7 DEF JournalOps

\* Load is a fold.
LEMMA LoadFolds ==
  ASSUME NEW i, NEW j
  PROVE  Load(i, j) = Naturally!Folded(Loaded(i), j)
BY DEF Load, FoldLeft, MapThenFoldSet, Max, Naturally!Folded, Naturally!Folds, Naturally!TopOf

\* An empty journal changes nothing.
LEMMA LoadEmpty == ASSUME NEW i PROVE Load(i, <<>>) = Loaded(i)
BY LoadFolds, Naturally!FoldEmpty

\* The last record of a journal is replayed last.
LEMMA LoadAppend ==
  ASSUME NEW i, NEW R, NEW j \in Seq(R), NEW op
  PROVE  Load(i, Append(j, op)) = Replay(Load(i, j), op)
BY LoadFolds, Naturally!FoldAppend

\* An image and a journal load to a memory, or fail.
LEMMA LoadShape ==
  ASSUME NEW i, Shape(i), NEW j \in Seq(JournalOps)
  PROVE  IsLoad(Load(i, j))
<1> DEFINE T == {k \in Seq(JournalOps) : IsLoad(Load(i, k))}
<1>1. <<>> \in T
  <2>1. <<>> \in Seq(JournalOps) OBVIOUS
  <2> QED BY <2>1, LoadEmpty, LoadedIsLoad
<1>2. ASSUME NEW k \in Seq(JournalOps), NEW op \in JournalOps, k \in T PROVE Append(k, op) \in T
  <2>1. Append(k, op) \in Seq(JournalOps) OBVIOUS
  <2>2. Load(i, Append(k, op)) = Replay(Load(i, k), op) BY LoadAppend
  <2>3. IsLoad(Load(i, k)) BY <1>2
  <2>4. IsLoad(Replay(Load(i, k), op)) BY <2>3, ReplayOpShape DEF Replay, IsLoad
  <2> QED BY <2>1, <2>2, <2>4
<1> HIDE DEF T
<1>3. j \in T BY <1>1, <1>2, Naturally!InductiveSeq
<1> QED BY <1>3 DEF T

\* A journal that loads loads cut anywhere.
LEMMA PrefixLoads ==
  ASSUME NEW i, NEW R, NEW j \in Seq(R), Load(i, j).ok, NEW n \in 0..Len(j)
  PROVE  Load(i, SubSeq(j, 1, n)).ok
<1> DEFINE T == {k \in Seq(R) : Load(i, k).ok => \A l \in 0..Len(k) : Load(i, SubSeq(k, 1, l)).ok}
<1>1. <<>> \in T
  <2>1. <<>> \in Seq(R) /\ Len(<<>>) = 0 /\ SubSeq(<<>>, 1, 0) = <<>> OBVIOUS
  <2>2. \A l \in 0..Len(<<>>) : l = 0 BY <2>1
  <2>3. \A l \in 0..Len(<<>>) : SubSeq(<<>>, 1, l) = <<>> BY <2>1, <2>2
  <2> QED BY <2>1, <2>3
<1>2. ASSUME NEW k \in Seq(R), NEW op \in R, k \in T PROVE Append(k, op) \in T
  <2>1. /\ Append(k, op) \in Seq(R) /\ Len(Append(k, op)) = Len(k) + 1 /\ Len(k) \in Nat
        /\ SubSeq(Append(k, op), 1, Len(k) + 1) = Append(k, op)
        /\ \A l \in 0..Len(k) : SubSeq(Append(k, op), 1, l) = SubSeq(k, 1, l)
    OBVIOUS
  <2>2. SUFFICES ASSUME Load(i, Append(k, op)).ok, NEW l \in 0..Len(k) + 1
                 PROVE  Load(i, SubSeq(Append(k, op), 1, l)).ok
    BY <2>1
  <2>3. Load(i, k).ok
    BY <2>2, LoadAppend DEF Replay
  <2>4. CASE l = Len(k) + 1 BY <2>1, <2>2, <2>4
  <2>5. CASE l # Len(k) + 1
    <3>1. l \in 0..Len(k) BY <2>1, <2>5
    <3> QED BY <1>2, <2>1, <2>3, <3>1
  <2> QED BY <2>4, <2>5
<1> HIDE DEF T
<1>3. j \in T BY <1>1, <1>2, Naturally!InductiveSeq
<1> QED BY <1>3 DEF T
=============================================================================
