-------------------------------- MODULE Image --------------------------------
(***************************************************************************)
(* The snapshot of an engine and what opening one makes of it (persist.rs, *)
(* memory/migrations.rs): the sections a state is written as, the checks a *)
(* load refuses an image by, and the migrations that read every layout the *)
(* engine has ever written.  The module has no state of its own: it looks  *)
(* at every state Memory reaches.  Sections are values, not bytes; arenas, *)
(* blobs and signatures have modules of their own.                         *)
(***************************************************************************)
EXTENDS Memory

\* What a layout has that the one before it had not: versions of edges, the
\* counter they are numbered by, the current edge naming its version, the tag
\* catalog, the vector space.
Current == {"history", "counter", "timed", "catalog", "space"}
Layouts == {{}, {"history"}, {"history", "counter"}, {"history", "counter", "timed"},
            Current \ {"space"}, Current}

WordOf(m) == [e \in DOMAIN m.current |-> m.history[m.current[e]].fact]

\* emit_sections_from, and the same state as an older crate would have written it.
SnapshotOf(m, layout) ==
  [layout  |-> layout,
   facts   |-> m.facts, aux |-> m.aux, docs |-> m.docs, tagIdx |-> m.tagIdx,
   next    |-> m.next,
   edges   |-> IF "timed" \in layout THEN m.current ELSE WordOf(m),
   history |-> IF "history" \in layout THEN m.history ELSE <<>>,
   counter |-> IF "counter" \in layout THEN m.nextEdge ELSE 0,
   catalog |-> IF "catalog" \in layout THEN m.catalog ELSE <<>>,
   space   |-> IF "space" \in layout THEN m.space ELSE NoSpace]

-----------------------------------------------------------------------------
(* Migrations.                                                             *)

\* adopt_history_version, once per version: what is open is current.
OpenVersions(history) ==
  LET open == {v \in DOMAIN history : history[v].to = OpenEnd}
  IN  [e \in {history[v].key : v \in open} |-> CHOOSE v \in open : history[v].key = e]

\* An edge of an image without history: open since the beginning, numbered in some
\* order, the arena's.
Synthesized(edges) ==
  LET ids == 0..Cardinality(DOMAIN edges) - 1
      key == CHOOSE f \in [ids -> DOMAIN edges] : \A v, w \in ids : f[v] = f[w] => v = w
  IN  [v \in ids |-> [key |-> key[v], fact |-> edges[key[v]], from |-> 0, to |-> OpenEnd]]

\* The id after the highest of ids.
IdAfter(ids) == IF ids = {} THEN 0 ELSE (CHOOSE v \in ids : \A w \in ids : w <= v) + 1

\* migrate_edges, and the edge id counter of finish_load.
Edged(i) ==
  LET history == IF "history" \in i.layout THEN i.history ELSE Synthesized(i.edges)
      current == IF "timed" \in i.layout THEN i.edges ELSE OpenVersions(history)
      derived == IdAfter(DOMAIN history)
  IN  [current  |-> current, history |-> history,
       nextEdge |-> IF "counter" \in i.layout THEN i.counter ELSE derived,
       covered  |-> Cardinality(DOMAIN current) = Cardinality(DOMAIN i.edges),
       counted  |-> "counter" \in i.layout => i.counter >= derived]

\* migrate_tag_catalog: the current facts in each tag's postings.
Recounted(i) ==
  [t \in Tags |-> Cardinality({k \in DOMAIN i.tagIdx[t] :
                    LET id == i.tagIdx[t][k] IN id \in DOMAIN i.facts /\ IsCurrent(i.facts[id])})]

-----------------------------------------------------------------------------
(* The load.                                                               *)

StrictlyUp(s) == \A i \in 1..Len(s) - 1 : s[i] < s[i + 1]

\* validate_lists, and Bm25Index::assemble: as many documents as records of their
\* lengths, which are one per id.
ListsSound(i) == /\ \A t \in Tags : StrictlyUp(i.tagIdx[t])
                 /\ Cardinality({i.docs[k] : k \in DOMAIN i.docs}) = Len(i.docs)

\* finish_load: no id counter is below what it has numbered.
CountersSound(i, edged) == edged.counted /\ Cardinality(DOMAIN i.facts) <= i.next

\* validate_references: every stored id below its counter, no version that ends
\* before it begins.
ReferencesSound(i, edged) ==
  LET factRef(f) == f = NoFact \/ f < i.next
  IN  /\ \A id \in DOMAIN i.facts : id < i.next /\ factRef(i.facts[id].revises)
      /\ \A id \in DOMAIN i.aux : id < i.next
      /\ \A v \in DOMAIN edged.history :
           /\ v < edged.nextEdge
           /\ factRef(edged.history[v].fact)
           /\ edged.history[v].from <= edged.history[v].to
      /\ \A e \in DOMAIN edged.current : edged.current[e] < edged.nextEdge

\* load_snapshot and finish_load.
LoadImage(i) ==
  LET edged == Edged(i)
      m == [facts |-> i.facts, aux |-> i.aux, docs |-> i.docs, tagIdx |-> i.tagIdx,
            catalog |-> IF "catalog" \in i.layout THEN i.catalog ELSE Recounted(i),
            next |-> i.next, current |-> edged.current, history |-> edged.history,
            nextEdge |-> edged.nextEdge, space |-> i.space]
  IN  IF ListsSound(i) /\ edged.covered /\ CountersSound(i, edged) /\ ReferencesSound(i, edged)
      THEN Loaded(m) ELSE Corrupt(m)

\* verify, after a load: the graph and the catalog agree with what they are
\* derived from.
Verified(m) == VerifyGraph(m) /\ VerifyTagCatalog(m)

-----------------------------------------------------------------------------
(* Properties.                                                             *)

\* What a layout lacks is the only thing a load of it may lose: from any image the
\* engine has ever written comes a state that verifies, with the same facts, tags and
\* edges, whose own snapshot loads to itself; versions and their ids survive wherever
\* they were written, and an edge written without a history is open from the
\* beginning (the table of memory/migrations.rs).
ImageOpens ==
  sound => \A layout \in Layouts :
    LET load == LoadImage(SnapshotOf(mem, layout))
        m    == load.mem
        kept == [mem EXCEPT !.space = IF "space" \in layout THEN @ ELSE NoSpace]
    IN  /\ load.ok
        /\ Verified(m)
        /\ LoadImage(SnapshotOf(m, Current)) = load
        /\ "history" \in layout => m = kept
        /\ WordOf(m) = WordOf(mem)
        /\ [m EXCEPT !.current = <<>>, !.history = <<>>, !.nextEdge = 0]
             = [kept EXCEPT !.current = <<>>, !.history = <<>>, !.nextEdge = 0]
        /\ "history" \notin layout => \A e \in DOMAIN m.current :
             m.history[m.current[e]].from = 0

\* A snapshot taken at any moment loads, and to the state it was taken of: "save ->
\* load -> save is byte-identical" (plugmem-core/src/memory/persist.rs:695).
SavesAndLoads == LoadImage(SnapshotOf(mem, Current)) = Loaded(mem)

\* What is reopened is what was closed, from the journal or from any image.
ReopensAsWritten == ReplayRebuilds /\ ImageOpens
=============================================================================
