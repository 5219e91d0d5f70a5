------------------------------ MODULE Transfer ------------------------------
(***************************************************************************)
(* Getting a memory out of one database and into another: the pages of     *)
(* facts and the edges an export writes while others write (plugmem-host), *)
(* and the import that reads the file back in batches (plugmem-cli).  The   *)
(* ids of the file are the exporting database's; what an edge says it was   *)
(* learned from has to be found again under the ids the import was given.  *)
(***************************************************************************)
EXTENDS Naturals, FiniteSets, Sequences

CONSTANTS
  DumpEdges,    \* the edges there may be
  PageLimits,   \* ids a page may inspect; the whole dump is one large page
  LoadBatch,    \* facts an import writes at once
  MaxDumped,    \* bound: facts of the source
  MaxChanges,   \* bound: changes while the pages are taken
  Already       \* facts the target holds before

ASSUME TransferAssumption == /\ LoadBatch \in Nat \ {0} /\ Already \in Nat
                             /\ PageLimits \subseteq Nat \ {0} /\ IsFiniteSet(DumpEdges)

VARIABLES
  source,  \* facts: open, closed or gone, by id; edges: their provenance, 0 for none
  steady,  \* the facts that have been open since the first page
  walk,    \* the export: where it is, its cursor and its limit
  changes, \* changes made meanwhile
  file,    \* the lines written
  load,    \* the import: where it is, its line, its batch, its map of ids
  target   \* facts: what each is a copy of; links: the edges written

transferVars == <<source, steady, walk, changes, file, load, target>>

FactLine(id)       == [kind |-> "fact", id |-> id, edge |-> 0, from |-> 0]
EdgeLine(edge, id) == [kind |-> "edge", id |-> 0, edge |-> edge, from |-> id]

NoIds == [i \in {} |-> 0]

TransferInit ==
  /\ source \in [facts : {<<"open", "open">>, <<"open", "closed", "open">>},
                 edges : [DumpEdges -> 0..2]]
  /\ steady = {i \in DOMAIN source.facts : source.facts[i] = "open"}
  /\ walk \in [pc : {"facts"}, cursor : {1}, limit : PageLimits]
  /\ changes = 0 /\ file = <<>>
  /\ load = [pc |-> "idle", at |-> 1, batch |-> <<>>, remap |-> NoIds, again |-> FALSE]
  /\ target = [facts |-> [i \in 1..Already |-> 0], links |-> {}]

-----------------------------------------------------------------------------
(* The export.                                                             *)

\* The members of S, once each.
Listings(S) == {s \in [1..Cardinality(S) -> S] : {s[k] : k \in DOMAIN s} = S}

\* Whoever else has the database open writes between two pages.
Meanwhile(facts, edges) ==
  /\ walk.pc # "done" /\ changes < MaxChanges
  /\ changes' = changes + 1
  /\ source' = [facts |-> facts, edges |-> edges]
  /\ steady' = {i \in steady : facts[i] = "open"}
  /\ UNCHANGED <<walk, file, load, target>>

SourceSays ==
  /\ Len(source.facts) < MaxDumped
  /\ Meanwhile(Append(source.facts, "open"), source.edges)

SourceDrops ==
  \E i \in DOMAIN source.facts, s \in {"closed", "gone"} :
    source.facts[i] = "open" /\ Meanwhile([source.facts EXCEPT ![i] = s], source.edges)

SourceLinks ==
  \E e \in DOMAIN source.edges, i \in DOMAIN source.facts :
    Meanwhile(source.facts, [source.edges EXCEPT ![e] = i])

\* A bug export_facts_page must not have: the cursor counts what it returns.
NextCursorReturned(cursor, limit, end, returned) ==
  IF returned = 0 THEN cursor + limit ELSE cursor + returned

\* The cursor counts the ids inspected, open or not.
NextCursor(cursor, limit, end, returned) ==
  IF cursor + limit <= end THEN cursor + limit ELSE end + 1

\* One page: the open facts among the next ids, ascending.
ExportPage ==
  LET end  == Len(source.facts)
      page == {i \in DOMAIN source.facts :
                 /\ walk.cursor <= i /\ i < walk.cursor + walk.limit
                 /\ source.facts[i] = "open"}
      next == NextCursor(walk.cursor, walk.limit, end, Cardinality(page)) IN
  /\ walk.pc = "facts"
  /\ \E seen \in Listings(page) :
       /\ \A k, n \in DOMAIN seen : k < n => seen[k] < seen[n]
       /\ file' = file \o [k \in DOMAIN seen |-> FactLine(seen[k])]
  /\ walk' = [walk EXCEPT !.cursor = next, !.pc = IF next > end THEN "edges" ELSE "facts"]
  /\ UNCHANGED <<source, steady, changes, load, target>>

\* The open edges, after every fact.
ExportEdges ==
  /\ walk.pc = "edges"
  /\ \E seen \in Listings(DumpEdges) :
       file' = file \o [k \in DOMAIN seen |-> EdgeLine(seen[k], source.edges[seen[k]])]
  /\ walk' = [walk EXCEPT !.pc = "done"]
  /\ load' = [load EXCEPT !.pc = "reading"]
  /\ UNCHANGED <<source, steady, changes, target>>

-----------------------------------------------------------------------------
(* The import.                                                             *)

\* Where a batch has a fact, the last time.
LastOf(batch, id) ==
  CHOOSE k \in DOMAIN batch : batch[k] = id /\ \A n \in DOMAIN batch : batch[n] = id => n <= k

\* What flush_import_batch makes of a batch: its facts under the next ids, and the
\* map from the ids of the file to them.
Flush(l, t) ==
  LET copied == {l.batch[k] : k \in DOMAIN l.batch} IN
  [facts |-> t.facts \o l.batch,
   remap |-> [id \in DOMAIN l.remap \cup copied |->
                IF id \in copied THEN Len(t.facts) + LastOf(l.batch, id) ELSE l.remap[id]]]

Line == file[load.at]

\* A fact joins the batch; a full batch is written.
ReadFact ==
  LET l == [load EXCEPT !.batch = Append(@, Line.id), !.at = @ + 1]
      flushed == Flush(l, target) IN
  /\ load.pc = "reading" /\ load.at <= Len(file) /\ Line.kind = "fact"
  /\ IF Len(l.batch) >= LoadBatch
     THEN /\ load' = [l EXCEPT !.batch = <<>>, !.remap = flushed.remap]
          /\ target' = [target EXCEPT !.facts = flushed.facts]
     ELSE load' = l /\ UNCHANGED target
  /\ UNCHANGED <<source, steady, walk, changes, file>>

\* A provenance the file did not carry is none.
Translated(id, remap) == IF id \in DOMAIN remap THEN remap[id] ELSE 0

\* The pending batch lands before an edge can name a fact of it.
BeforeEdge(l, t) == Flush(l, t)

ReadEdge ==
  LET flushed == BeforeEdge(load, target) IN
  /\ load.pc = "reading" /\ load.at <= Len(file) /\ Line.kind = "edge"
  /\ load' = [load EXCEPT !.batch = <<>>, !.remap = flushed.remap, !.at = @ + 1]
  /\ target' = [facts |-> flushed.facts,
                links |-> target.links \cup {EdgeLine(Line.edge, Translated(Line.from, flushed.remap))}]
  /\ UNCHANGED <<source, steady, walk, changes, file>>

ReadEnd ==
  /\ load.pc = "reading" /\ load.at > Len(file)
  /\ load' = [load EXCEPT !.pc = "done", !.batch = <<>>]
  /\ target' = [target EXCEPT !.facts = Flush(load, target).facts]
  /\ UNCHANGED <<source, steady, walk, changes, file>>

\* A line that does not parse, a write refused, a kill: what landed stays, and the
\* user starts again from the first line.
LoadFails ==
  /\ load.pc = "reading" /\ ~load.again
  /\ load' = [load EXCEPT !.at = 1, !.batch = <<>>, !.remap = NoIds, !.again = TRUE]
  /\ UNCHANGED <<source, steady, walk, changes, file, target>>

TransferNext ==
  \/ SourceSays \/ SourceDrops \/ SourceLinks \/ ExportPage \/ ExportEdges
  \/ ReadFact \/ ReadEdge \/ ReadEnd \/ LoadFails

TransferSpec == TransferInit /\ [][TransferNext]_transferVars

-----------------------------------------------------------------------------
(* Properties.                                                             *)

\* However the pages fall and whatever is written between them, a fact that stays
\* open is in the file once, and no fact is in it twice (export_facts_page).
PagesAreWhole ==
  walk.pc = "done" =>
    \A i \in DOMAIN source.facts :
      LET times == Cardinality({k \in DOMAIN file : file[k] = FactLine(i)}) IN
      times <= 1 /\ (i \in steady => times = 1)

\* An edge arrives with the copy of the fact it was learned from when the file
\* carries that fact, and with none when it does not; never with another fact
\* (do_import, flush_import_batch).
ProvenanceFollows ==
  \A k \in 1..(load.at - 1) :
    file[k].kind = "edge" =>
      LET carried == \E n \in DOMAIN file : file[n] = FactLine(file[k].from)
          links   == {link \in target.links : link.edge = file[k].edge} IN
      /\ links # {}
      /\ \A link \in links :
           IF carried THEN link.from # 0 /\ target.facts[link.from] = file[k].from
           ELSE link.from = 0

\* A dump loads: both of the above, and the whole of the file when it is done.
DumpLoads ==
  /\ PagesAreWhole
  /\ ProvenanceFollows
  /\ load.pc = "done" =>
       \A n \in DOMAIN file : file[n].kind = "fact" =>
         \E i \in DOMAIN target.facts : target.facts[i] = file[n].id
=============================================================================
