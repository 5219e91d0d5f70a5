------------------------------- MODULE Lexical -------------------------------
(***************************************************************************)
(* The lexical index (plugmem-core/src/index/bm25.rs, postings.rs): the    *)
(* posting lists, the record of every document, the flat array of lengths  *)
(* that stands in for the records while ids are dense, and the search that *)
(* asks whether a document is live only when it may rank.                  *)
(*                                                                         *)
(* Words and documents are numbers, and a document is what it counts: a    *)
(* function from its terms to their occurrences.  A score is a whole       *)
(* number that falls with a term's frequency in the corpus and with the    *)
(* document's length, and rises with the occurrences.                      *)
(***************************************************************************)
EXTENDS Naturals, SequencesExt

CONSTANTS
  WordIds,       \* 1..n
  Documents,     \* what a text may count
  BitOf,         \* term -> the bit of the signature it claims
  Queries,       \* sequences of terms
  Depth,         \* the k a search may ask for
  MaxLen,        \* u16::MAX
  Slack,         \* ids the flat array may reach per document
  MaxDocuments   \* bound: ids handed out

ASSUME LexicalAssumption ==
  /\ WordIds \subseteq Nat /\ Depth \subseteq Nat \ {0}
  /\ {MaxLen, Slack, MaxDocuments} \subseteq Nat \ {0}

VARIABLES
  lex,    \* the index
  alive,  \* documents whose fact is not tombstoned
  nextId, \* the next fact's id
  texts   \* history: what was indexed, of the documents not purged

lexicalVars == <<lex, alive, nextId, texts>>

Unlimited == MaxDocuments + 1     \* usize::MAX
Absent    == MaxLen + 1           \* DOC_LEN_ABSENT

EmptyIndex == [postings |-> [t \in WordIds |-> <<>>],   \* term -> <<[id, tf], ...>>
               docs     |-> <<>>,                     \* id -> [len, distinct, sig]
               total    |-> 0,                        \* total_docs
               dense    |-> <<>>,                     \* doc_len_dense, id 0 first
               limit    |-> Unlimited,                \* dense_limit
               unsummarized |-> FALSE]

-----------------------------------------------------------------------------
(* Document lengths.                                                       *)

DenseCapacity(x) == (x.total + 1) * Slack

\* Grown with DOC_LEN_ABSENT to reach an id.
Reaching(dense, id) == dense \o [i \in 1..id + 1 - Len(dense) |-> Absent]

\* note_dense: an id out of reach lowers the watermark.
NoteDense(x, id, len) ==
  IF id >= DenseCapacity(x) THEN [x EXCEPT !.limit = Min({@, id})]
  ELSE [x EXCEPT !.dense = [IF id < Len(@) THEN @ ELSE Reaching(@, id) EXCEPT ![id + 1] = len]]

\* rebuild_dense, with the count of documents final.
RebuildDense(x) ==
  LET near == {id \in DOMAIN x.docs : id < DenseCapacity(x)}
      far  == DOMAIN x.docs \ near
      reach == IF near = {} THEN 0 ELSE Max(near) + 1
  IN  [x EXCEPT !.dense = [i \in 1..reach |-> IF i - 1 \in near THEN x.docs[i - 1].len ELSE Absent],
                !.limit = IF far = {} THEN Unlimited ELSE Min(far)]

\* doc_len_of.
DocLenOf(x, id) ==
  IF id < x.limit /\ id < Len(x.dense) THEN x.dense[id + 1]
  ELSE IF id \in DOMAIN x.docs THEN x.docs[id].len ELSE Absent

-----------------------------------------------------------------------------
(* Writing.                                                                *)

TermsOf(text) == DOMAIN text
LengthOf(text) == FoldSet(LAMBDA t, sum : sum + text[t], 0, TermsOf(text))
Signature(terms) == {BitOf[t] : t \in terms}

\* index_doc: ids ascend.
IndexDocument(x, id, text) ==
  LET doc == [len |-> Min({LengthOf(text), MaxLen}),
              distinct |-> Cardinality(TermsOf(text)), sig |-> Signature(TermsOf(text))]
      pushed == [x EXCEPT
        !.postings = [t \in WordIds |-> IF t \in TermsOf(text)
                                      THEN Append(@[t], [id |-> id, tf |-> text[t]]) ELSE @[t]],
        !.docs = (id :> doc) @@ @]
  IN  [NoteDense(pushed, id, doc.len) EXCEPT !.total = @ + 1]

\* fill_missing_signatures, from the postings that were carried over; a document
\* whose ids are too sparse for the table keeps none.
Summarized(x) ==
  LET missing == {id \in DOMAIN x.docs : x.docs[id].distinct = 0}
      found(id) == {t \in WordIds : \E p \in ToSet(x.postings[t]) : p.id = id}
  IN  IF missing = {} \/ Max(missing) >= DenseCapacity(x) THEN x
      ELSE [x EXCEPT !.docs = [id \in DOMAIN @ |->
             IF id \in missing
             THEN [@[id] EXCEPT !.distinct = Cardinality(found(id)), !.sig = Signature(found(id))]
             ELSE @[id]]]

\* compact_live.
CompactLive(x, live) ==
  LET kept == DOMAIN x.docs \cap live
  IN  RebuildDense(Summarized(
        [x EXCEPT !.postings = [t \in WordIds |-> SelectSeq(@[t], LAMBDA p : p.id \in live)],
                  !.docs = Restrict(@, kept), !.total = Cardinality(kept)]))

\* load_from over from_parts; legacy_doc_len reads records without a summary.
Reread(x, legacy) ==
  RebuildDense([x EXCEPT !.docs = [id \in DOMAIN @ |->
                  IF legacy THEN [@[id] EXCEPT !.distinct = 0, !.sig = {}] ELSE @[id]]])

-----------------------------------------------------------------------------
(* Searching.                                                              *)

Worth(x, t, p) ==
  LET df == Len(x.postings[t])
  IN  (x.total + 1 - df) * ((12 * p.tf) \div (p.tf + DocLenOf(x, p.id)))

\* A term's postings merged into the partial scores; a posting without a length
\* scores nothing and makes no candidate.
WithTerm(x, acc, t) ==
  LET scored == {p \in ToSet(x.postings[t]) : DocLenOf(x, p.id) # Absent}
      of(id) == CHOOSE p \in scored : p.id = id
      ids    == {p.id : p \in scored}
  IN  [id \in DOMAIN acc \cup ids |->
         (IF id \in DOMAIN acc THEN acc[id] ELSE 0)
         + (IF id \in ids THEN Worth(x, t, of(id)) ELSE 0)]

\* order: the higher score, then the smaller id.
RanksBefore(acc, a, b) == acc[a] > acc[b] \/ (acc[a] = acc[b] /\ a < b)
Ranked(acc, S) == SetToSortSeq(S, LAMBDA a, b : RanksBefore(acc, a, b))

\* The candidates in ascending id behind the running limit, cut to the best k
\* whenever there are twice as many.
Kept(acc, k) ==
  LET Offer(c, id) ==
        IF c.limit # <<>> /\ ~RanksBefore(acc, id, Head(c.limit)) THEN c
        ELSE LET top == c.top \cup {id}
             IN  IF Cardinality(top) < 2 * k THEN [c EXCEPT !.top = top]
                 ELSE LET best == SubSeq(Ranked(acc, top), 1, k)
                      IN  [top |-> ToSet(best), limit |-> <<best[k]>>]
  IN  FoldLeft(Offer, [top |-> {}, limit |-> <<>>],
               SetToSortSeq(DOMAIN acc, LAMBDA a, b : a < b)).top

\* consume: the live of a band, until there are k.
Consumed(out, band, k, live) ==
  LET found == SelectSeq(band, LAMBDA id : id \in live)
  IN  out \o SubSeq(found, 1, Min({Len(found), k - Len(out)}))

\* search: the band first, and what ranks after it only if the band was thinned.
Search(x, query, k, live) ==
  LET acc   == FoldLeft(LAMBDA a, t : WithTerm(x, a, t), <<>>, query)
      top   == Ranked(acc, Kept(acc, k))
      band  == Min({k, Len(top)})
      first == Consumed(<<>>, SubSeq(top, 1, band), k, live)
      all   == Ranked(acc, DOMAIN acc)
  IN  IF Len(first) = k \/ band = Len(all) THEN first
      ELSE Consumed(first, SubSeq(all, band + 1, Len(all)), k, live)

-----------------------------------------------------------------------------

IndexText ==
  /\ nextId < MaxDocuments
  /\ \E text \in Documents : /\ lex' = IndexDocument(lex, nextId, text)
                             /\ texts' = texts @@ (nextId :> text)
  /\ alive' = alive \cup {nextId}
  /\ nextId' = nextId + 1

Tombstone == \E id \in alive : alive' = alive \ {id} /\ UNCHANGED <<lex, nextId, texts>>

CompactIndex == /\ lex' = CompactLive(lex, alive)
                /\ texts' = Restrict(texts, alive)
                /\ UNCHANGED <<alive, nextId>>

ReopenIndex == /\ \E legacy \in BOOLEAN : lex' = Reread(lex, legacy)
               /\ UNCHANGED <<alive, nextId, texts>>

LexicalInit == lex = EmptyIndex /\ alive = {} /\ nextId = 0 /\ texts = <<>>

LexicalNext == IndexText \/ Tombstone \/ CompactIndex \/ ReopenIndex

LexicalSpec == LexicalInit /\ [][LexicalNext]_lexicalVars

-----------------------------------------------------------------------------
(* The best k live documents that hold a term of the query, ranked by a scan of
   every text: what search is for. *)
Reference(query, k) ==
  LET docs == {id \in DOMAIN lex.docs : TermsOf(texts[id]) \cap ToSet(query) # {}}
      worth(id, t) == IF t \in TermsOf(texts[id])
                      THEN (Cardinality(DOMAIN lex.docs) + 1
                            - Cardinality({d \in DOMAIN lex.docs : t \in TermsOf(texts[d])}))
                           * ((12 * texts[id][t])
                              \div (texts[id][t] + Min({LengthOf(texts[id]), MaxLen})))
                      ELSE 0
      score == [id \in docs |-> FoldLeft(LAMBDA sum, t : sum + worth(id, t), 0, query)]
      found == SelectSeq(Ranked(score, docs), LAMBDA id : id \in alive)
  IN  SubSeq(found, 1, Min({Len(found), k}))

\* Through any indexing, forgetting, compaction and reopening (of an old image too):
\* a length is the same wherever it is read from, the flat array or the record; a
\* term that a document's signature lacks is not in the document, so the overlap of
\* two facts is never underrated; and a search that prunes, and asks about liveness
\* late, returns what a scan of every text does.
LexiconAgrees ==
  /\ \A id \in 0..MaxDocuments :
       DocLenOf(lex, id) = IF id \in DOMAIN lex.docs
                           THEN Min({LengthOf(texts[id]), MaxLen}) ELSE Absent
  /\ DOMAIN lex.docs = DOMAIN texts
  /\ \A id \in DOMAIN lex.docs :
       lex.docs[id].distinct # 0 => /\ lex.docs[id].distinct = Cardinality(TermsOf(texts[id]))
                                    /\ Signature(TermsOf(texts[id])) \subseteq lex.docs[id].sig
  /\ \A query \in Queries, k \in Depth : Search(lex, query, k, alive) = Reference(query, k)
=============================================================================
