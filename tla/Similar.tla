------------------------------- MODULE Similar -------------------------------
(***************************************************************************)
(* The detector of near-duplicates (plugmem-core/src/memory.rs): the hint  *)
(* that follows a remember, the check that guards one, and the bound that  *)
(* spares both from reading most of the candidates' texts.                 *)
(*                                                                         *)
(* A text is a sequence of words as today's tokenizer splits it; OldWords   *)
(* gives the words an older build indexed it by.  A similarity is a        *)
(* fraction <<numerator, denominator>>.                                    *)
(***************************************************************************)
EXTENDS Integers, SequencesExt

CONSTANTS
  TextInputs,     \* what a remember may bring: [text, entity, vector]
  OldWords,       \* text -> its words under the older tokenizer
  BitOfWord,      \* word -> its bit of a summary
  NormOf,         \* an entity's name as given -> normalized, Unnamed if nothing is left
  SampleVectors,  \* what a fact may carry besides NoEmbedding
  CosineOf,       \* <<vector, vector>> -> their quantized cosine
  JaccardBar, CosineBar,    \* similar_jaccard, similar_cos
  CandidateCap,   \* SIMILAR_CANDIDATE_CAP
  AnswerCap,      \* the 8 a scan returns at most
  MaxStored,      \* bound: facts ever stored
  NoEmbedding, NoEntity, Unnamed

ASSUME SimilarAssumption ==
  /\ {CandidateCap, AnswerCap, MaxStored} \subseteq Nat \ {0}
  /\ {JaccardBar, CosineBar} \subseteq Nat \X (Nat \ {0})   \* both in [0, 1]
  /\ \A input \in TextInputs : input.text \in Seq(ToSet(input.text))
  /\ NoEntity \notin Nat   \* not an id either
  /\ \A v, w \in SampleVectors : CosineOf[<<v, w>>] = CosineOf[<<w, v>>]

VARIABLES
  engine,   \* the part of the engine a comparison reads
  stored,   \* facts ever stored, so the next id
  unread    \* history: facts a reindex has left out words of

similarVars == <<engine, stored, unread>>

-----------------------------------------------------------------------------
(* Texts.                                                                  *)

\* tally_term's terms: how often each occurs does not matter here.
WordsIn(words) == ToSet(words)

\* A document: its postings, and DocLenSlot, how many terms and a bit for each.
SummaryOf(terms) ==
  [terms |-> terms, distinct |-> Cardinality(terms), sig |-> {BitOfWord[w] : w \in terms}]
Summary(words) == SummaryOf(WordsIn(words))

\* In an image of before summaries, without the second: has_signature is FALSE.
Unsummarized(words) == [Summary(words) EXCEPT !.distinct = 0, !.sig = {}]

Above(s, t) == s[1] * t[2] > t[1] * s[2]

\* The elements of s that are in S, in their order.
Only(s, S) ==
  LET kept[n \in 0..Len(s)] == IF n = 0 THEN <<>>
                               ELSE IF s[n] \in S THEN Append(kept[n - 1], s[n])
                               ELSE kept[n - 1]
  IN  kept[Len(s)]

\* f with v at k.
Entered(f, k, v) == [x \in DOMAIN f \cup {k} |-> IF x = k THEN v ELSE f[x]]

-----------------------------------------------------------------------------
(* The scan.                                                               *)

\* The most recent facts of the entity's list, in a ring.
HintCandidates(m, q) ==
  LET list == Only(m.lists[q.entity], Nat \ {q.exclude})
      slot == [k \in 0..CandidateCap - 1 |->
                 {i \in DOMAIN list : (i - 1) % CandidateCap = k}]
  IN  {list[Max(slot[k])] : k \in {j \in DOMAIN slot : slot[j] # {}}}

\* DocLenSlot::overlap_bound.
OverlapBound(doc, terms) == Cardinality({w \in terms : BitOfWord[w] \in doc.sig})

\* overlap_possible: an upper bound of the overlap, where a summary of today's terms
\* exists.
OverlapPossible(m, id, terms, count) ==
  LET doc   == m.docs[id]
      bound == OverlapBound(doc, terms)
  IN  \/ ~m.current
      \/ doc.distinct = 0
      \/ Above(<<bound, count - bound + doc.distinct>>, JaccardBar)

\* The fact's own words as far as the vocabulary knows them, against the query's.
Overlap(m, id, q) ==
  LET known == WordsIn(m.facts[id].text) \cap m.vocabulary
      both  == Cardinality(known \cap q.terms)
  IN  <<both, Cardinality(known) + q.count - both>>

\* A candidate without a vector has no cosine: it is below every bar there may be.
Cosine(v, w) ==
  IF w = NoEmbedding THEN <<-2, 1>> ELSE IF v = NoEmbedding THEN <<0, 1>> ELSE CosineOf[<<v, w>>]

\* The stronger of two signals above their bars; a tie is lexical.
Signals(id, jaccard, cosine) ==
  LET lexical == Above(jaccard, JaccardBar)
      vector  == Above(cosine, CosineBar)
  IN  IF vector /\ (lexical => Above(cosine, jaccard))
        THEN {[id |-> id, score |-> cosine, reason |-> "vectorCosine"]}
      ELSE IF lexical THEN {[id |-> id, score |-> jaccard, reason |-> "lexicalOverlap"]}
      ELSE {}

\* scan_similar, up to the sort.
HintsFound(m, q) ==
  LET may(id) == q.terms # {} /\ OverlapPossible(m, id, q.terms, q.count)
      read(id) == m.facts[id].state = "current" /\ (q.vector = NoEmbedding => may(id))
      jaccard(id) == IF may(id) /\ WordsIn(m.facts[id].text) \cap m.vocabulary # {}
                     THEN Overlap(m, id, q) ELSE <<0, 1>>
  IN  IF q.count = 0 /\ q.vector = NoEmbedding THEN {}
      ELSE UNION {Signals(id, jaccard(id), Cosine(q.vector, m.facts[id].vector)) :
                    id \in {c \in HintCandidates(m, q) : c \in DOMAIN m.facts /\ read(c)}}

\* Best first, the older first among equals, and no more than the cap.
Answer(found) ==
  LET before(a, b) == Above(a.score, b.score) \/ (~Above(b.score, a.score) /\ a.id < b.id)
      sorted == SetToSortSeq(found, before)
  IN  SubSeq(sorted, 1, Min({AnswerCap, Len(sorted)}))

-----------------------------------------------------------------------------
(* The two ways in.                                                        *)

NewId == stored

\* apply_remember, for the part the detector reads.
Stored(m, input) ==
  LET entity == NormOf[input.entity]
      id     == NewId
      fact   == [text |-> input.text, entity |-> entity, vector |-> input.vector, state |-> "current"]
      list   == IF entity \in DOMAIN m.lists THEN m.lists[entity] ELSE <<>>
  IN  [m EXCEPT !.facts = Entered(@, id, fact), !.docs = Entered(@, id, Summary(input.text)),
                !.vocabulary = @ \cup WordsIn(input.text),
                !.lists = IF entity = NoEntity THEN @ ELSE Entered(@, entity, Append(list, id))]

\* find_similar: the fact that was just stored, by the terms it was indexed by.
StoredQuery(m, id) ==
  LET terms == WordsIn(m.facts[id].text)
  IN  [entity |-> m.facts[id].entity, exclude |-> id, terms |-> terms,
       count |-> Cardinality(terms), vector |-> m.facts[id].vector]
FindSimilar(m, id) ==
  IF m.facts[id].entity = NoEntity THEN {} ELSE HintsFound(m, StoredQuery(m, id))

\* A bug InputQuery must not have: words nobody has used yet count for nothing.
InputQueryKnown(m, input) ==
  LET known == WordsIn(input.text) \cap m.vocabulary
  IN  [entity |-> NormOf[input.entity], exclude |-> NoEntity, terms |-> known,
       count |-> Cardinality(known), vector |-> input.vector]

\* find_similar_input: what is not stored yet, and interns nothing; an unknown word
\* still widens the union.
InputQuery(m, input) ==
  LET words == WordsIn(input.text)
  IN  [entity |-> NormOf[input.entity], exclude |-> NoEntity,
       terms |-> words \cap m.vocabulary, count |-> Cardinality(words), vector |-> input.vector]
FindSimilarInput(m, input) ==
  IF NormOf[input.entity] \notin DOMAIN m.lists THEN {} ELSE HintsFound(m, InputQuery(m, input))

-----------------------------------------------------------------------------
(* Actions.                                                                *)

SimilarTexts == {input.text : input \in TextInputs}
CanStore(input) == NormOf[input.entity] # Unnamed

\* An entity that exists and has no fact: it was the target of a link.
NewEngine == [facts |-> <<>>, docs |-> <<>>, vocabulary |-> {}, lists |-> <<>>, current |-> TRUE]

\* An image an older build wrote, with today's words of its texts (current) or those of
\* its own tokenizer, and with a summary of them or none.
OldImage(texts, entity, summarized, current) ==
  LET ids == 0..Len(texts) - 1
      text(id) == texts[id + 1]
      words(id) == IF current THEN text(id) ELSE OldWords[text(id)]
  IN  [facts |-> [id \in ids |-> [text |-> text(id), entity |-> entity,
                                  vector |-> NoEmbedding, state |-> "current"]],
       docs |-> [id \in ids |-> IF summarized THEN Summary(words(id))
                                ELSE Unsummarized(words(id))],
       vocabulary |-> UNION {WordsIn(words(id)) : id \in ids},
       lists |-> Entered(<<>>, entity, [i \in 1..Len(texts) |-> i - 1]),
       current |-> current]

SimilarInit ==
  /\ unread = {}
  /\ \/ engine = NewEngine /\ stored = 0
     \/ \E a, b \in SimilarTexts, summarized, current \in BOOLEAN,
           entity \in Range(NormOf) \ {NoEntity, Unnamed} :
          engine = OldImage(<<a, b>>, entity, summarized, current) /\ stored = 2

RememberText ==
  /\ stored < MaxStored
  /\ \E input \in TextInputs : CanStore(input) /\ engine' = Stored(engine, input)
  /\ stored' = stored + 1
  /\ UNCHANGED unread

\* remember_guarded: blocked, it changes nothing.
RememberGuarded ==
  /\ stored < MaxStored
  /\ \E input \in TextInputs :
       /\ CanStore(input)
       /\ FindSimilarInput(engine, input) = {}
       /\ engine' = Stored(engine, input)
  /\ stored' = stored + 1
  /\ UNCHANGED unread

\* revise: the successor is stored, without a comparison, and then the target closes.
ReviseText ==
  /\ stored < MaxStored
  /\ \E input \in TextInputs, id \in DOMAIN engine.facts :
       /\ CanStore(input) /\ engine.facts[id].state = "current"
       /\ engine' = [Stored(engine, input) EXCEPT !.facts[id].state = "closed"]
  /\ stored' = stored + 1
  /\ UNCHANGED unread

\* forget, of what is current or closed; the lists keep it until it is purged.
ForgetText ==
  /\ \E id \in DOMAIN engine.facts :
       /\ engine.facts[id].state # "forgotten"
       /\ engine' = [engine EXCEPT !.facts[id].state = "forgotten"]
  /\ UNCHANGED <<stored, unread>>

\* The words of a text that the vocabulary has, and so all that a reindex sees of it.
Looked(m, id) == WordsIn(m.facts[id].text) \cap m.vocabulary

\* A pass of maintenance: the forgotten leave; a stale index is built again by today's
\* tokenizer, which looks its words up and interns none; a document without a summary
\* has one made of its postings.
CompactTexts ==
  LET kept == {id \in DOMAIN engine.facts : engine.facts[id].state # "forgotten"}
  IN  /\ \/ ~engine.current
         \/ kept # DOMAIN engine.facts
         \/ \E id \in kept : engine.docs[id] # SummaryOf(engine.docs[id].terms)
      /\ engine' = [engine EXCEPT
           !.facts = Restrict(@, kept),
           !.docs  = [id \in kept |-> IF engine.current THEN SummaryOf(@[id].terms)
                                      ELSE SummaryOf(Looked(engine, id))],
           !.lists = [e \in DOMAIN @ |-> Only(@[e], kept)],
           !.current = TRUE]
      /\ unread' = unread \cup {id \in kept : ~engine.current
                                 /\ ~(WordsIn(engine.facts[id].text) \subseteq engine.vocabulary)}
      /\ UNCHANGED stored

SimilarNext == RememberText \/ RememberGuarded \/ ReviseText \/ ForgetText \/ CompactTexts
SimilarSpec == SimilarInit /\ [][SimilarNext]_similarVars

-----------------------------------------------------------------------------
(* The comparison a reader of scan_similar's comment has in mind: the new fact
   against each of the entity's most recent, word by word. *)
RecentOf(entity) ==
  LET list == IF entity \in DOMAIN engine.lists THEN engine.lists[entity] ELSE <<>>
  IN  {list[i] : i \in {j \in DOMAIN list : j > Len(list) - CandidateCap}}
Exhaustive(input) ==
  LET entity == NormOf[input.entity]
      live == {id \in RecentOf(entity) : engine.facts[id].state = "current"}
      jaccard(id) == LET a == WordsIn(input.text)
                         b == WordsIn(engine.facts[id].text)
                     IN  IF a \cup b = {} THEN <<0, 1>>
                         ELSE <<Cardinality(a \cap b), Cardinality(a \cup b)>>
  IN  IF entity = NoEntity THEN {}
      ELSE UNION {Signals(id, jaccard(id), Cosine(input.vector, engine.facts[id].vector)) : id \in live}

\* The check before a fact is stored and the hint after it are the same comparison,
\* and the one that reads every text: a summary never hides a duplicate, and unknown
\* words weigh as they will once they are known ("The detector is exactly the one
\* that fills RememberOutcome::similar", memory.rs:779).  Under an index of another
\* tokenizer the hint still hides nothing that is similar.  A reindex breaks the promise
\* for the facts whose words it had to look up in vain (unread): their summaries lack
\* words that the vocabulary may learn later.
SimilarAgrees ==
  stored > 0 =>
    \A input \in {i \in TextInputs : CanStore(i)} :
      LET readable(found) == {h \in found : h.id \notin unread}
          hint  == FindSimilar(Stored(engine, input), NewId)
          truth == Exhaustive(input)
      IN  IF engine.current
          THEN /\ Answer(readable(FindSimilarInput(engine, input))) = Answer(readable(truth))
               /\ Answer(readable(hint)) = Answer(readable(truth))
          ELSE \A t \in truth : \E h \in hint : h.id = t.id
=============================================================================
