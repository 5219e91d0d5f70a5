------------------------------- MODULE VecPool -------------------------------
(***************************************************************************)
(* The flat store of quantized vectors                                     *)
(* (plugmem-core/src/index/vecpool.rs) under the facts that own its slots: *)
(* a borrowed base with an owned tail, and the two-phase search.           *)
(*                                                                         *)
(* A vector has small integers for components.  A slot keeps them rounded  *)
(* to Steps each way of the greatest; its scale, whose square is the       *)
(* rational peak / norm, is all that an exact cosine needs besides.        *)
(***************************************************************************)
EXTENDS Integers, Sequences
LOCAL INSTANCE FiniteSetsExt
LOCAL INSTANCE SequencesExt
LOCAL INSTANCE Functions

CONSTANTS
  Dim,           \* components of a vector
  Offered,       \* vectors a caller brings: any length, any components
  Steps,         \* 127: the quantized components reach from -Steps to Steps
  Greatest,      \* f32::MAX: a greater sum of squares is infinite
  MaxSlots,      \* the ceiling on the pool, in slots
  Asked,         \* how many answers a search asks for
  Breadth,       \* 4: candidates rescored for each answer
  Floor,         \* 64: and never fewer than that
  MaxOwned       \* bound: facts ever stored

ASSUME VecPoolAssumption ==
  /\ {Dim, Steps, Greatest, MaxSlots, Breadth, Floor, MaxOwned} \subseteq Nat \ {0}
  /\ Asked \subseteq Nat

VARIABLES
  mapped,     \* slots of the image the pool was opened over
  grown,      \* slots appended since
  owned,      \* fact -> [slot, live, from]: its record, and the vector it was given
  minted      \* facts ever stored

vecVars == <<mapped, grown, owned, minted>>

Pool == mapped \o grown
\* slot_bytes: base or tail by one comparison; slots count from 0.
SlotAt(i) == IF i < Len(mapped) THEN mapped[i + 1] ELSE grown[i - Len(mapped) + 1]

-----------------------------------------------------------------------------
(* Quantization.                                                           *)

Magnitude(x) == IF x < 0 THEN -x ELSE x
\* roundf: to the nearest, a half away from zero.
Rounded(p, q) == LET up == (2 * Magnitude(p) + q) \div (2 * q) IN IF p < 0 THEN -up ELSE up

Squares(v) == FoldLeft(LAMBDA s, x : s + x * x, 0, v)
Infinite(v) == Squares(v) > Greatest
Encodable(v) == Len(v) = Dim /\ Squares(v) > 0

\* encode_slot, without its owner.  An infinite norm leaves no component and no scale.
Quantized(v) ==
  LET peak == Max({Magnitude(v[i]) : i \in 1..Dim})
      q    == [i \in 1..Dim |-> IF Infinite(v) THEN 0 ELSE Rounded(v[i] * Steps, peak)]
  IN  [peak |-> IF Infinite(v) THEN 0 ELSE peak * peak,
       norm |-> IF Infinite(v) THEN 1 ELSE Squares(v),
       q    |-> q,
       sig  |-> {i \in 1..Dim : q[i] >= 0}]
Encode(fact, v) == [fact |-> fact, vec |-> Quantized(v)]

\* The cosine, squared and signed, without the query's scale: a common factor.
Dot(v, w) == FoldLeft(LAMBDA s, i : s + v.q[i] * w.q[i], 0, [i \in 1..Dim |-> i])
Score(query, v) == LET d == Dot(query, v) IN <<d * Magnitude(d) * v.peak, v.norm>>
Greater(s, t) == s[1] * t[2] > t[1] * s[2]

Hamming(v, w) == Cardinality((v.sig \ w.sig) \cup (w.sig \ v.sig))

-----------------------------------------------------------------------------
(* Search.                                                                 *)

Outranks(s, t) == s.ham < t.ham \/ (s.ham = t.ham /\ s.slot < t.slot)
Foremost(cands, c) == SubSeq(SetToSortSeq(cands, Outranks), 1, c)

Band(k) == Min({Max({Breadth * k, Floor}), Len(Pool)})

\* One slot of phase 1: past the running limit it is dropped, and a full buffer is cut
\* to the best c, the last of which is the new limit.
KeptSlots(acc, entry, c) ==
  IF \E worst \in acc.limit : ~Outranks(entry, worst) THEN acc
  ELSE LET cands == acc.cands \cup {entry}
       IN  IF Cardinality(cands) < 2 * c THEN [acc EXCEPT !.cands = cands]
           ELSE [cands |-> Range(Foremost(cands, c)), limit |-> {Foremost(cands, c)[c]}]

Prefiltered(query, c) ==
  LET entry(i) == [ham |-> Hamming(query, SlotAt(i).vec), slot |-> i]
      acc == FoldLeft(LAMBDA s, i : KeptSlots(s, entry(i - 1), c), [cands |-> {}, limit |-> {}],
                      [i \in 1..Len(Pool) |-> i])
  IN  {e.slot : e \in Range(Foremost(acc.cands, c))}

\* The top k, best first and the older fact first among equals.
RankedSlots(query, k, slots) ==
  LET hit(i)   == [fact |-> SlotAt(i).fact, score |-> Score(query, SlotAt(i).vec)]
      over(a, b) == Greater(a.score, b.score) \/ (~Greater(b.score, a.score) /\ a.fact < b.fact)
      sorted  == SetToSortSeq({hit(i) : i \in slots}, over)
  IN  [i \in 1..Min({k, Len(sorted)}) |-> sorted[i].fact]

SearchSlots(v, k, admitted) ==
  IF Pool = <<>> \/ k = 0 THEN <<>>
  ELSE LET query == Quantized(v)
       IN  RankedSlots(query, k, {i \in Prefiltered(query, Band(k)) : SlotAt(i).fact \in admitted})

-----------------------------------------------------------------------------
(* What a load checks.                                                     *)

Framed == Len(Pool) <= MaxSlots
Sound(slot) == slot.vec.peak >= 0 /\ slot.vec.sig = {i \in 1..Dim : slot.vec.q[i] >= 0}
\* validate_references: every slot is the one its fact names, and none is left over.
Bijective ==
  /\ \A f \in DOMAIN owned : owned[f].slot < Len(Pool) /\ SlotAt(owned[f].slot).fact = f
  /\ Cardinality(DOMAIN owned) = Len(Pool)
Loads == Framed /\ (\A i \in 0..Len(Pool) - 1 : Sound(SlotAt(i))) /\ Bijective

-----------------------------------------------------------------------------
(* Actions.                                                                *)

VecInit == mapped = <<>> /\ grown = <<>> /\ owned = <<>> /\ minted = 0

HasRoom == Len(Pool) < MaxSlots
Owning(f, slot, v) ==
  owned' = [g \in DOMAIN owned \cup {f} |->
              IF g = f THEN [slot |-> slot, live |-> TRUE, from |-> v] ELSE owned[g]]

\* push: full, or a vector that cannot be encoded, leaves the pool as it was.
PushVector(v) ==
  /\ minted < MaxOwned
  /\ HasRoom /\ Encodable(v)
  /\ grown' = Append(grown, Encode(minted, v))
  /\ Owning(minted, Len(Pool), v)
  /\ minted' = minted + 1
  /\ UNCHANGED mapped

Retagged(slot, f) == [slot EXCEPT !.fact = f]

\* clone_slot_for_fact, under retag_without: the successor owns a copy, the old fact
\* keeps its slot.
Clone(f) ==
  /\ minted < MaxOwned
  /\ f \in DOMAIN owned /\ owned[f].live /\ HasRoom
  /\ grown' = Append(grown, Retagged(SlotAt(owned[f].slot), minted))
  /\ Owning(minted, Len(Pool), owned[f].from)
  /\ minted' = minted + 1
  /\ UNCHANGED mapped

\* A fact forgotten keeps its slot until a pass of maintenance.
Leave(f) ==
  /\ f \in DOMAIN owned /\ owned[f].live
  /\ owned' = [owned EXCEPT ![f].live = FALSE]
  /\ UNCHANGED <<mapped, grown, minted>>

\* copy_slot for each survivor in the order of their ids, into a new pool.
Rebuild ==
  LET live == {f \in DOMAIN owned : owned[f].live}
      rank == SetToSortSeq(live, <)
  IN  /\ live # DOMAIN owned
      /\ mapped' = <<>>
      /\ grown' = [i \in 1..Len(rank) |-> SlotAt(owned[rank[i]].slot)]
      /\ owned' = [f \in live |-> [owned[f] EXCEPT !.slot =
                                     CHOOSE i \in 0..Len(rank) - 1 : rank[i + 1] = f]]
      /\ UNCHANGED minted

\* Saved as its two pieces, and opened over the image: read into memory or mapped.
ReopenPool ==
  /\ Loads
  /\ \/ mapped' = Pool /\ grown' = <<>>
     \/ mapped' = <<>> /\ grown' = Pool
  /\ UNCHANGED <<owned, minted>>

VecNext ==
  \/ \E v \in Offered : PushVector(v)
  \/ \E f \in DOMAIN owned : Clone(f) \/ Leave(f)
  \/ Rebuild
  \/ ReopenPool
VecSpec == VecInit /\ [][VecNext]_vecVars

-----------------------------------------------------------------------------
(* What the pool owes its facts.                                           *)

LiveSlots == {f \in DOMAIN owned : owned[f].live}
\* The answer of a scan that reads every slot of the band named by the search's doc.
ByTheBook(v, k) ==
  LET query == Quantized(v)
      entry(i) == [ham |-> Hamming(query, SlotAt(i).vec), slot |-> i]
      all  == {entry(i) : i \in 0..Len(Pool) - 1}
      band == {e \in all : Cardinality({f \in all : Outranks(f, e)}) < Band(k)}
      hits == {f \in LiveSlots : owned[f].slot \in {e.slot : e \in band}}
      score(f) == Score(query, Quantized(owned[f].from))
      ahead(f) == {g \in hits : \/ Greater(score(g), score(f))
                                \/ ~Greater(score(f), score(g)) /\ g < f}
  IN  [i \in 1..Min({k, Cardinality(hits)}) |->
         CHOOSE f \in hits : Cardinality(ahead(f)) = i - 1]

\* Whatever was pushed, refused, cloned, compacted, saved, mapped or appended to a
\* mapped base since, every image loads, and a search answers with the vectors the
\* facts were given: exactly the ranking over the best candidates of the prefilter
\* (search's doc, vecpool.rs:411-414), although it keeps no more than twice as many
\* behind a running limit.
VectorsAnswer ==
  /\ Loads
  /\ Pool # <<>> =>
       \A v \in {u \in Offered : Encodable(u)}, k \in Asked :
         SearchSlots(v, k, LiveSlots) = IF k = 0 THEN <<>> ELSE ByTheBook(v, k)
=============================================================================
