------------------------------- MODULE Salvage -------------------------------
(***************************************************************************)
(* Database::recover (plugmem-host/src/db.rs): a copy of a database whose  *)
(* content a disk has spoilt, without the facts that the spoilt bytes      *)
(* belong to (Memory::faulty_facts), written beside it.                    *)
(*                                                                         *)
(* A text, a blob of metadata or the components of a vector are sound or   *)
(* not; the rest of an image is its facts, each with the slot it points    *)
(* to, and the slots, each with the fact it names.                         *)
(***************************************************************************)
EXTENDS Integers, Sequences, FiniteSets

CONSTANTS
  MaxFacts,      \* bound: facts of the source
  MaxDamage,     \* bound: places a disk spoils
  DamageKinds    \* which places

ASSUME SalvageAssumption == {MaxFacts, MaxDamage} \subseteq Nat

VARIABLES
  src,         \* the image recover reads, its journal (the facts forgotten since) and how
               \* much was spoilt in it
  dst,         \* the image of the destination, a new one
  salvage,     \* the recover under way, or its outcome
  pristine     \* the image as it was written

salvageVars == <<src, dst, salvage, pristine>>

Ids == 0..MaxFacts - 1
NoSlot == -1
NoTarget == [facts |-> <<>>]

-----------------------------------------------------------------------------
(* Images.                                                                 *)

Intact(withVector, withMeta, slot) ==
  [state |-> "live", text |-> TRUE, slot |-> IF withVector THEN slot ELSE NoSlot,
   meta |-> IF withMeta THEN "good" ELSE "none"]

\* The place of f among S in ascending order, from 0, and who has a place.
Rank(S, f)  == Cardinality({g \in S : g < f})
AtRank(S, n) == CHOOSE f \in S : Rank(S, f) = n

\* Facts with and without a vector and metadata, in the order they were stored.
Laid(vectors, metas) ==
  [facts |-> [f \in Ids |-> Intact(f \in vectors, f \in metas, Rank(vectors, f))],
   pool  |-> [i \in 1..Cardinality(vectors) |-> [owner |-> AtRank(vectors, i - 1), sound |-> TRUE]],
   names |-> TRUE, parses |-> TRUE]
NamedBy(image, f) ==
  LET slot == image.facts[f].slot
  IN  slot = NoSlot \/ (slot < Len(image.pool) /\ image.pool[slot + 1].owner = f)

\* What a spoilt byte may do; an index out of range does not parse.
Spoilt(image, kind) ==
  LET facts == DOMAIN image.facts
      slots == DOMAIN image.pool
  IN  CASE kind = "text"      -> {[image EXCEPT !.facts[f].text = FALSE] : f \in facts}
        [] kind = "metadata"  -> {[image EXCEPT !.facts[f].meta = "bad"] :
                                    f \in {g \in facts : image.facts[g].meta # "none"}}
        [] kind = "owner"     -> {[image EXCEPT !.pool[i].owner = f] : i \in slots, f \in facts}
        [] kind = "slot"      -> {[image EXCEPT !.facts[f].slot = i - 1] :
                                    f \in {g \in facts : image.facts[g].slot # NoSlot}, i \in slots}
        [] kind = "component" -> {[image EXCEPT !.pool[i].sound = FALSE] : i \in slots}
        [] kind = "name"      -> {[image EXCEPT !.names = FALSE]}
        [] kind = "structure" -> {[image EXCEPT !.parses = FALSE]}

-----------------------------------------------------------------------------
(* The two integrity checks.                                               *)

\* Memory::verify, for what a disk can spoil here.
Verifies(image) ==
  LET facts == DOMAIN image.facts
  IN  /\ image.parses /\ image.names
      /\ \A f \in facts : image.facts[f].text /\ image.facts[f].meta # "bad" /\ NamedBy(image, f)
      /\ \A i \in DOMAIN image.pool : image.pool[i].sound
      /\ Cardinality({f \in facts : image.facts[f].slot # NoSlot}) = Len(image.pool)

Alive(image) == {f \in DOMAIN image.facts : image.facts[f].state = "live"}

\* A bug Faulty must not have: a slot in range is taken for the fact's own.
FaultyByRange(image) ==
  {f \in Alive(image) : ~image.facts[f].text \/ image.facts[f].meta = "bad"}

\* faulty_facts: the live facts whose text, vector or metadata is spoilt.
Faulty(image) ==
  {f \in Alive(image) : ~image.facts[f].text \/ ~NamedBy(image, f) \/ image.facts[f].meta = "bad"}

\* snapshot_disk_first: nothing to purge, and the image is written as it stands;
\* otherwise the live facts, with the slots they point to copied in their order.
Compacted(image) ==
  LET live   == Alive(image)
      owners == {f \in live : image.facts[f].slot # NoSlot}
      slot(i) == image.facts[AtRank(owners, i - 1)].slot
  IN  IF live = DOMAIN image.facts THEN image
      ELSE [image EXCEPT
              !.facts = [f \in live |->
                          [image.facts[f] EXCEPT !.slot = IF @ = NoSlot THEN NoSlot ELSE Rank(owners, f)]],
              !.pool  = [i \in 1..Cardinality(owners) |-> image.pool[slot(i) + 1]]]

\* Each of these facts forgotten, by replay of a journal or by recover; an unknown one
\* is corruption.
Forgetting(image, gone) ==
  IF gone \subseteq DOMAIN image.facts
  THEN [image EXCEPT !.facts = [f \in DOMAIN @ |->
                                 IF f \in gone THEN [@[f] EXCEPT !.state = "tombstone"] ELSE @[f]]]
  ELSE [image EXCEPT !.parses = FALSE]

-----------------------------------------------------------------------------
(* Actions.                                                                *)

SalvageInit ==
  \E vectors, metas \in SUBSET Ids :
    /\ pristine = Laid(vectors, metas)
    /\ src = [image |-> pristine, journal |-> {}, damage |-> 0]
    /\ dst = NoTarget
    /\ salvage = [at |-> "idle"]

Idle == salvage.at = "idle"

\* A forget that is in the journal and not yet in an image.
ForgetLive(f) ==
  /\ Idle /\ src.damage = 0
  /\ f \in Alive(src.image) \ src.journal
  /\ src' = [src EXCEPT !.journal = @ \cup {f}]
  /\ UNCHANGED <<dst, salvage, pristine>>

\* A checkpoint before the disk fails.
PublishLive ==
  /\ Idle /\ src.damage = 0 /\ src.journal # {}
  /\ src' = [src EXCEPT !.image = Forgetting(@, src.journal), !.journal = {}]
  /\ pristine' = src'.image
  /\ UNCHANGED <<dst, salvage>>

Spoil(kind) ==
  /\ Idle /\ src.damage < MaxDamage
  /\ \E image \in Spoilt(src.image, kind) :
       src' = [src EXCEPT !.image = image, !.damage = @ + 1]
  /\ UNCHANGED <<dst, salvage, pristine>>

\* The source opened with its journal, and each faulty fact forgotten in memory.
Recover ==
  LET opened == Forgetting(src.image, src.journal)
      faulty == Faulty(opened)
  IN  /\ Idle
      /\ salvage' = IF ~opened.parses THEN [at |-> "refused"]
           ELSE [at |-> "staging", dropped |-> faulty, image |-> Forgetting(opened, faulty)]
      /\ UNCHANGED <<src, dst, pristine>>

\* stage_snapshot and commit_snapshot: a failure leaves the destination as it was.
CommitCopy ==
  /\ salvage.at = "staging"
  /\ dst' = Compacted(salvage.image)
  /\ salvage' = [at |-> "done", dropped |-> salvage.dropped,
                 kept |-> Cardinality(DOMAIN dst'.facts)]
  /\ UNCHANGED <<src, pristine>>
CopyFails ==
  /\ salvage.at = "staging"
  /\ salvage' = [at |-> "failed"]
  /\ UNCHANGED <<src, dst, pristine>>

SalvageNext ==
  \/ \E f \in Ids : ForgetLive(f)
  \/ PublishLive
  \/ \E kind \in DamageKinds : Spoil(kind)
  \/ Recover
  \/ CommitCopy
  \/ CopyFails
SalvageSpec == SalvageInit /\ [][SalvageNext]_salvageVars

-----------------------------------------------------------------------------
(* What a salvage is for.                                                  *)

\* "drops the facts that fail the per-fact content checks (verify's predicate) ... and
\* writes a clean image to dst" (db.rs:1412-1416): what recover reports done opens and
\* verifies.
SalvageIsClean == salvage.at = "done" => Verifies(dst)

\* Where only what faulty_facts looks at was spoilt, the copy is clean, it has
\* every live fact that was not spoilt, with the vector it was written with, and no
\* other, and the report counts them.  (A slot spoilt into naming the very fact that a
\* spoilt record points at it is believed.)
SalvageKeepsTheRest ==
  salvage.at = "done" =>
    LET before == Forgetting(pristine, src.journal)
        now    == Forgetting(src.image, src.journal)
        was(f) == before.facts[f].slot
    IN  /\ Verifies(dst)
        /\ DOMAIN dst.facts = Alive(dst)
        /\ DOMAIN dst.facts \cup salvage.dropped = Alive(before)
        /\ DOMAIN dst.facts \cap salvage.dropped = {}
        /\ salvage.kept = Cardinality(DOMAIN dst.facts)
        /\ \A f \in DOMAIN dst.facts :
             /\ (dst.facts[f].slot = NoSlot) = (was(f) = NoSlot)
             /\ \/ now.facts[f].slot = was(f)
                \/ now.pool[now.facts[f].slot + 1] # before.pool[now.facts[f].slot + 1]
        /\ \A f \in salvage.dropped :
             ~now.facts[f].text \/ now.facts[f].meta = "bad" \/ now.facts[f].slot # was(f)
               \/ now.pool[was(f) + 1].owner # f
=============================================================================
