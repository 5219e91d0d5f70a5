-------------------------------- MODULE Terms --------------------------------
(***************************************************************************)
(* The interner (plugmem-arena/src/interner.rs) over a blob heap           *)
(* (blob.rs): every entity name, relation, tag and word of the engine is a *)
(* blob of the heap, named by its index, and an open-addressing table      *)
(* finds it.  The heap is a mapped base and an owned tail; the table       *)
(* doubles when it gets full, before the blob is stored.                   *)
(*                                                                         *)
(* A term is a model value of some width; its bytes are cells.             *)
(***************************************************************************)
EXTENDS SequencesExt

CONSTANTS
  Words,         \* strings
  WidthOf,       \* word -> its length
  HashOf,        \* word -> xxh3_64 of it
  InitialSlots,  \* INITIAL_SLOTS, a power of two
  LoadNum, LoadDen,
  MaxCells       \* max_bytes

ASSUME TermsAssumption == /\ InitialSlots \in Nat \ {0} /\ MaxCells \in Nat
                          /\ LoadNum \in Nat /\ LoadDen \in Nat /\ LoadNum < LoadDen
                          /\ \A w \in Words : WidthOf[w] \in Nat \ {0} /\ HashOf[w] \in Nat

VARIABLES
  base, tail,  \* the heap's cells
  index,       \* id -> [offset, len]; ids count from 1
  table,       \* slot -> id, or 0
  named        \* history: the words interned, in order

termVars == <<base, tail, index, table, named>>

Cells(w)  == [i \in 1..WidthOf[w] |-> <<w, i>>]
PoolLen   == Len(base) + Len(tail)

\* BlobHeap::slice and get.
Blob(id) ==
  LET o == index[id].offset  n == index[id].len
  IN IF o < Len(base) THEN SubSeq(base, o + 1, o + n)
     ELSE SubSeq(tail, o - Len(base) + 1, o - Len(base) + n)

-----------------------------------------------------------------------------
(* The table.                                                              *)

Home(cells, slots) == HashOf[cells[1][1]] % slots

\* From its home slot on, the first slot that is empty or holds the word.
Probe(t, cells) ==
  LET from[i \in 0..Len(t) - 1] ==
        IF t[i + 1] = 0 \/ Blob(t[i + 1]) = cells THEN i + 1 ELSE from[(i + 1) % Len(t)]
  IN from[Home(cells, Len(t))]

\* lookup: 0 for a word that is not interned.
Lookup(w) == table[Probe(table, Cells(w))]

\* rehash: a table twice the size, the ids entered in the order of their slots.
Rehashed(t) ==
  FoldLeft(LAMBDA new, id : IF id = 0 THEN new ELSE [new EXCEPT ![Probe(new, Blob(id))] = id],
           [i \in 1..2 * Len(t) |-> 0], t)

\* The table intern probes.
Roomy(t) == IF (Len(index) + 1) * LoadDen > Len(t) * LoadNum THEN Rehashed(t) ELSE t

-----------------------------------------------------------------------------
TermsInit == /\ base = <<>> /\ tail = <<>> /\ index = <<>> /\ named = <<>>
             /\ table = [i \in 1..InitialSlots |-> 0]

\* intern: the id of a word there is, or a blob of its own for a new one.
Intern(w) ==
  LET t    == Roomy(table)
      slot == Probe(t, Cells(w))
  IN IF t[slot] # 0
     THEN table' = t /\ UNCHANGED <<base, tail, index, named>>
     ELSE IF PoolLen + WidthOf[w] > MaxCells
     THEN table' = t /\ UNCHANGED <<base, tail, index, named>>   \* CapacityExceeded
     ELSE /\ table' = [t EXCEPT ![slot] = Len(index) + 1]
          /\ tail' = tail \o Cells(w)
          /\ index' = Append(index, [offset |-> PoolLen, len |-> WidthOf[w]])
          /\ named' = Append(named, w)
          /\ UNCHANGED base

\* validate_index on the lengths of an image, offsets derived.
Offsets(lens) == [i \in DOMAIN lens |->
                    [offset |-> FoldLeft(+, 0, SubSeq(lens, 1, i - 1)), len |-> lens[i]]]

\* from_heap_and_table's checks.
TableAccepted ==
  LET entries == SelectSeq(table, LAMBDA id : id # 0)
  IN /\ Len(table) >= InitialSlots
     /\ Len(index) * LoadDen <= Len(table) * LoadNum
     /\ IsInjective(entries) /\ ToSet(entries) = DOMAIN index

\* A snapshot is written and opened again: the heap mapped or copied.
ReopenTerms ==
  LET pool == base \o tail IN
  /\ TableAccepted
  /\ \/ base' = pool /\ tail' = <<>>
     \/ base' = <<>> /\ tail' = pool
  /\ index' = Offsets([i \in DOMAIN index |-> index[i].len])
  /\ UNCHANGED <<table, named>>

TermsNext == ReopenTerms \/ \E w \in Words : Intern(w)

TermsSpec == TermsInit /\ [][TermsNext]_termVars

-----------------------------------------------------------------------------
(* Property.                                                               *)

\* Ids are the order of first interning, for ever: a word resolves to itself and is
\* found under the one id it was given, across doublings of the table, refused
\* inserts and reopenings, however words collide; a word never interned is not
\* found, and there is an empty slot for the search to end at.
OneIdPerWord ==
  /\ IsInjective(named)
  /\ \A id \in DOMAIN index : Blob(id) = Cells(named[id])
  /\ \A w \in Words : Lookup(w) = IF w \in ToSet(named)
                                  THEN SelectInSeq(named, LAMBDA x : x = w) ELSE 0
  /\ TableAccepted /\ \E i \in DOMAIN table : table[i] = 0
=============================================================================
