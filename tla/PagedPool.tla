------------------------------ MODULE PagedPool ------------------------------
(***************************************************************************)
(* Paged (plugmem-arena/src/paged.rs): pages of which those present at     *)
(* open belong to a mapped file and are copied before the first write.     *)
(* Operators from a pool to a pool; Arena and ChunkLists are built on it.  *)
(*                                                                         *)
(* Pages count from 1, and 0 stands for the code's NONE.  An owned pool is *)
(* one with an empty base.                                                 *)
(***************************************************************************)
EXTENDS Naturals, Sequences

CONSTANT MaxMapped  \* bound: pages of an image that is mapped, not copied

\* over: base page -> its copy in `copies`, or 0.
Borrowed(pages) == [base |-> pages, over |-> [i \in DOMAIN pages |-> 0],
                    copies |-> <<>>, grown |-> <<>>]
OwnedPool(pages) == [Borrowed(<<>>) EXCEPT !.grown = pages]

\* load copies an image's pages, load_overlay maps them.
Opened(pages) == {OwnedPool(pages)} \cup IF Len(pages) <= MaxMapped THEN {Borrowed(pages)} ELSE {}

PageCount(p) == Len(p.base) + Len(p.grown)

Page(p, i) ==
  IF i > Len(p.base) THEN p.grown[i - Len(p.base)]
  ELSE IF p.over[i] # 0 THEN p.copies[p.over[i]]
  ELSE p.base[i]

\* Still the file's own page.
IsMapped(p, i) == i <= Len(p.base) /\ p.over[i] = 0

\* page_mut, and the write through it.
Wrote(p, i, page) ==
  IF i > Len(p.base) THEN [p EXCEPT !.grown[i - Len(p.base)] = page]
  ELSE IF p.over[i] # 0 THEN [p EXCEPT !.copies[p.over[i]] = page]
  ELSE [p EXCEPT !.copies = Append(@, page), !.over[i] = Len(p.copies) + 1]

\* The owner extends grown_tail_mut by one page.
Grown(p, page) == [p EXCEPT !.grown = Append(@, page)]
=============================================================================
