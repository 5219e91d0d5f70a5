------------------------------ MODULE ChunkLists ------------------------------
(***************************************************************************)
(* Many growable lists over one pool of chunks (plugmem-arena/src/chunk.rs) *)
(* which hold the posting lists of every index.  A list is a handle its    *)
(* owner keeps: first chunk, last chunk, how many values.  The link to the *)
(* next chunk lies in the chunk itself, so linking writes to a page that   *)
(* may be mapped; a freed chain is spliced into the free list whole, and   *)
(* its chunks keep their fill until they are taken again.                  *)
(*                                                                         *)
(* A value is a record of its width and of the number it was pushed as.    *)
(***************************************************************************)
EXTENDS SequencesExt, PagedPool

CONSTANTS
  Lists,      \* the owners' handles
  Widths,     \* the widths values may have
  Payload,    \* CHUNK_PAYLOAD
  MaxChunks,  \* max_bytes
  MaxValues   \* bound: values pushed

ASSUME ChunkAssumption == /\ Widths \subseteq 1..Payload
                          /\ Payload \in Nat /\ MaxChunks \in Nat /\ MaxValues \in Nat

VARIABLES
  chunks,   \* [pool, used, free]: the pool; a page is a link and its values
  handles,  \* list -> [head, tail, len]
  pushed    \* history: list -> the values it should have

chunkVars == <<chunks, handles, pushed>>

NoList    == [head |-> 0, tail |-> 0, len |-> 0]
FreshPage == [link |-> 0, values |-> <<>>]

LinkOf(c, i)      == Page(c.pool, i).link
SetLink(c, i, to) == [c EXCEPT !.pool = Wrote(@, i, [Page(c.pool, i) EXCEPT !.link = to])]

\* The values in a chunk's used bytes; a taken chunk's old bytes lie after them.
LiveIn(c, i) ==
  LET vs == Page(c.pool, i).values
      end(n) == FoldLeft(LAMBDA sum, v : sum + v.width, 0, SubSeq(vs, 1, n))
  IN SelectSeq([n \in DOMAIN vs |-> [v |-> vs[n], last |-> end(n)]],
               LAMBDA e : e.last <= c.used[i])

LiveValues(c, i) == LET l == LiveIn(c, i) IN [n \in DOMAIN l |-> l[n].v]

-----------------------------------------------------------------------------
MayTake(c) == c.free # 0 \/ PageCount(c.pool) < MaxChunks
NextChunk(c) == IF c.free # 0 THEN c.free ELSE PageCount(c.pool) + 1

\* A bug TakeChunk must not have: the fill of the chain it was freed from.
TakeChunkStale(c) ==
  IF c.free # 0
  THEN SetLink([c EXCEPT !.free = LinkOf(c, c.free)], c.free, 0)
  ELSE [c EXCEPT !.pool = Grown(@, FreshPage), !.used = Append(@, 0)]

\* alloc_chunk: of the free list, or a new one, with no link.
TakeChunk(c) ==
  IF c.free # 0
  THEN SetLink([c EXCEPT !.free = LinkOf(c, c.free), !.used[c.free] = 0], c.free, 0)
  ELSE [c EXCEPT !.pool = Grown(@, FreshPage), !.used = Append(@, 0)]

Fits(c, h, v) == h.tail # 0 /\ c.used[h.tail] + v.width <= Payload

\* A fresh last chunk for the list.
Chained(c, h) ==
  IF h.tail = 0 THEN TakeChunk(c) ELSE SetLink(TakeChunk(c), h.tail, NextChunk(c))

\* push: a value never straddles two chunks.
Pushed(c, h, v) ==
  LET fits == Fits(c, h, v)
      d    == IF fits THEN c ELSE Chained(c, h)
      tail == IF fits THEN h.tail ELSE NextChunk(c)
      page == [Page(d.pool, tail) EXCEPT !.values = Append(LiveValues(d, tail), v)]
  IN [chunks |-> [d EXCEPT !.pool = Wrote(@, tail, page), !.used[tail] = @ + v.width],
      handle |-> [head |-> IF h.head = 0 THEN tail ELSE h.head, tail |-> tail, len |-> h.len + 1]]

\* free: the chain goes to the front of the free list.
Freed(c, h) == [SetLink(c, h.tail, c.free) EXCEPT !.free = h.head]

\* iter.
Values(c, h) ==
  LET from[i \in Nat] == IF i = 0 THEN <<>> ELSE LiveValues(c, i) \o from[LinkOf(c, i)]
  IN from[h.head]

-----------------------------------------------------------------------------
(* The image, and what a load checks.                                      *)

\* The chain of links from i; it ends at a chunk it has met before.
ChainOf(m, i) ==
  LET from[j \in Nat, seen \in SUBSET (1..Len(m.pages))] ==
        IF j = 0 \/ j \in seen THEN <<>> ELSE <<j>> \o from[m.pages[j].link, seen \cup {j}]
  IN from[i, {}]

\* dump_meta and dump_pool: a free chunk is written as empty.
ChunkImage(c) ==
  LET all  == [used |-> c.used, free |-> c.free,
               pages |-> [i \in 1..PageCount(c.pool) |->
                            [link |-> LinkOf(c, i), values |-> LiveValues(c, i)]]]
      free == ToSet(ChainOf(all, c.free))
  IN [all EXCEPT !.used  = [i \in DOMAIN @ |-> IF i \in free THEN 0 ELSE @[i]],
                 !.pages = [i \in DOMAIN @ |-> IF i \in free THEN [@[i] EXCEPT !.values = <<>>]
                                               ELSE @[i]]]

\* validate_chunks, validate_chain of each handle, and no orphan.
ChunksAccepted(m, hs) ==
  LET free    == ChainOf(m, m.free)
      of(l)   == ChainOf(m, hs[l].head)
      claimed == UNION {ToSet(of(l)) : l \in Lists}
  IN /\ \A i \in DOMAIN m.used : m.used[i] <= Payload /\ m.pages[i].link <= Len(m.pages)
     /\ \A i \in ToSet(free) : m.used[i] = 0
     /\ free # <<>> => m.pages[Last(free)].link = 0
     /\ \A l \in Lists : IF hs[l].head = 0 THEN hs[l].tail = 0
                         ELSE Last(of(l)) = hs[l].tail /\ m.pages[hs[l].tail].link = 0
     /\ \A k, l \in Lists : k # l => ToSet(of(k)) \cap ToSet(of(l)) = {}
     /\ claimed \cap ToSet(free) = {} /\ claimed \cup ToSet(free) = DOMAIN m.used

ChunksLoaded(m, pool) == [pool |-> pool, used |-> m.used, free |-> m.free]

-----------------------------------------------------------------------------
ChunkInit ==
  /\ chunks = [pool |-> OwnedPool(<<>>), used |-> <<>>, free |-> 0]
  /\ handles = [l \in Lists |-> NoList]
  /\ pushed = [l \in Lists |-> <<>>]

CountPushed == FoldFunction(LAMBDA s, n : Len(s) + n, 0, pushed)

\* The number of a value tells it from the list's others and from other lists'.
Push(l, width) ==
  LET v == [width |-> width, of |-> l, nth |-> Len(pushed[l])] IN
  /\ CountPushed < MaxValues
  /\ Fits(chunks, handles[l], v) \/ MayTake(chunks)
  /\ LET r == Pushed(chunks, handles[l], v)
     IN chunks' = r.chunks /\ handles' = [handles EXCEPT ![l] = r.handle]
  /\ pushed' = [pushed EXCEPT ![l] = Append(@, v)]

Free(l) ==
  /\ handles[l].head # 0
  /\ chunks' = Freed(chunks, handles[l])
  /\ handles' = [handles EXCEPT ![l] = NoList]
  /\ pushed' = [pushed EXCEPT ![l] = <<>>]

ReopenChunks ==
  /\ LET m == ChunkImage(chunks) IN
     /\ ChunksAccepted(m, handles)
     /\ \E pool \in Opened(m.pages) : chunks' = ChunksLoaded(m, pool)
  /\ UNCHANGED <<handles, pushed>>

ChunkNext == ReopenChunks \/ \E l \in Lists : Free(l) \/ \E w \in Widths : Push(l, w)

ChunkSpec == ChunkInit /\ [][ChunkNext]_chunkVars

-----------------------------------------------------------------------------
(* Property.                                                               *)

\* Lists share chunks over time but never bytes: each list reads back exactly the
\* values pushed to it since it was last freed, in order, whoever had its chunks
\* before; no chunk leaks; and the image, in which free chunks are blanked, is one
\* the load accepts and reads the same.
ListsReadBack ==
  LET m == ChunkImage(chunks) IN
  /\ \A l \in Lists : /\ Values(chunks, handles[l]) = pushed[l]
                      /\ handles[l].len = Len(pushed[l])
                      /\ Values(ChunksLoaded(m, OwnedPool(m.pages)), handles[l]) = pushed[l]
  /\ ChunksAccepted(m, handles)
=============================================================================
