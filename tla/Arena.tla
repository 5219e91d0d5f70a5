-------------------------------- MODULE Arena --------------------------------
(***************************************************************************)
(* The sharded sorted arena (plugmem-arena/src/arena.rs) that holds every  *)
(* record and index entry of the engine.  Each shard owns a chain of pages *)
(* in ascending key ranges; a flat directory caches every chain page's     *)
(* first key and finds the page of a key; full pages split, emptied ones   *)
(* are recycled.  An image drops what can be derived: directory, back      *)
(* links and tails.                                                        *)
(*                                                                         *)
(* A record is its key.  Pages and directory entries count from 1.         *)
(***************************************************************************)
EXTENDS SequencesExt, PagedPool

CONSTANTS
  ShardOf,       \* key -> 1..Shards; ascending with the key (ShardMode::Ordered)
  Shards,
  SlotsPerPage,  \* PAGE_BYTES / SIZE
  MaxPages       \* max_bytes

Keys == DOMAIN ShardOf

ASSUME ArenaAssumption ==
  /\ Keys \subseteq Nat /\ \A k \in Keys : ShardOf[k] \in 1..Shards
  /\ \A j, k \in Keys : j < k => ShardOf[j] <= ShardOf[k]
  /\ SlotsPerPage \in Nat \ {0} /\ MaxPages \in Nat

VARIABLES
  arena,  \* the structure
  held    \* history: the keys a map would hold

arenaVars == <<arena, held>>

\* count: how many slots of a page are in use.  What lies after them is never read,
\* and forgotten here except on a mapped page.
\* dir: all chain pages, shard after shard; runs[s] + 1 is where shard s begins.
EmptyArena ==
  [pool |-> OwnedPool(<<>>), count |-> <<>>, next |-> <<>>, prev |-> <<>>,
   head |-> [s \in 1..Shards |-> 0], tail |-> [s \in 1..Shards |-> 0],
   dir |-> <<>>, runs |-> [s \in 1..Shards + 1 |-> 0], free |-> 0, total |-> 0]

PageKeys(a, p) == SubSeq(Page(a.pool, p), 1, a.count[p])
FirstKey(a, p) == Page(a.pool, p)[1]

-----------------------------------------------------------------------------
(* Pages and the directory.                                                *)

MayAlloc(a) == a.free # 0 \/ PageCount(a.pool) < MaxPages

NextPage(a) == IF a.free # 0 THEN a.free ELSE PageCount(a.pool) + 1

\* alloc_page: of the free list, or a new one.
AllocPage(a) ==
  IF a.free # 0
  THEN [a EXCEPT !.free = a.next[a.free], !.next[a.free] = 0, !.prev[a.free] = 0]
  ELSE [a EXCEPT !.pool = Grown(@, <<>>), !.next = Append(@, 0), !.prev = Append(@, 0),
                 !.count = Append(@, 0)]

\* dir_insert, with a key still to be read, and dir_remove.
DirInsert(a, s, i, p) ==
  [a EXCEPT !.dir = InsertAt(@, i, [key |-> 0, page |-> p]),
            !.runs = [r \in DOMAIN @ |-> IF r > s THEN @[r] + 1 ELSE @[r]]]
DirRemove(a, s, i) ==
  [a EXCEPT !.dir = RemoveAt(@, i),
            !.runs = [r \in DOMAIN @ |-> IF r > s THEN @[r] - 1 ELSE @[r]]]

\* refresh_dir_key.
Refresh(a, i) == [a EXCEPT !.dir[i].key = FirstKey(a, a.dir[i].page)]

\* A page gets these keys.
Filled(a, p, keys) == [a EXCEPT !.pool = Wrote(@, p, keys), !.count[p] = Len(keys)]

\* find_page: binary search for the last entry whose key is not above k, or the
\* shard's first; 0 when the shard is empty.
Covering(a, s, k) ==
  LET cut[left \in Nat, right \in Nat] ==
        IF left >= right THEN left
        ELSE LET mid == left + (right - left) \div 2
             IN IF a.dir[mid + 1].key <= k THEN cut[mid + 1, right] ELSE cut[left, mid]
  IN IF a.runs[s] = a.runs[s + 1] THEN 0 ELSE cut[a.runs[s] + 1, a.runs[s + 1]]

\* search: how many keys of the page come before k.
Before(keys, k) == Cardinality({i \in DOMAIN keys : keys[i] < k})

-----------------------------------------------------------------------------
(* insert and remove.                                                      *)

\* The chain of an empty shard begins.
FirstPage(a, s) ==
  LET p == NextPage(a)
  IN DirInsert([AllocPage(a) EXCEPT !.head[s] = p, !.tail[s] = p], s, a.runs[s] + 1, p)

\* A fresh page after entry i, in the chain and in the directory.
LinkAfter(a, s, i) ==
  LET p == a.dir[i].page
      q == NextPage(a)
      after == a.next[p]
      b == [AllocPage(a) EXCEPT !.next[p] = q]
      c == [b EXCEPT !.next[q] = after, !.prev[q] = p]
      d == IF after = 0 THEN [c EXCEPT !.tail[s] = q] ELSE [c EXCEPT !.prev[after] = q]
  IN DirInsert(d, s, i + 1, q)

\* split: the keys of a full page and k over two pages.  An ascending load leaves
\* the full page full; a single-slot page that moves is the case of an empty half.
Halves(keys, k) ==
  LET pos  == Before(keys, k)
      half == SlotsPerPage \div 2
      low  == SubSeq(keys, 1, half)
      high == SubSeq(keys, half + 1, SlotsPerPage)
  IN IF pos = SlotsPerPage THEN <<keys, <<k>>>>
     ELSE IF pos <= half THEN <<InsertAt(low, pos + 1, k), high>>
     ELSE <<low, InsertAt(high, pos - half + 1, k)>>

SplitWith(a, s, i, k) ==
  LET p == a.dir[i].page
      h == Halves(PageKeys(a, p), k)
      b == LinkAfter(a, s, i)
      c == Filled(b, b.dir[i + 1].page, h[2])
      d == IF h[1] = PageKeys(a, p) THEN c ELSE Filled(c, p, h[1])
  IN Refresh(Refresh(d, i + 1), i)

\* Into a page with room.
PutIn(a, i, k) ==
  LET p    == a.dir[i].page
      keys == PageKeys(a, p)
      pos  == Before(keys, k)
      b    == Filled(a, p, InsertAt(keys, pos + 1, k))
  IN IF pos = 0 THEN Refresh(b, i) ELSE b

\* insert_bytes: "duplicate", "full" or "stored".
InsertOutcome(a, k) ==
  LET i == Covering(a, ShardOf[k], k) IN
  IF i # 0 /\ k \in ToSet(PageKeys(a, a.dir[i].page)) THEN "duplicate"
  ELSE IF (i = 0 \/ a.count[a.dir[i].page] = SlotsPerPage) /\ ~MayAlloc(a) THEN "full"
  ELSE "stored"

Inserted(a, k) ==
  LET s == ShardOf[k]
      i == Covering(a, s, k)
      b == IF i = 0 THEN PutIn(FirstPage(a, s), a.runs[s] + 1, k)
           ELSE IF a.count[a.dir[i].page] = SlotsPerPage THEN SplitWith(a, s, i, k)
           ELSE PutIn(a, i, k)
  IN [b EXCEPT !.total = @ + 1]

\* An emptied page leaves its chain for the free list.
Unlinked(a, s, i) ==
  LET p      == a.dir[i].page
      before == IF i > a.runs[s] + 1 THEN a.dir[i - 1].page ELSE 0
      after  == a.next[p]
      b == IF before = 0 THEN [a EXCEPT !.head[s] = after] ELSE [a EXCEPT !.next[before] = after]
      c == IF after = 0 THEN [b EXCEPT !.tail[s] = before] ELSE [b EXCEPT !.prev[after] = before]
  IN DirRemove([c EXCEPT !.next[p] = a.free, !.prev[p] = 0, !.free = p], s, i)

\* The key leaves its page; the page's last leaves without a write.
TakenOut(a, i, k) ==
  LET p    == a.dir[i].page
      keys == PageKeys(a, p)
      b    == IF k = Last(keys) /\ IsMapped(a.pool, p) THEN [a EXCEPT !.count[p] = @ - 1]
              ELSE Filled(a, p, SelectSeq(keys, LAMBDA j : j # k))
  IN IF k = keys[1] /\ Len(keys) > 1 THEN Refresh(b, i) ELSE b

Holds(a, k) == LET i == Covering(a, ShardOf[k], k)
               IN i # 0 /\ k \in ToSet(PageKeys(a, a.dir[i].page))

Removed(a, k) ==
  LET s == ShardOf[k]
      i == Covering(a, s, k)
      b == [TakenOut(a, i, k) EXCEPT !.total = @ - 1]
  IN IF b.count[a.dir[i].page] = 0 THEN Unlinked(b, s, i) ELSE b

-----------------------------------------------------------------------------
(* The image: dump_meta and dump_pool, load and load_overlay.              *)

Image(a) == [head |-> a.head, next |-> a.next, count |-> a.count, free |-> a.free,
             total |-> a.total, pages |-> [p \in 1..PageCount(a.pool) |-> PageKeys(a, p)]]

\* The pages from p on along `next`, as the load walks them; it stops at a page it
\* has seen, which is corrupt.
Walk(m, p) ==
  LET from[q \in Nat, seen \in SUBSET (1..Len(m.pages))] ==
        IF q = 0 \/ q \in seen THEN <<>> ELSE <<q>> \o from[m.next[q], seen \cup {q}]
  IN from[p, {}]

\* load_impl's checks.
Accepts(m) ==
  LET chains == [s \in 1..Shards |-> Walk(m, m.head[s])]
      free   == Walk(m, m.free)
      walked == FlattenSeq(chains) \o free
  IN /\ \A p \in 1..Len(m.pages) : m.count[p] <= SlotsPerPage
     /\ IsInjective(walked) /\ ToSet(walked) = 1..Len(m.pages)
     /\ \A p \in ToSet(free) : m.count[p] = 0
     /\ \A s \in 1..Shards : \A i \in DOMAIN chains[s] :
          LET keys == m.pages[chains[s][i]]
          IN /\ keys # <<>> /\ ShardOf[keys[1]] = s
             /\ i > 1 => Last(m.pages[chains[s][i - 1]]) < keys[1]
     /\ FoldFunction(+, 0, m.count) = m.total

\* What load derives, whether it copies the pages or maps them.
Reloaded(m, pool) ==
  LET chains == [s \in 1..Shards |-> Walk(m, m.head[s])]
      all    == FlattenSeq(chains)
      place  == [s \in 1..Shards + 1 |-> Len(FlattenSeq(SubSeq(chains, 1, s - 1)))]
      chained == ToSet(all)
      before(p) == CHOOSE q \in chained : m.next[q] = p
  IN [pool |-> pool, head |-> m.head, next |-> m.next, count |-> m.count, free |-> m.free,
      total |-> m.total,
      prev |-> [p \in 1..Len(m.pages) |->
                  IF p \in chained /\ p \notin ToSet(m.head) THEN before(p) ELSE 0],
      tail |-> [s \in 1..Shards |-> IF chains[s] = <<>> THEN 0 ELSE Last(chains[s])],
      dir  |-> [i \in DOMAIN all |-> [key |-> m.pages[all[i]][1], page |-> all[i]]],
      runs |-> place]

-----------------------------------------------------------------------------
(* The readers.                                                            *)

\* iter: the chains one after the other.
Iterated(a) ==
  LET from[s \in 1..Shards + 1, p \in Nat] ==
        IF p # 0 THEN PageKeys(a, p) \o from[s, a.next[p]]
        ELSE IF s = Shards + 1 THEN <<>> ELSE from[s + 1, a.head[s]]
  IN from[1, 0]

\* range: where the scan begins, at the covering page's first key not below `lo`, or
\* with the next shard; 0 is the end of a chain.
ScanFrom(a, lo) ==
  LET s == ShardOf[lo]
      i == Covering(a, s, lo)
      p == a.dir[i].page
  IN IF i = 0 THEN [keys |-> <<>>, page |-> 0, shard |-> s + 1]
     ELSE [keys  |-> SubSeq(PageKeys(a, p), Before(PageKeys(a, p), lo) + 1, a.count[p]),
           page  |-> a.next[p], shard |-> s + 1]

\* range_rev: at the last key below `hi`, or with the shard before.
ScanBackFrom(a, hi) ==
  LET s == ShardOf[hi]
      i == Covering(a, s, hi)
      p == a.dir[i].page
  IN IF i = 0 THEN [keys |-> <<>>, page |-> 0, shard |-> s - 1]
     ELSE [keys  |-> Reverse(SubSeq(PageKeys(a, p), 1, Before(PageKeys(a, p), hi))),
           page  |-> a.prev[p], shard |-> s - 1]

\* Range::next: along the chain, then into the next shard, up to a key not below `hi`.
Ranged(a, lo, hi) ==
  LET from[s \in 1..Shards + 1, p \in Nat] ==
        IF p # 0 THEN PageKeys(a, p) \o from[s, a.next[p]]
        ELSE IF s = Shards + 1 THEN <<>> ELSE from[s + 1, a.head[s]]
      start == ScanFrom(a, lo)
      scan  == start.keys \o from[start.shard, start.page]
      stop  == SelectInSeq(scan, LAMBDA k : k >= hi)
  IN IF stop = 0 THEN scan ELSE SubSeq(scan, 1, stop - 1)

\* RangeRev::next: along the back links, then into the shard before, down to a key
\* below `lo`.
RangedBack(a, lo, hi) ==
  LET from[s \in 0..Shards, p \in Nat] ==
        IF p # 0 THEN Reverse(PageKeys(a, p)) \o from[s, a.prev[p]]
        ELSE IF s = 0 THEN <<>> ELSE from[s - 1, a.tail[s]]
      start == ScanBackFrom(a, hi)
      scan  == start.keys \o from[start.shard, start.page]
      stop  == SelectInSeq(scan, LAMBDA k : k < lo)
  IN IF lo >= hi THEN <<>> ELSE IF stop = 0 THEN scan ELSE SubSeq(scan, 1, stop - 1)

-----------------------------------------------------------------------------
ArenaInit == arena = EmptyArena /\ held = {}

ArenaInsert(k) ==
  /\ InsertOutcome(arena, k) = "stored"
  /\ arena' = Inserted(arena, k) /\ held' = held \cup {k}

ArenaRemove(k) ==
  /\ Holds(arena, k)
  /\ arena' = Removed(arena, k) /\ held' = held \ {k}

\* A snapshot is written and opened again, mapped or copied.
Reopen ==
  /\ LET m == Image(arena) IN
     /\ Accepts(m)
     /\ \E pool \in Opened(m.pages) : arena' = Reloaded(m, pool)
  /\ UNCHANGED held

ArenaNext == Reopen \/ \E k \in Keys : ArenaInsert(k) \/ ArenaRemove(k)

ArenaSpec == ArenaInit /\ [][ArenaNext]_arenaVars

-----------------------------------------------------------------------------
(* Property.                                                               *)

Sorted(S) == SetToSortSeq(S, <)

\* After any inserts, splits, removals, recyclings and reopenings, mapped pages
\* included, the arena answers as a sorted map would: lookups, duplicates, whole
\* and range scans in both directions; it refuses only what has no page left; and
\* the image it writes passes the load's own checks and brings back what was
\* dropped from it.  A stale directory key would misdirect a lookup "instead of
\* failing loudly" (arena.rs, debug_assert_dir_key).
ArenaIsASortedMap ==
  /\ \A k \in Keys : /\ Holds(arena, k) <=> k \in held
                     /\ (InsertOutcome(arena, k) = "duplicate") <=> k \in held
                     /\ InsertOutcome(arena, k) = "full" => ~MayAlloc(arena)
  /\ Iterated(arena) = Sorted(held) /\ arena.total = Cardinality(held)
  /\ \A lo, hi \in Keys :
       LET within == Sorted({k \in held : lo <= k /\ k < hi})
       IN Ranged(arena, lo, hi) = within /\ RangedBack(arena, lo, hi) = Reverse(within)
  /\ Accepts(Image(arena))
  /\ Reloaded(Image(arena), arena.pool) = arena
=============================================================================
