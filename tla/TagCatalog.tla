----------------------------- MODULE TagCatalog -----------------------------
(***************************************************************************)
(* The current-tag catalog of the engine (plugmem-core/src/memory/tags.rs): *)
(* the counts of the last snapshot under a log-structured overlay, and the *)
(* pages a caller walks through with a cursor while the counts change.     *)
(* Engine.tla has the catalog as one function of counts; this is how that  *)
(* function is stored.                                                     *)
(*                                                                         *)
(* A sorted run of entries is a function from names to counts.  Names are  *)
(* numbers in lexical order and a prefix is the interval of the names that *)
(* begin with it.  The fingerprint, an exclusive or of one hash per entry, *)
(* is a set under symmetric difference.                                    *)
(***************************************************************************)
EXTENDS Sequences, FiniteSetsExt

CONSTANTS
  TagNames,     \* a set of numbers
  NamePrefixes, \* intervals [lo, hi] of them
  PageLimit,    \* TagQuery::limit
  RunBase,      \* RUN_BASE
  MaxCount      \* bound: facts that carry one tag

ASSUME CatalogAssumption ==
  /\ TagNames \subseteq Nat \ {0} /\ IsFiniteSet(TagNames)
  /\ PageLimit \in Nat \ {0} /\ RunBase \in Nat \ {0} /\ MaxCount \in Nat

VARIABLES
  tags,     \* [base, runs, buffer, fingerprint]
  carried,  \* history: name -> current facts that carry it
  scan      \* a caller's walk: its prefix, cursor and the items so far

catalogVars == <<tags, carried, scan>>

NoRun == <<>>

EmptyTags == [base |-> NoRun, runs |-> <<>>, buffer |-> NoRun, fingerprint |-> {}]

-----------------------------------------------------------------------------
\* overlay_entry: the buffer's, or that of the first run that has the name.
Holders(runs, n) == {l \in DOMAIN runs : n \in DOMAIN runs[l]}
IsOverridden(t, n) == n \in DOMAIN t.buffer \/ Holders(t.runs, n) # {}
OverlayEntry(t, n) ==
  IF n \in DOMAIN t.buffer THEN t.buffer[n] ELSE t.runs[Min(Holders(t.runs, n))][n]

Count(t, n) == IF IsOverridden(t, n) THEN OverlayEntry(t, n)
               ELSE IF n \in DOMAIN t.base THEN t.base[n] ELSE 0

\* A bug Fingerprint must not have: an entry that comes is added, none that goes removed.
FingerprintAdding(t, n, new) == t.fingerprint \cup (IF new = 0 THEN {} ELSE {<<n, new>>})

\* change: the old entry out of the fingerprint, the new one in.
Fingerprint(t, n, new) ==
  LET entry(count) == IF count = 0 THEN {} ELSE {<<n, count>>}
  IN SymDiff(SymDiff(t.fingerprint, entry(Count(t, n))), entry(new))

\* flush_buffer: the carry goes up until a level is free, merging on the way.
Carried(runs, carry) ==
  LET free  == {l \in DOMAIN runs : runs[l] = NoRun}
      top   == IF free = {} THEN Len(runs) + 1 ELSE Min(free)
      below == SubSeq(runs, 1, top - 1)
      all   == [n \in DOMAIN carry \cup UNION {DOMAIN below[l] : l \in DOMAIN below} |->
                  IF n \in DOMAIN carry THEN carry[n] ELSE below[Min(Holders(below, n))][n]]
  IN [l \in 1..(IF free = {} THEN top ELSE Len(runs)) |->
        IF l < top THEN NoRun ELSE IF l = top THEN all ELSE runs[l]]

\* An override where the name has one, or a new one in the buffer.
Override(t, n, new) ==
  LET b == [m \in DOMAIN t.buffer \cup {n} |-> IF m = n THEN new ELSE t.buffer[m]]
  IN IF n \in DOMAIN t.buffer THEN [t EXCEPT !.buffer[n] = new]
     ELSE IF Holders(t.runs, n) # {} THEN [t EXCEPT !.runs[Min(Holders(t.runs, n))][n] = new]
     ELSE IF Cardinality(DOMAIN b) < RunBase THEN [t EXCEPT !.buffer = b]
     ELSE [t EXCEPT !.buffer = NoRun, !.runs = Carried(@, b)]

Changed(t, n, new) ==
  IF new = Count(t, n) THEN t
  ELSE [Override(t, n, new) EXCEPT !.fingerprint = Fingerprint(t, n, new)]

\* dump: the base where nothing overrides it, and the overrides above zero.
Dumped(t) ==
  LET kept == {n \in DOMAIN t.base : ~IsOverridden(t, n)}
              \cup {n \in TagNames : IsOverridden(t, n) /\ OverlayEntry(t, n) # 0}
  IN [n \in kept |-> Count(t, n)]

\* load of a dump, and from_counts.
LoadedTags(counts) == [EmptyTags EXCEPT !.base = counts,
                                        !.fingerprint = {<<n, counts[n]>> : n \in DOMAIN counts}]

-----------------------------------------------------------------------------
(* Pages.                                                                  *)

\* What a source shows of a page: its names after the floor, the base's unless
\* overridden, none with a count of zero.
Sources(t) == <<t.base, t.buffer>> \o t.runs
Visible(t, source, after, prefix) ==
  {n \in DOMAIN Sources(t)[source] :
     /\ n > after /\ prefix[1] <= n /\ n <= prefix[2]
     /\ Sources(t)[source][n] # 0
     /\ ~(source = 1 /\ IsOverridden(t, n))}

\* page's merge: limit + 1 entries at most, in order, each source's in turn.
Merged(t, after, prefix) ==
  LET entries == UNION {{<<n, s>> : n \in Visible(t, s, after, prefix)} : s \in DOMAIN Sources(t)}
      before(d, e) == d[1] < e[1] \/ (d[1] = e[1] /\ d[2] < e[2])
      entry(i) == CHOOSE e \in entries : Cardinality({d \in entries : before(d, e)}) = i - 1
  IN [i \in 1..Min({Cardinality(entries), PageLimit + 1}) |->
        <<entry(i)[1], Sources(t)[entry(i)[2]][entry(i)[1]]>>]

NoScan == [prefix |-> <<>>, cursor |-> <<>>, items |-> <<>>, done |-> FALSE]

\* page, with no cursor at first and then with the one of the page before.
NextPageOf(prefix, after, got) ==
  LET found == Merged(tags, after, prefix)
      more  == Len(found) > PageLimit
  IN scan' = [prefix |-> prefix, done |-> ~more,
              items  |-> got \o (IF more THEN SubSeq(found, 1, PageLimit) ELSE found),
              cursor |-> IF more THEN <<tags.fingerprint, found[PageLimit][1]>> ELSE <<>>]

FirstPageOf(prefix) == NextPageOf(prefix, 0, <<>>) /\ UNCHANGED <<tags, carried>>

\* The cursor is of this catalog as it stands; if not, StaleCursor ends the walk.
FurtherPage ==
  /\ scan.cursor # <<>>
  /\ IF scan.cursor[1] = tags.fingerprint
     THEN NextPageOf(scan.prefix, scan.cursor[2], scan.items)
     ELSE scan' = NoScan
  /\ UNCHANGED <<tags, carried>>

-----------------------------------------------------------------------------
CatalogInit == /\ tags = EmptyTags /\ scan = NoScan
               /\ carried = [n \in TagNames |-> 0]

\* A fact with the tag becomes current, or stops being so.
ChangeTag(n, new) ==
  /\ new \in {carried[n] + 1, carried[n] - 1} \cap (0..MaxCount)
  /\ tags' = Changed(tags, n, new)
  /\ carried' = [carried EXCEPT ![n] = new]
  /\ scan' = [scan EXCEPT !.done = FALSE]   \* a finished walk is history

ReopenCatalog == /\ tags' = LoadedTags(Dumped(tags))
                 /\ UNCHANGED <<carried, scan>>

CatalogNext == \/ ReopenCatalog \/ FurtherPage
               \/ \E p \in NamePrefixes : FirstPageOf(p)
               \/ \E n \in TagNames, c \in 0..MaxCount : ChangeTag(n, c)

CatalogSpec == CatalogInit /\ [][CatalogNext]_catalogVars

-----------------------------------------------------------------------------
(* Property.                                                               *)

\* The listing of a prefix: the tags that some fact carries, each once and in order.
IsListing(items, prefix) ==
  /\ \A i, j \in DOMAIN items : i < j => items[i][1] < items[j][1]
  /\ {items[i] : i \in DOMAIN items} =
       {<<n, carried[n]>> : n \in {m \in TagNames : prefix[1] <= m /\ m <= prefix[2] /\ carried[m] # 0}}

\* The catalog counts what is there through every flush, merge and reopening; and a
\* walk that reaches its end without StaleCursor has returned the catalog as it now
\* stands, each tag once and in order, whatever changed and changed back between two
\* of its pages, and although a snapshot has cleared the overlay meanwhile.
WalksAddUp ==
  /\ \A n \in TagNames : Count(tags, n) = carried[n] /\ Count(LoadedTags(Dumped(tags)), n) = carried[n]
  /\ scan.done => IsListing(scan.items, scan.prefix)
=============================================================================
