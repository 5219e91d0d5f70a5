------------------------------ MODULE Container ------------------------------
(***************************************************************************)
(* The snapshot file as bytes (plugmem-core/src/snapshot.rs): its header,  *)
(* config block, section table and aligned bodies, written in two passes;  *)
(* what damage does to it; the structural parse every open starts with;    *)
(* the resumable scrub that checks the stored hashes slice by slice        *)
(* (plugmem-host/src/readonly.rs); and what an open makes of the stored    *)
(* configuration and the caller's (config.rs, memory/persist.rs).          *)
(*                                                                         *)
(* A cell stands for some bytes, Align of them for the 64-byte unit; a     *)
(* cell is a tuple named by its first element.  A hash is the sequence it  *)
(* is taken of, so two never collide.                                      *)
(***************************************************************************)
EXTENDS Integers, Sequences, TLC
LOCAL INSTANCE FiniteSetsExt
LOCAL INSTANCE SequencesExt

CONSTANTS
  Configs,      \* the configurations a database is made with
  Callers,      \* the configurations it is opened with
  Layouts,      \* the shard counts maintenance may have given it
  EdgeKinds,    \* the edge sections a build writes, possibly none
  Slices,       \* the scrub's budgets
  MaxCellShards, MaxDegree

ASSUME ContainerAssumption ==
  /\ \A s \in Slices : s \in Nat
  /\ \A c \in Configs : DOMAIN c = {"dim", "shards", "limits", "degree", "ef", "uuid"}

VARIABLES
  made,    \* the file as it was written, and the configuration it was written with
  image,   \* the file as it is
  scan,    \* the cursor of a scrub
  opened   \* what an open with some configuration answered

containerVars == <<made, image, scan, opened>>

-----------------------------------------------------------------------------
(* Cells and the layout.                                                   *)

Align  == 4
HashAt == 2              \* the first of the two cells of the file hash
HashCells == {HashAt, HashAt + 1}
EntryCells == 2

Byte(n) == <<"byte", n>>
Zero    == Byte(0)
Zeros(n) == [i \in 1..n |-> Zero]
AlignUp(n) == ((n + Align - 1) \div Align) * Align

PadLen(offset, len) == AlignUp(offset + len) - (offset + len)

Body(file, from, to) == SubSeq(file, from + 1, to)
AllZero(file, from, to) == \A i \in from + 1..to : file[i] = Zero

\* file_hash: of the whole file, its own field taken as zero.
Unhashed(file) == [i \in DOMAIN file |-> IF i \in HashCells THEN Zero ELSE file[i]]
FileHash(file) == <<<<"low", Unhashed(file)>>, <<"high", Unhashed(file)>>>>
SectionHash(body) == <<"hash", body>>

HeaderCell(count, configLen) == <<"head", count, configLen>>
Encoded(cfg) == <<"config", cfg>>      \* encode
ConfigLen == 1
TableStart == AlignUp(Align + ConfigLen)

-----------------------------------------------------------------------------
(* The writer.                                                             *)

\* emit_sections_from: an arena as wide as its shards, the edges (this build
\* writes all of them), a graph as wide as its degree, a vector as wide as the
\* dimension.  Some have no bytes.
Filled(n, v) == [i \in 1..n |-> Byte(v)]
Emitted(cfg, edges) ==
  <<[kind |-> "facts", body |-> Filled(cfg.shards, 1)]>>
  \o SetToSeq({[kind |-> k, body |-> <<>>] : k \in edges})
  \o <<[kind |-> "vectors", body |-> Filled(cfg.dim, 0)],
       [kind |-> "graph",   body |-> Filled(cfg.degree, 2)]>>

\* build_prefix: everything before the first body, from the sections' sizes.
Offsets(sections) ==
  LET at[i \in 1..Len(sections)] ==
        IF i = 1 THEN AlignUp(TableStart + EntryCells * Len(sections))
                 ELSE AlignUp(at[i - 1] + Len(sections[i - 1].body))
  IN  at
Prefix(cfg, sections) ==
  LET at == Offsets(sections)
      entries == [i \in 1..Len(sections) |->
                    <<<<"entry", sections[i].kind, at[i], Len(sections[i].body)>>,
                      SectionHash(sections[i].body)>>]
      table == FlattenSeq(entries)
  IN  <<HeaderCell(Len(sections), ConfigLen), Zero, Zero, <<"version", 1>>, Encoded(cfg)>>
        \o Zeros(TableStart - Align - ConfigLen)
        \o table \o Zeros(PadLen(TableStart, Len(table)))

\* The configuration with the layout the sections really have.
StoredConfig(cfg, layout) == [cfg EXCEPT !.shards = layout]

\* write_snapshot_reconfigured: the prefix, then every body and its padding, then
\* the hash of it all patched into the header.
WriteSnapshot(cfg, layout, edges) ==
  LET sections == Emitted([cfg EXCEPT !.shards = layout], edges)
      at       == Offsets(sections)
      streamed == Prefix(StoredConfig(cfg, layout), sections)
                  \o FlattenSeq([i \in 1..Len(sections) |->
                       sections[i].body \o Zeros(PadLen(at[i], Len(sections[i].body)))])
      hash     == FileHash(streamed)
  IN  [i \in DOMAIN streamed |-> IF i \in HashCells THEN hash[i - HashAt + 1] ELSE streamed[i]]

\* SnapshotWriter::finish: the same file laid out in one buffer, a section at its
\* offset and zeros between.
Finished(cfg, layout, edges) ==
  LET sections == Emitted([cfg EXCEPT !.shards = layout], edges)
      at       == Offsets(sections)
      end      == AlignUp(at[Len(sections)] + Len(sections[Len(sections)].body))
      prefix   == Prefix([cfg EXCEPT !.shards = layout], sections)
      holds(i, k) == at[k] < i /\ i <= at[k] + Len(sections[k].body)
      cell(i)  == IF i <= Len(prefix) THEN prefix[i]
                  ELSE IF \E k \in DOMAIN at : holds(i, k)
                       THEN LET k == CHOOSE k \in DOMAIN at : holds(i, k)
                            IN  sections[k].body[i - at[k]]
                       ELSE Zero
      buffer   == [i \in 1..end |-> cell(i)]
      hash     == FileHash(buffer)
  IN  [i \in 1..end |-> IF i \in HashCells THEN hash[i - HashAt + 1] ELSE buffer[i]]

-----------------------------------------------------------------------------
(* The parse.                                                              *)

IsEntry(cell) == cell[1] = "entry"
Count(file) == file[1][2]
EntryAt(file, i) == TableStart + EntryCells * (i - 1) + 1

\* The sections in file order, their stored hashes not looked at.
Parsed(file) ==
  [i \in 1..Count(file) |->
     [kind  |-> file[EntryAt(file, i)][2], start |-> file[EntryAt(file, i)][3],
      len   |-> file[EntryAt(file, i)][4], want  |-> file[EntryAt(file, i) + 1]]]

\* Snapshot::parse: framing, the canonical layout and bounds; no hash.
Parses(file) ==
  /\ Len(file) >= Align /\ Len(file) % Align = 0
  /\ file[1][1] = "head" /\ file[1][3] = ConfigLen
  /\ TableStart + EntryCells * Count(file) <= Len(file)
  /\ AllZero(file, Align + ConfigLen, TableStart)
  /\ LET tableEnd == TableStart + EntryCells * Count(file)
     IN  /\ AllZero(file, tableEnd, AlignUp(tableEnd))
         /\ \A i \in 1..Count(file) : IsEntry(file[EntryAt(file, i)])
         /\ LET s == Parsed(file)
                end(i) == s[i].start + s[i].len
                next(i) == AlignUp(IF i = 0 THEN tableEnd ELSE end(i))
            IN  /\ \A i \in DOMAIN s :
                     /\ s[i].start = next(i - 1)
                     /\ end(i) <= Len(file)
                     /\ \A j \in 1..i - 1 : s[j].kind # s[i].kind
                     /\ AllZero(file, end(i), Min({AlignUp(end(i)), Len(file)}))
                /\ next(Len(s)) = Len(file)

-----------------------------------------------------------------------------
(* The scrub.                                                              *)

NoScan == [state |-> "none"]

\* A bug FeedFile must not have: the field is only taken as zero when a piece holds
\* all of it.
FeedFileWhole(file, from, to) ==
  [i \in 1..to - from |->
     IF from + i \in HashCells /\ HashCells \subseteq from + 1..to THEN Zero ELSE file[from + i]]

\* feed_file: a piece of the file into its running hash.
FeedFile(file, from, to) ==
  [i \in 1..to - from |-> IF from + i \in HashCells THEN Zero ELSE file[from + i]]

Fail(c) == [c EXCEPT !.state = "corrupt"]

\* complete_section: what was fed is what was stored, and the next one starts.
CompleteSection(c) ==
  IF SectionHash(c.fed) = c.sections[c.sec].want
    THEN [c EXCEPT !.sec = @ + 1, !.fed = <<>>] ELSE Fail(c)

\* Sections with no bytes end where they start.
FlushBlock(c) ==
  LET n == Len(c.sections)
      run[k \in 0..n] ==
        IF k = 0 THEN c
        ELSE LET d == run[k - 1]
             IN  IF /\ d.state = "running" /\ d.sec <= n
                    /\ d.sections[d.sec].len = 0
                    /\ d.pos = d.sections[d.sec].start \/ d.pos = Len(image)
                   THEN CompleteSection(d) ELSE d
  IN  run[n]

\* One turn of next()'s loop: up to the end of the body or the gap it is in.
Chunk(c) ==
  LET d        == FlushBlock(c)
      inside   == d.sec <= Len(d.sections) /\ d.pos >= d.sections[d.sec].start
      boundary == IF d.sec > Len(d.sections) THEN Len(image)
                  ELSE IF inside THEN d.sections[d.sec].start + d.sections[d.sec].len
                  ELSE d.sections[d.sec].start
      end      == Min({d.pos + d.left, boundary})
      fed      == [d EXCEPT !.file = @ \o FeedFile(image, d.pos, end),
                            !.fed  = IF inside THEN @ \o Body(image, d.pos, end) ELSE @,
                            !.left = @ - (end - d.pos),
                            !.pos  = end]
  IN  IF d.state # "running" THEN d
      ELSE IF inside /\ end = boundary THEN CompleteSection(fed) ELSE fed

\* The stored hash of the file, unless its field is zero: "no file hash".
CheckFile(c) ==
  LET stored == <<image[HashAt], image[HashAt + 1]>>
  IN  IF c.state # "running" THEN c
      ELSE IF stored # <<Zero, Zero>> /\ stored # <<<<"low", c.file>>, <<"high", c.file>>>>
        THEN Fail(c) ELSE [c EXCEPT !.state = "clean"]

\* ScrubCursor::next: slices until the budget is spent or the file is at its end.
Slice(c) ==
  LET run[k \in 0..c.budget] ==
        IF k = 0 THEN [c EXCEPT !.left = c.budget]
        ELSE LET d == run[k - 1]
             IN  IF d.state = "running" /\ d.left > 0 /\ d.pos < Len(image) THEN Chunk(d) ELSE d
      d == run[c.budget]
  IN  IF d.state = "running" /\ d.pos = Len(image) THEN CheckFile(FlushBlock(d)) ELSE d

-----------------------------------------------------------------------------
(* The open.                                                               *)

Mismatch == [verdict |-> "mismatch"]
Corrupt  == [verdict |-> "corrupt"]

\* Config::validate.
Valid(cfg) == /\ cfg.shards \in {2 ^ k : k \in 0..MaxCellShards} /\ cfg.shards <= MaxCellShards
              /\ cfg.degree \in 2..MaxDegree
              /\ cfg.ef >= cfg.degree

\* reconcile_config: the file's dimension, shape and lineage, the caller's tuning;
\* limits and degrees have to agree, and so does a lineage the caller names.
Reconciled(stored, caller) ==
  IF \/ stored.limits # caller.limits \/ stored.degree # caller.degree
     \/ caller.uuid \notin {0, stored.uuid}
    THEN Mismatch
    ELSE [caller EXCEPT !.dim = stored.dim, !.shards = stored.shards, !.uuid = stored.uuid]

\* section, edge_sections and the loads of the parts: each as wide as the
\* configuration says, and all of the edges or none of them.
SectionsFit(file, cfg) ==
  LET s == Parsed(file)
      found == {s[i].kind : i \in DOMAIN s}
      width(kind) == (CHOOSE i \in DOMAIN s : s[i].kind = kind)
  IN  /\ {"facts", "vectors", "graph"} \subseteq found
      /\ found \cap {"out", "in"} \in {{}, {"out", "in"}}
      /\ s[width("facts")].len = cfg.shards
      /\ s[width("vectors")].len = cfg.dim
      /\ s[width("graph")].len = cfg.degree

\* decode: a block of the right shape, holding a valid configuration.
Decoded(cell) == IF cell[1] # "config" THEN Corrupt
                 ELSE IF Valid(cell[2]) THEN cell[2] ELSE Mismatch

\* load_snapshot, and its zero-copy sibling.
LoadSnapshot(file, caller) ==
  IF ~Valid(caller) THEN Mismatch
  ELSE IF ~Parses(file) THEN Corrupt
  ELSE LET stored == Decoded(file[Align + 1])
       IN  IF stored \in {Corrupt, Mismatch} THEN stored
           ELSE LET cfg == Reconciled(stored, caller)
                IN  IF cfg = Mismatch THEN cfg
                    ELSE IF SectionsFit(file, cfg) THEN cfg ELSE Corrupt

-----------------------------------------------------------------------------
(* Actions.                                                                *)

ContainerInit ==
  \E cfg \in Configs, layout \in Layouts, edges \in EdgeKinds :
    /\ made = [cfg |-> cfg, layout |-> layout, edges |-> edges,
               file |-> WriteSnapshot(cfg, layout, edges)]
    /\ image = made.file
    /\ scan = NoScan
    /\ opened = NoScan

\* What a disk may give back instead: a cell or a run of cells lost, a cell turned
\* to something else, a block written where another belongs, the end cut off or
\* more behind it, a length off by one.
Blocks == 0..Len(image) \div Align - 1
BlockOf(i) == (i - 1) \div Align
Lengthened(entry, d) == [entry EXCEPT ![4] = @ + d]
DamagedFiles ==
  {[image EXCEPT ![i] = Byte(9)] : i \in DOMAIN image}
  \cup {[i \in DOMAIN image |-> IF i \in from..to THEN Zero ELSE image[i]] :
          from \in DOMAIN image, to \in DOMAIN image}
  \cup {[i \in DOMAIN image |-> IF BlockOf(i) = p THEN image[q * Align + 1 + ((i - 1) % Align)]
                                                  ELSE image[i]] : p \in Blocks, q \in Blocks}
  \cup {SubSeq(image, 1, n) : n \in 0..Len(image) - 1}
  \cup {image \o Zeros(n) : n \in {1, Align}}
  \cup {[image EXCEPT ![i] = Lengthened(@, d)] :
          i \in {j \in DOMAIN image : IsEntry(image[j])}, d \in {1, -1}}

Damage == /\ image = made.file /\ scan = NoScan /\ opened = NoScan
          /\ image' \in DamagedFiles
          /\ UNCHANGED <<made, scan, opened>>

\* Scrub::open, of whichever generation is published; scrub_with_budget.
StartScrub == /\ scan = NoScan /\ opened = NoScan
              /\ \E budget \in Slices :
                   scan' = IF Parses(image)
                           THEN [state |-> "running", sections |-> Parsed(image),
                                 budget |-> Max({budget, 1}), left |-> 0,
                                 pos |-> 0, sec |-> 1, fed |-> <<>>, file |-> <<>>]
                           ELSE [state |-> "corrupt"]
              /\ UNCHANGED <<made, image, opened>>

\* Scrub::next.
ScrubNext == /\ scan.state = "running"
             /\ scan' = Slice(scan)
             /\ UNCHANGED <<made, image, opened>>

OpenContainer == /\ opened = NoScan /\ scan = NoScan
        /\ \E caller \in Callers :
             opened' = [state |-> "done", caller |-> caller,
                        answer |-> LoadSnapshot(image, caller)]
        /\ UNCHANGED <<made, image, scan>>

ContainerNext == Damage \/ StartScrub \/ ScrubNext \/ OpenContainer
ContainerSpec == ContainerInit /\ [][ContainerNext]_containerVars

-----------------------------------------------------------------------------
(* Properties.                                                             *)

\* A scrub is right whatever its slices: a file as it was written is clean, and a
\* clean file is as it was written -- or the field of its own hash has been zeroed,
\* and then every section still is ("verifying each section's stored xxh3 as its
\* body completes and the whole-file hash at EOF", snapshot.rs:510).
ScrubTellsDamage ==
  /\ image = made.file => scan.state # "corrupt"
  /\ scan.state = "running" => scan.pos < Len(image)
  /\ scan.state = "clean" =>
       \/ image = made.file
       \/ /\ \A i \in HashCells : image[i] = Zero
          /\ Parsed(image) = Parsed(made.file)
          /\ \A i \in DOMAIN scan.sections :
               LET s == scan.sections[i]
               IN  Body(image, s.start, s.start + s.len) = Body(made.file, s.start, s.start + s.len)

\* An undamaged file is never called corrupt, whoever opens it and whatever shape
\* maintenance left it in; who agrees with it on what its structures are made of
\* opens it, as it was, with their own tuning; who means another database does not.
\* And the two writers write the same bytes (snapshot.rs:246).
OpensAsWritten ==
  opened # NoScan /\ image = made.file =>
    LET caller == opened.caller
        agrees == /\ Valid(caller)
                  /\ caller.limits = made.cfg.limits /\ caller.degree = made.cfg.degree
                  /\ caller.uuid \in {0, made.cfg.uuid}
    IN  /\ image = Finished(made.cfg, made.layout, made.edges)
        /\ opened.answer = IF agrees THEN [made.cfg EXCEPT !.shards = made.layout, !.ef = caller.ef]
                           ELSE Mismatch

\* The two readers of a file: the scrub and the open.
ContainerReads == ScrubTellsDamage /\ OpensAsWritten
=============================================================================
