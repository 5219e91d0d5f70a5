# plugmem: specifications, model checking and proofs

plugmem is a temporal memory for agents: facts with validity intervals, tags, a
versioned graph and vectors, in one embedded database. These modules model it
from the bytes of its files to the programs over it. `PROJECT.json` maps every
definition to the lines it stands for, and lists the hazards each property is
about. Paths below are under `src/crates/`: `host/` is `plugmem-host/src/`,
`core/` is `plugmem-core/src/`, `arena/` is `plugmem-arena/src/`.

## 1. Inventory

| component | state | operations | interacts with | what makes it correct | modules |
|---|---|---|---|---|---|
| file storage (`host/storage.rs`) | manifest, `base.snap.N`, staging files, journal, lock file, `current_gen` | open, stage, commit, sweep, reclaim, append, clear | database above, readers beside (advisory locks) | a published image is complete and durable; a pinned one is never touched | `FileStorage`, `DurableMemory` |
| readers (`host/readonly.rs`) | a pinned generation and its map | open, refresh, scrub, export pages, drop | the writer's sweep | one immutable image per handle; refresh moves forward | `FileStorage`, `Container`, `Transfer` |
| engine (`core/memory.rs`, `memory/*`) | fact records, aux, current edges, edge history, tag catalog, indexes, id counters, vector space | remember, revise, forget, remove_tag, link, unlink, claim_vector_space, maintain, replay | journal through `Storage` | derived structures agree with the records; history only closes; replay gives the same state | `Engine`, `Memory` |
| snapshot and migrations (`core/snapshot.rs`, `memory/persist.rs`, `migrations.rs`) | none | write, parse, load, migrate, verify | engine, file storage | what is opened is what was written, in any layout ever written | `Container`, `Image` |
| journal (`core/journal.rs`) | framed records | append, scan | engine, file storage | a torn tail is dropped, everything else read back in order | `Records` |
| database (`host/db.rs`) | engine, store, counters, `reembedding` under one lock | the verbs, checkpoint, maintain, reembed, recover, export | all of the above; provider outside the lock | acknowledged writes survive; memory and files agree; no write is lost to a reembed | `Database`, `Salvage`, `Transfer` |
| embedder gate (`host/embedder.rs`) | provider, suspension, failures | embed, suspend, resume, install, degrade | verbs, reembed | an explicit suspension outranks failures; no vector of another space; a degraded database comes back | `Gate` |
| workspace (`host/workspace.rs`) | pool of open databases, lease counts | get, lease, release, close_idle, close_all | file locks, other processes | a leased entry stays; the ceiling holds; the pool lets go | `Workspace` |
| registry (`host/workspace/registry.rs`) | a database of descriptions, and one fact in each database | describe, archive, reindex, verify | workspace | one description each; reindex settles it | `Registry` |
| tag catalog (`core/memory/tags.rs`) | sorted base, overlay, buffer | count, change, page | engine | counts and walks agree with the merged view | `TagCatalog` |
| recall (`core/memory/recall.rs`) | none | rank, admit, expand, select | indexes | pruning and early ends change no answer | `Recall` |
| duplicate detector (`core/memory.rs`) | none | hint, guard | index signatures | a summary hides no duplicate | `Similar` |
| indexes (`core/index/*`) | lengths, signatures, posting lists, vector pool, HNSW graph | push, search, purge, remap | engine, maintain | answers of a full scan; the graph loads | `Lexical`, `VecPool`, `Hnsw` |
| shape and maintenance (`core/memory/shards.rs`, `maintain.rs`) | shard counts, graph's reach | plan, pass, hook | engine, host | a claimed layout is the layout; a pass settles | `Maintenance` |
| arenas (`plugmem-arena`) | pages, chunk chains, blobs, terms | insert, remove, split, push, free, intern, copy on write | engine | a sorted map, lists, and one id per word | `Arena`, `ChunkLists`, `Terms`, `PagedPool` |
| settings (`host/settings.rs`) | none | load, open | environment, config files | environment over file over default; nothing dropped silently | `Settings` |
| command line (`plugmem-cli`) | a process per command, or a repl | run, import, export, scrub, recover | database lock, other processes | exit codes tell; dumps load | `CommandLine`, `Transfer` |
| MCP server (`plugmem-mcp`) | channel, workers, snapshot | read, call, reply | database, reader or workspace | one reply per request, of the right memory, never older than told | `Server` |
| bindings (`plugmem-py`, `plugmem-napi`) | handle, locks, GIL, event loop, queue | every verb, close | host | nobody waits for ever; delivery before resolution | `PyHandle`, `NodeHandle`, `RwLocks` |
| paths, help, tokenizer, testgen, fuzz, benches | - | - | - | - | not modelled (section 7) |

Hard behaviours: readers of other processes against the writer's collector; a
power cut between any two calls of a commit, with directory entries reaching the
disk in any order; a crash between publishing a snapshot and clearing the
journal it contains; verbs that fail half-way; round trips to a provider
without the lock, during which the provider or the space changes; leases,
evictions and sweeps of a pool; counts, indexes, summaries and keys kept by
increments through every verb; clocks that move back; locks taken across a GIL
or an event loop; one operation written as two databases' writes.

## 2. Modules

```
component                                 theorems              checked by TLC in
FileStorage --> DurableMemory             FileStorageProofs     MCPrograms
Engine                                    EngineProofs --> SequenceFolds
  Memory                                  MemoryProofs          MCMemory, MCPieces
    Image                                 MemoryProofs          MCMemory, MCPieces
  Database --> DurableMemory              DatabaseProofs        MCDatabase, MCVerbs
Gate, Workspace                           HostProofs            MCHost
Registry                                  RegistryProofs        MCPieces
NodeHandle --> RwLocks                    HostProofs            MCHost
PyHandle --> RwLocks                                            MCHost
TagCatalog, Similar                       MemoryProofs          MCPieces
Maintenance                               HostProofs            MCPieces
Arena, ChunkLists --> PagedPool, Terms, Lexical, VecPool, Hnsw, Recall
                                                                MCPieces
CommandLine, Server --> Contents          ProgramProofs         MCPrograms
Transfer                                  ProgramProofs         MCPrograms
Salvage, Settings                         ProgramProofs         MCPrograms
Container, Records                                              MCPrograms
```

Three groups share a run each because their parts share no state: an MC module
`EXTENDS` them, a variable `focus`, fixed in the initial state, says which one a
behaviour follows, and the others stand still. So each part is explored as if
alone, by one TLC run, and every property of a part is checked of every
behaviour of that part.

**Files and durability.** `FileStorage` is the directory, the one writer behind
`base.lock` and the readers. A file is an image (an inode), so locks and maps
stay with a file whose name is removed or renamed over. `dir` is what processes
see; `onDisk` is every directory state since the last `sync_dir`; a power cut
leaves one of them (`"ordered"`) or, name by name, a mixture (`"weak"`, what
POSIX promises). `pc` is the writer's place in `open`, `sweep_generations`,
`try_reclaim_generation`, `stage_snapshot` and `commit_snapshot`, one action per
call; a reader's `pc` is its place in `pin_current_generation`, whose one
answer without a retry is `Unpublished`. `DurableMemory` is the abstract promise: a view,
and what a crash may leave of it. FileStorage implements it
(`PublishesAtomically`), with the image a manifest leads to as the contents, and
Database implements it (`KeepsPromise`). `Container` is one file in cells:
header, table, sections, their hashes, damage to any cell, the slices of a
scrub and the open with a caller's configuration. `Records` is the journal in
cells: `AppendRecord`, a crash inside it, `Scan`. `Salvage` is `recover` on an
image some content of which is spoilt.

**Engine.** `Engine` has no state: it is one operator per execution path that
the public verbs share with replay, from a memory (a record) to a memory.
`HalfRemembered` is what `apply_remember` leaves when it returns an error.
`KeepIn` (a filter) and `Put` (an insert) are
written out because the community modules' `SelectSeq` and `@@` are closed to the
provers; `OpenLink` is the loop's body, so that the fold over a remember's links
has a step with a name. `Memory` is one engine under any sequence of its verbs, one action per verb:
apply, journal; `replayed` is what replay makes of the journal. `Image` looks at
every state Memory reaches: `SnapshotOf` it in every layout the engine has ever
written, `LoadImage` with the checks and migrations of the load. `Database`
composes the engine with its files: the published `image`, the `journal` with
its `synced` prefix, the image `staged` and the engine `mem`; `pc` says what the
holder of the state lock is doing, so that a crash may come between the staging,
the publication, the journal's clear and the reopen. Here publication is one
atomic step, which is what FileStorage establishes, and a verb is its journal
record applied, which is what `ReplayRebuilds` justifies. A record cut short
is `Torn`, which no record is; `Loads` has both outcomes of reading past one.
`stranded` marks that a verb failed and left an engine that is not what the files hold.

**What the engine is made of.** `Arena` (over `PagedPool`, a mapped base with an
owned overlay), `ChunkLists` and `Terms` are the stores; each keeps, as a
history, the map, the lists or the numbering it should be. `TagCatalog` is the
catalog's runs and a caller's walk by cursor. `Recall`'s sources ask of a fact
what the code asks, through `AllowFilter`, whose bits may admit too much but
never too little. `Lexical`, `VecPool` and `Hnsw` are
the indexes, `Recall` and `Similar` the questions asked of them, stated next to
the scan they stand for. `Similar` carries as a history the facts whose words a
reindex looked up in vain (`unread`, section 4). `Maintenance` is the shape: work plans, shard counts,
passes in memory and disk-first, and the hook. `Registry` is a workspace's
database of descriptions against the databases' own, call by call.

**Callers.** `Gate` is the embedder's slot between verbs, a reembed and
providers; between any two of a verb's steps the provider may be suspended,
resumed or replaced. `Workspace` is the pool: an opening of a database is a
token, and its file lock goes with the last copy. `PyHandle` has threads, the
GIL and two locks; `NodeHandle` the JavaScript thread, workers, two locks and an
export's queue; `RwLocks` is the standard library's lock, whose new readers wait
behind a waiting writer. `CommandLine`, `Transfer` and `Server` see a database as
`Contents`, the few facts and the edge that their properties tell apart.

## 3. Runs

| run | asks | result |
|---|---|---|
| `Programs` | what stands around the engine: generations of files, image and journal bytes, salvage, settings, command lines, dump and import, MCP server | holds |
| `DatabaseVerbs` | crash contract, acknowledged writes, agreement of memory and files, reembed | holds; about 4 000 000 states |
| `Host` | gate, pool, Python and Node handles | holds |
| `Pieces` | engine, images, registry, stores, catalog, indexes, recall, duplicates, shape | holds; about 308 000 states |
| `MemoryRefused` | does a snapshot always load, after a remember refused half-way too? | no |
| `DatabaseStale` | is a journal left behind by a failed clear harmless? | no |
| `DatabaseTorn` | does an acknowledged write survive after a torn tail? | no |
| `DatabaseParked` | does a checkpoint publish the database's contents? | no, after a failed disk-first pass |
| `Resharding` | does a pass asked for by the layout leave one that asks for nothing? | no, for edges alone |
| `HostStuck` | can every call on a direct handle go on? | no, during an export of edges |
| `CliStale` | does a one-shot command show the newest data? | no |
| `SalvageUnclean` | is what recover writes clean? | no |

What the passing properties say, part by part:

- files: `PinnedIntact`, `PublishedImageSurvives`, `CommitIsDurable`,
  `PublishesAtomically`, `NewImageNewNumber`, `PinningEnds` (liveness).
- container: `ContainerReads`: a scrub finds every damage whatever its slices
  (but the zeroed field of the file's own hash), and an open gives back what was
  written, with the stored or the caller's configuration as the code decides.
- journal: `RecordsReadBack`. Salvage: `SalvageKeepsTheRest`. Settings:
  `SettingsHold`.
- command line: `CommandsTell` (exit codes are true through kills and other
  processes; a query is embedded once). Dumps: `DumpLoads` (pages are whole
  whatever is written between them, provenance follows to the new ids).
- server: `ServerTellsTheTruth` (one reply per request, no older than what was
  told before, never another fact, never another memory).
- database: `AcknowledgedSurvives`, `ReadersSeeTheDatabase`, `AlwaysOpens`,
  `KeepsPromise` (refinement), `NoWriteLostToReembed`.
- gate: `DecisionHolds`, `StoredInOneSpace`, `RecallsInSpace`, `ComesBack`
  (liveness). Pool: `PinHolds`, `WithinCeiling`, `PoolLetsGo` (liveness).
  Handles: `NeverStuck`, `DeliveredOnResolve`.
- engine: `IndexesAgree`, `OneAtATime`, `ReopensAsWritten`, `OneVectorSpace`,
  `RecordsOnlyClose`. Registry: `DescriptionsTrue`, `ReindexSettles`.
- structures: `StructuresServe` (arena, lists, interner), `WalksAddUp`,
  `IndexesServe` (words, graph, vectors), `RecallAgrees`, `SimilarAgrees`,
  `ShapeIsTrue`.

Each property has a mutant in `PROJECT.json`: a change of one definition, the
way a bug would change that code, under which the same run finds the property
violated.

### Bounds

- files: one reader, generations 1..3, three inodes. Readers only meet through
  the lock on an image, where one holder is as good as two; three generations
  give a pinned, a current and a next one, and a superseded one to reclaim while
  another is published. An inode is reused when nothing refers to it. The
  theorems are for any number.
- engine: facts and edges are explored apart, by two instances of `Memory` in
  `Pieces` (`OfFacts`, `OfEdges`): three facts and a tag give chains of
  revisions, a tag removed from several facts and a purge in the middle of a
  chain; two edges and two versions with a clock of two values give an edge
  closed and opened again, a clock that goes back, and refusals half-way.
- `Database*`: a journal of two or three records over a snapshot, two facts, one
  edge with two versions, two vector spaces. `DatabaseVerbs` follows two
  instances: *durable* has the verbs whose records replay without effect over an
  image that holds them and lets crashes fall in the middle of a clear; *every*
  has all verbs and no such crash, for with Link, Unlink, RemoveTag,
  SetVectorSpace or Maintain the contract does not hold there (`DatabaseStale`).
  What verbs do to a stranded engine is explored in *durable* only. `promised` is
  what the contract speaks of, kept beside the state so that it is computed once
  per change of the files; tags and spaces are interchangeable.
- host: a writer and a reader over two spaces; two databases and three threads
  over a pool of one; three Python threads; two Node tasks, two workers and a
  queue of one. One seat in the pool makes every open an eviction; three threads
  are a holder, a waiting writer and a reader behind it. In `Host` the direct
  surface's export fits its queue (Node) and Python uses named handles; the rest
  is what `HostStuck` shows.
- structures: pages of two slots and two shards, chunks of two cells, a table
  of two slots that doubles under four words, a catalog of four names with a page of one and an overlay
  that flushes at one or two; five vectors over three levels with the smallest
  fan-outs; five documents' worth of ids with texts that share words and collide
  in a signature's bit. Every structure splits, frees, doubles, is saved,
  reopened and changed again within its bound.
- registry: one database, two clerks, two records; two clock values, except
  while two calls overlap.
- container: a file in three configurations and two layouts, with and without
  edges; slices of nothing, of two and of five cells; damage is any one cell
  changed or lengthened, any range zeroed, any block replaced by another, any
  truncation, any padding. Journal: three records out of every kind of
  operation, with its fields present and absent.
- programs: two command lines that run three commands between them; four facts
  and two edges dumped in pages of one, of two and of everything while two
  changes are made; two requests to a server of two workers in each mode.

`clockBack`, and texts longer than a lookup's budget, are inputs of Registry that
no run takes: `DescribedOnce` survives neither (a revision dated before its
predecessor is not the current fact; a description that is not found is written
again). The theorems about it name them as a hypothesis, `Regular`.
`Memory` takes well-dated facts (`valid_from` not after `now`, nor before the
revised fact's): the code accepts any, and an inverted interval is then the
caller's.

### Fairness

Weak fairness, of a running thread inside one function, and of the clock, only:

- `PinningEnds`: a reader's loop and `Remove` (`pin_current_generation` retries
  at once; `try_reclaim_generation` unlinks and returns). Checkpoints, sweeps and
  crashes are owed nothing; the bound on generations says that publications
  pause.
- `ComesBack`: a verb's own steps, a provider that answers or fails within its
  timeout, and the clock. The property assumes, as the code does, that verbs go
  on asking, that failures end, and that nobody suspends for good.
- `PoolLetsGo`: the steps of a verb under way on the pool, the drop of what a
  sweep took out, and the clock. Nobody must begin a verb, and a caller may keep
  a clone.

Deadlock is checked in the `Database` and `Memory` runs. The other configurations
say `CHECK_DEADLOCK FALSE` because their parts end: a process exits, a server
reaches the end of its input, a bound on requests or records is reached.
`NeverStuck` says for the handles what deadlock freedom would.

## 4. Findings

1. *A refused remember leaves an image that does not load* (`MemoryRefused`).
   The text is in BM25 and the first links are in when a later link is refused;
   the next checkpoint writes them, and the load refuses the image. The proofs met
   a second consequence: the refused fact's id is used again, so its id is twice in
   a posting list (`Postings::push` asserts ascending ids in debug builds only,
   `core/index/postings.rs:96`), and `apply_remove_tag`, which walks the list
   without looking for repeats (`core/memory.rs:1639-1658`), gives that fact two
   successors. It is why `OneAtATime` holds only where nothing was refused.
2. *Stale journal* (`DatabaseStale`). Replay is idempotent for Remember, Revise
   and Forget only.
3. *Torn tail* (`DatabaseTorn`). It is skipped, not truncated, and later records
   are appended behind it.
4. *Parked engine* (`DatabaseParked`). The disk-first branch of
   `maintain_with_options` returns without the reopen that `resnapshot` has.
5. *Resharding for ever* (`Resharding`). Edge arenas alone out of layout make an
   Auto pass due that never rebuilds them.
6. *Export of edges stops the process* (`HostStuck`). In Node the worker keeps
   the engine's read lock while its queue is full, and a synchronous getter
   behind a waiting writer blocks the only thread that drains it. In Python the
   direct export never gives up the GIL.
7. *A one-shot command reads an old image* (`CliStale`). The choice of a
   read-only handle does not look at the journal.
8. *Salvage copies what it cannot attribute* (`SalvageUnclean`). A spoilt slot's
   components or an entity's name fail `verify` and belong to no fact.

Noticed while modelling, without a run:

- `publish_manifest` returns an error when `sync_dir` fails after the rename
  (`host/storage.rs:528`): the writer's `current_gen` stays behind and the number
  is used again. The runs exclude that fault and the theorems carry it as
  `ManifestSyncs`.
- `import`, `workspace` and `help` typed in a writer repl reach `unreachable!`
  (`plugmem-cli/src/lib.rs:706-715`); `ReplPanics` models it as the process's end.
- the MCP server cuts an id to 32 bits in the show of a read-only server, its
  export takes the database's lock twice, its read-only refusals miss two tools.
- `Settings::open_workspace` drops `[maintenance].fsync`; numbers beyond 32 bits
  wrap; keys of the wrong type in some tables are ignored; a `$PLUGMEM_CONFIG`
  that names a missing file gives the defaults.
- a registry lookup stops at recall's budget of 512 tokens, after which describe
  duplicates (`registry.rs:174-175`); reindex leaves the records of databases that
  no longer describe themselves (`registry.rs:404-406`).
- `install` lifts an explicit suspension; a late failure of a replaced provider
  suspends the new one; recall does not look at the space again under the lock,
  which is why `RecallsInSpace` excepts a space that moved meanwhile.
- `scrub` skips the file's hash when its field is zero.
- a reindex that looks a word up and does not find it leaves it out of the fact's
  summary (`core/memory/maintain.rs:972-978`), although `overlap_possible` takes
  the summary's "no" as a proof: the guarded remember may then store a duplicate.
  `SimilarAgrees` excepts those facts (`unread`).
- a disk-first pass keeps an old index's tokenizer version; postings' size
  counts forgotten facts; `recover` does not clear a destination's journal.

## 5. Proofs

Checked with TLAPS, for every value of the constants under the modules' named
assumptions. An invariant was checked by TLC before it was proved; leaf proofs use
Z3 and Zenon, temporal steps LS4.

**Files** (`FileStorageProofs`): `TypeCorrect`, and, with the hypothesis
`ManifestSyncs` (the manifest's `sync_dir` does not fail, and no writer dies just
before it on a file system that reorders), `PinsHold`, `SurvivorsOpen`,
`CommitsDurable`, `NumbersGrow` and the refinement `PublishingIsAtomic`. The
invariant says where every name may lead in *every* directory a power cut may leave,
what locks and names the writer and each reader hold at each program point, and that
a manifest's image is complete. Without what it says of survivors, the properties of
the visible directory do not survive a crash.

**Sequences** (`SequenceFolds`). Links, replay and load are folds, and the ids that
a purge keeps are a filter: what they do is an induction over a sequence. The
library's induction theorems take an operator as a parameter, which the provers
cannot instantiate. So the module proves induction for the members of a *set*
(`Inductive`, `InductiveSeq`), from the well-foundedness of `<` on the naturals, and
from it that the recursive function behind `FoldLeft` exists and takes one element
more at a time (`FoldEmpty`, `FoldAppend`). The operation is a constant of the
module: `EngineProofs` instantiates it for `Replay` and for `OpenLink`.

**Engine** (`EngineProofs`). Lemmas about each execution path of `Engine`: which
fields it changes and how (`RememberFields`, `PurgeFields` and the like), and that
it makes of a memory a memory. `Shape` is more than types: facts' ids are below
`next`, a current edge's version is an open one of that edge and each edge has at
most one, the tables of a fact are there when the fact is. `ReplayOpShape` and
`LoadShape` carry it through any journal; `PrefixLoads` says that a journal that
loads also loads cut anywhere.

**Memory** (`MemoryProofs`), for any sequence of verbs, any tags, edges and times:

- `MemoryHolds`: the shape, the types and that nothing is dated ahead of a clock
  that has not moved back. With it `ReplayIsExact` (what replay makes of the journal
  *is* the engine; this is why Database may take a verb for its record),
  `SpacesDoNotMix`, `VersionsInOrder`.
- `NothingIsRewritten`: the action property, over every verb and the purge.
- `IndexesFollow`: posting lists, BM25's documents and catalog counts against the
  records. The inductive invariant is `Indexed`, of a memory no refused remember has
  touched. The hard case is `remove_tag`, which replaces many facts at once: that
  the counts follow needs that the posting list it walks names each fact once, which
  is another part of the invariant.
- `OneRevision` and, where no remember is refused, `OneVersionOfEverything`.
  `OneAtATime` is not inductive; `Chained` is: a successor begins where its target
  ends and is its only one. That chains are then in order is an induction along
  `revises` (`ChainsOrder`). The hypothesis `WellClocked` says that no caller's
  clock moves back and none dates a fact ahead of it; the condition `sound` that no
  remember was refused half-way so far. TLC has counterexamples without either: a
  revision dated before its target, and the fact with two successors of section 4.
- `ReopeningIsExact`, for the journal and for an image in any layout. `Shape` and
  `Indexed` are not enough for the second: `Referenced` adds that every id a memory
  holds is one it has handed out and that versions are numbered without a gap. An
  image with versions then loads as the memory itself (`VersionsLoad`); one without
  gets them from `Synthesized`, any numbering of its edges, and what comes of that
  has `Shape`, `Indexed` and `Referenced` again (`SynthesizedLoads`), so that its own
  image loads to itself.
- `WalksReturnTheCatalog`, for the catalog's storage and any walk through it. The
  invariant (`CatalogInv`) has no name overridden in two places, which flushing and
  merging keep (`CarriedFits`) and which makes each name a page merges come from one
  source (`EachInOneSource`); the fingerprint is that of the entries; and a walk has
  every entry *its fingerprint names*, up to where it stands (`WalkFits`). That is
  said of the fingerprint in the cursor, since the catalog may be another between two
  pages: a page that goes on has just compared them. The fingerprint is taken as the
  set it is a hash of, so a collision of 64-bit hashes is outside the theorem.
  Assumption: finitely many names, a page and a run that are not empty.
- `DetectorIsExact`, for any texts, entities, vectors, bars and caps, and engines that
  an older build wrote. The invariant (`SimilarInv`) says of each fact no reindex cut
  short that today's index knows all its words and has a document of exactly those,
  with a summary of them or none (`DocFits`). Then the summary's bound is at least the
  overlap, so what it spares reading is below the bar (`ComparisonIsTrue`, by counting
  a union and by `AboveGrows`: a larger part of a smaller whole is above a bar the
  smaller is above); the ring holds the last of the entity's list
  (`RingHoldsTheRecent`); and the two queries find the reader's hints one by one
  (`FoundIsTrue`). Under an index of another tokenizer the words that are unknown only
  make the whole smaller, so nothing is missed (`NothingSimilarIsMissed`). Assumption:
  a text is a sequence of words, and the two bars are fractions that are not negative.

**Database** (`DatabaseProofs`), for any policies, verbs and journal:

- `TypeCorrect`, with `RecordsWhole` (no crash cuts a record short): every record a
  verb writes replays on the engine that wrote it.
- `AcknowledgedIsDurable`, `ReadersSee`, with the same hypothesis, from
  `DurableInv`: under `EachOp` everything but the record being appended is synced,
  and while nothing is stranded the engine is what the files load to. Failing clears
  and crashes before them are allowed here.
- `StaysOpenable`, `ContractKept`, with `ClearsJournal` as well (a published image's
  journal is cleared). `OpensInv` adds what a checkpoint has staged. `ContractKept`
  says of every step, for all verbs, which step of `DurableMemory` it is: a verb, a
  compaction and a reembed change the contents, a crash takes what was not durable,
  and a checkpoint, a failed one and a reopen change nothing, until a verb strands
  the engine. `KeepsPromise` is the same contract in TLC's form, along one behaviour
  with no such exception.
- `ReembedLosesNothing`, with no hypothesis, from `StagingInv`: while a reembed is
  under way what it has staged stays the engine with other vectors, as no verb gets
  past the barrier.

The hypotheses are what the code does not keep by itself: `DatabaseTorn` and
`DatabaseStale` are the counterexamples without them.

**Host** (`HostProofs`). The gate: `GateTypeCorrect`, `DecisionsHold`,
`OneSpaceStored`, `RecallsFit`, from the types, the two state properties and
`CallsFit`: what a call carries between the check and the lock. It is needed because
the space is checked one round trip before it is used. The pool:
`WorkspaceTypeCorrect`, `CountsAreLeases`, `LeasesPin`, `CeilingHolds`. None is
inductive without exact counts: an entry is evicted when its count is zero, so that a
leased one stays follows only from `pooled[k].active` being the *number* of threads
that pin `k`. The Node binding: `ResolvedDelivered`, from the invariant that a task
which has computed has no batch in the queue; workers fill it and the JavaScript
thread empties it in any order. The shape: `MaintenanceKeepsShape`, after any verbs and
maintenance in any mode; its invariant (`ShapeFits`) adds the types and holds of a
database after each pass by itself, so also between the two passes of the hook; that
a rebuild keeps the graph within the slots follows from no more facts living than are
stored (`LivingBounds`). Assumptions: finitely many threads, a positive
ceiling, at least one worker and room for one batch.

**Programs** (`ProgramProofs`), for any workers, processes, commands and dumps:

- `ServerHolds`, `ServerIsTruthful`. A worker reads the database, works on what it has
  seen and answers later, so the promise is about three moments. `ServerInv` orders
  them: what a client had been told when it asked is no newer than what the worker
  saw, and that no newer than the database now, memory by memory. That replies are
  one per request needs the channel to be numbered in the order read and every
  request taken to be in exactly one place.
- `CommandsHold`, `CodesAreTrue`. The exit code speaks of the database at the end, what
  a process knows was read at its open. `CommandInv` ties them by the lock: its holder
  sees what the disk holds, and what a process has acknowledged is kept by every later
  content (`Kept`, a preorder, so it survives other processes and kills). An import
  that fails half-way has written exactly the lines it is past.
- `TransferHolds`, `DumpsLoad`. The file's ids are the exporter's. `TransferInv` says
  what each side knows of the file: the pages' cursor has passed each fact once, facts
  come before edges, the import's batch is the last lines read, and the map leads every
  id before the batch to its copy. Provenance then follows because the batch is
  written before the first edge: at that point the map has an id exactly when the file
  has.
- `SettingsAreKept`. `SettingsInv` says that what was loaded is what the environment
  and the governing file come to and that neither was refused; the theorem then
  follows key by key, from what a key that passed the checks may hold.
- `SalvageKeepsWhatIsSound`, with the hypothesis `FactDamage`: the disk spoils what
  `faulty_facts` looks at or keeps the image from opening. `SalvageUnclean` is the
  counterexample for the rest. `SalvageInv` relates the spoilt image to the one that
  was written, where a slot and its fact name each other (`AsWritten`): damage may
  send a record to another's slot but not give it or take from it a vector (`Alike`).
  A fact that the check believes then has the vector it was written with, or a slot
  was spoilt into naming it. That the copy is dense needs that ascending order gives
  every place once (`Ranked`).

Assumptions: at least one worker, the single memory is a memory and no request's
method is `"done"`; a batch and the pages are not empty, ids are naturals and the edges
of a dump finitely many; a file's or the environment's values are typed, and the
default for the pool is in range.

**Registry** (`RegistryProofs`), for any databases, clerks and texts:

- `RegistryHolds`, and `RecordsWereSaid` with no hypothesis: however calls overlap,
  fail or are dated, the registry repeats only what a database has said.
- `DescribedTruly`, `ReindexingSettles`, with `Regular` (texts fit the lookup's
  budget, the clock does not go back). Both speak of calls one at a time, and the
  invariant `OneByOne` says what one call knows between its steps: what its lookup
  came back with is still the only current fact or there still is none (`Aim`), all
  of both databases is past at its date (`Past`), and a reindex has settled all that
  it has been through but the one it is at (`Settling`). The reindex's guarantee is
  about its last step, so it is an action property that needs `Settling` at the step
  before.

Only model-checked:

- the liveness properties (`PinningEnds`, `ComesBack`, `PoolLetsGo`), which need
  fairness and ENABLED, and `NeverStuck`, whose statement has ENABLED in it;
- the structures, indexes and questions (`StructuresServe`, `IndexesServe`,
  `RecallAgrees`): they compare folds and sorted sequences of the community
  modules, and what a recursive definition makes of every input, with their
  references;
- the bytes of a file (`ContainerReads`, `RecordsReadBack`): each compares what a
  recursive pass over a file or a record computes with what was written.

`GateTypeOK` says nothing of `left`, the ticks to a deadline: that the doubling
stays within `MaxWait` is an induction over the number of failures.

## 6. How to read a counterexample

Every violation run is small: the trace is the story told in section 4. Under
`HostStuck`, `focus` may be `"python"` or `"node"`; either is the finding.

## 7. Not modelled

- Text: splitting, normalising, stemming, the metadata's JSON, rendering and
  completions. They are pure functions, and the properties need of them only
  that two versions of the tokenizer may split one text differently.
- Floating point: BM25's score and the fused score of recall. Candidates arrive
  in an order, cosine and Jaccard are fractions.
- Entity records, the temporal index and metadata as stored data of the engine;
  Recall and Similar have the lists they are asked for.
- An `append_journal` that fails, `remember_many`'s one sync, and a second
  database in `recover`'s destination.
- The command line's and the server's workspace management beyond which memory a
  call reaches; schemas, help and error texts.
- Paths, test data, fuzzing, benchmarks, build and packaging.
