---------------------------- MODULE FileStorage ----------------------------
(***************************************************************************)
(* The versioned on-disk layout of plugmem-host (storage.rs) and the pins  *)
(* its readers take on it (readonly.rs).                                   *)
(*                                                                         *)
(* One directory holds a manifest that names the current generation, one   *)
(* immutable file per generation (base.snap.N) and the staging files of    *)
(* the next one (base.snap.N.tmp).  A writer, alone behind the advisory    *)
(* lock of base.lock, publishes generations and collects superseded ones.  *)
(* Readers take no part in that lock: a reader holds a shared lock on the  *)
(* generation it maps, and the collector removes a file only under an      *)
(* exclusive lock.                                                         *)
(*                                                                         *)
(* A file is an image (an inode), so that a lock or a map stays with the   *)
(* file that was opened when its name is removed or renamed over.  A       *)
(* directory operation is visible at once and durable only after sync_dir: *)
(* onDisk holds the directory states since the last sync_dir, and a power  *)
(* cut leaves one of them ("ordered" metadata) or, name by name, a mixture *)
(* of them ("weak" metadata, all that POSIX promises).                     *)
(***************************************************************************)
EXTENDS Naturals, FiniteSets

CONSTANTS
  Readers,   \* read-only handles and scrubs, in any process
  MaxGen,    \* bound: the highest generation number published
  Images,    \* bound: the inodes the file system has to give
  NoImage,   \* not an image: the name is absent
  Metadata,  \* the file systems considered: "ordered", "weak"
  Faults     \* the failures allowed besides crashes, see FaultKinds

\* The calls that may return an error; and a writer that dies, on a file system
\* of weak metadata, between the manifest's rename and its sync_dir.
FaultKinds == {"stage", "rename", "syncImage", "manifest", "syncManifest",
               "remove", "crashUnsynced"}

ASSUME MaxGenAssumption   == MaxGen \in Nat
ASSUME ImagesAssumption   == NoImage \notin Images
ASSUME MetadataAssumption == Metadata \subseteq {"ordered", "weak"}
ASSUME FaultsAssumption   == Faults \subseteq FaultKinds

VARIABLES
  metadata,  \* the file system the database is on
  dir,       \* the directory every process sees
  onDisk,    \* the directory states since the last sync_dir, dir included
  tmp,       \* the image staged as base.snap.<next>.tmp, if any
  complete,  \* images written to the end and fsynced
  pc,        \* what the lock holder is doing; "closed": the lock is free
  cur,       \* its FileStorage::current_gen
  todo,      \* the generation files its sweep has yet to visit
  victim,    \* the generation it is about to remove ...
  excl,      \* ... and the image it holds exclusively meanwhile
  acked,     \* history: highest generation a commit has returned Ok for
  rd         \* the readers

storageVars == <<metadata, dir, onDisk, tmp, complete, acked>>
writerVars  == <<pc, cur, todo, victim, excl>>
vars        == <<storageVars, writerVars, rd>>

Gens == 1..MaxGen
Dirs == [manifest : 0..MaxGen,
         snap     : [Gens -> Images \cup {NoImage}]]
WriterPC == {"closed", "sweep", "reclaim", "ready", "staging", "staged",
             "renamed", "synced", "published"}
ReaderPC == {"idle", "readManifest", "open", "lock", "recheck", "pinned"}
ReaderStates == [pc     : ReaderPC,
                 gen    : 0..MaxGen,               \* in pin_current_generation
                 img    : Images \cup {NoImage},
                 pinGen : 0..MaxGen,               \* the pin the handle keeps
                 pinImg : Images \cup {NoImage}]

IdleReader == [pc |-> "idle", gen |-> 0, img |-> NoImage,
               pinGen |-> 0, pinImg |-> NoImage]

-----------------------------------------------------------------------------
(* The file system: names, locks, durability.                              *)

\* Readers whose shared lock an exclusive try_lock on image i would meet.
Holders(i) == {r \in Readers : \/ rd[r].pinImg = i
                               \/ rd[r].pc = "recheck" /\ rd[r].img = i}

\* Images no name, handle or possible survivor refers to: what create may give.
FreeImages ==
  {i \in Images : /\ i # tmp
                  /\ \A d \in onDisk, g \in Gens : d.snap[g] # i
                  /\ \A r \in Readers : rd[r].img # i /\ rd[r].pinImg # i}

\* A directory operation is seen by all at once, on disk at some later time.
ChangeDir(d) == /\ dir' = d
                /\ onDisk' = onDisk \cup {d}

\* A bug SyncDir must not have: the directory fsync forgotten.
NoSyncDir == onDisk' = onDisk

\* sync_dir: what is visible is what a power cut leaves.
SyncDir == onDisk' = {dir}

\* The directories a power cut may leave.
Survivors ==
  IF metadata = "ordered" THEN onDisk
  ELSE [manifest : {d.manifest : d \in onDisk},
        snap : {s \in [Gens -> UNION {{d.snap[g] : g \in Gens} : d \in onDisk}] :
                  \A g \in Gens : s[g] \in {d.snap[g] : d \in onDisk}}]

-----------------------------------------------------------------------------
(* The writer.                                                             *)

\* A bug NextGen must not have: the current generation staged again.
ReusedGen == IF cur = 0 THEN 1 ELSE cur

NextGen == cur + 1

\* The generations sweep_generations acts on: read_dir lists them in any order.
Swept(current) == {g \in Gens : g # current /\ dir.snap[g] # NoImage}

\* FileStorage::open: lock, read the manifest, then sweep.
Open ==
  /\ pc = "closed"
  /\ pc' = "sweep"
  /\ cur' = dir.manifest
  /\ todo' = Swept(dir.manifest)
  /\ UNCHANGED <<storageVars, victim, excl, rd>>

\* A staging file goes unconditionally.
SweepTmp ==
  /\ pc = "sweep"
  /\ tmp # NoImage
  /\ tmp' = NoImage
  /\ UNCHANGED <<metadata, dir, onDisk, complete, acked, writerVars, rd>>

\* So does a generation above the current one: a commit that never published.
SweepOrphan(g) ==
  /\ pc = "sweep"
  /\ g \in todo
  /\ g > cur
  /\ ChangeDir([dir EXCEPT !.snap[g] = NoImage])
  /\ todo' = todo \ {g}
  /\ UNCHANGED <<metadata, tmp, complete, acked, pc, cur, victim, excl, rd>>

\* A bug Lockable must not have: the probe ignores shared locks.
AlwaysLockable(i) == i # NoImage

\* What an exclusive try_lock on image i needs.
Lockable(i) == i # NoImage /\ Holders(i) = {}

\* try_reclaim_generation, first half: open it and try the exclusive lock.
Reclaim(g) ==
  /\ pc = "sweep"
  /\ g \in todo
  /\ g < cur
  /\ todo' = todo \ {g}
  /\ IF Lockable(dir.snap[g])
     THEN pc' = "reclaim" /\ victim' = g /\ excl' = dir.snap[g]
     ELSE UNCHANGED <<pc, victim, excl>>
  /\ UNCHANGED <<storageVars, cur, rd>>

\* try_reclaim_generation returns: its file, and the lock on it, are dropped.
Released == pc' = "sweep" /\ victim' = 0 /\ excl' = NoImage

\* Second half: remove the name under the lock, then release it.
Remove ==
  /\ pc = "reclaim"
  /\ ChangeDir([dir EXCEPT !.snap[victim] = NoImage])
  /\ Released
  /\ UNCHANGED <<metadata, tmp, complete, acked, cur, todo, rd>>

\* Every removal of a sweep is best-effort: the file may stay.
SweepLeaves ==
  /\ "remove" \in Faults
  /\ \/ /\ pc = "sweep"
        /\ \E e \in todo : todo' = todo \ {e}
        /\ UNCHANGED <<pc, victim, excl>>
     \/ /\ pc = "reclaim"
        /\ Released
        /\ UNCHANGED todo
  /\ UNCHANGED <<storageVars, cur, rd>>

SweepDone ==
  /\ pc = "sweep"
  /\ todo = {}
  /\ tmp # NoImage => "remove" \in Faults
  /\ pc' = "ready"
  /\ UNCHANGED <<storageVars, cur, todo, victim, excl, rd>>

\* stage_snapshot, begin_detached_snapshot: create the next staging file.
Stage ==
  /\ pc = "ready"
  /\ NextGen \in Gens
  /\ \E i \in FreeImages :
       /\ i = CHOOSE j \in FreeImages : TRUE
       /\ tmp' = i
       /\ complete' = complete \ {i}
  /\ pc' = "staging"
  /\ UNCHANGED <<metadata, dir, onDisk, acked, cur, todo, victim, excl, rd>>

\* A bug FinishImage must not have: the staged file is never fsynced.
FinishImageUnsynced == UNCHANGED complete

FinishImage == complete' = complete \cup {tmp}

\* The image written to its end and fsynced (also DetachedSnapshot::prepare).
StageDone ==
  /\ pc = "staging"
  /\ FinishImage
  /\ pc' = "staged"
  /\ UNCHANGED <<metadata, dir, onDisk, tmp, acked, cur, todo, victim, excl, rd>>

\* Writing it failed: the staging file stays until the next sweep or create.
StageFails ==
  /\ "stage" \in Faults
  /\ pc = "staging"
  /\ pc' = "ready"
  /\ UNCHANGED <<storageVars, cur, todo, victim, excl, rd>>

\* Dropping a PreparedSnapshot that was never committed removes its file.
Discard ==
  /\ pc = "staged"
  /\ tmp' = NoImage
  /\ pc' = "ready"
  /\ UNCHANGED <<metadata, dir, onDisk, complete, acked, cur, todo, victim, excl, rd>>

\* commit_snapshot, commit_detached_snapshot, write_snapshot, call by call.
RenameImage ==
  /\ pc = "staged"
  /\ ChangeDir([dir EXCEPT !.snap[NextGen] = tmp])
  /\ tmp' = NoImage
  /\ pc' = "renamed"
  /\ UNCHANGED <<metadata, complete, acked, cur, todo, victim, excl, rd>>

SyncImage ==
  /\ pc = "renamed"
  /\ SyncDir
  /\ pc' = "synced"
  /\ UNCHANGED <<metadata, dir, tmp, complete, acked, cur, todo, victim, excl, rd>>

\* publish_manifest up to its rename: the manifest's bytes are fsynced first.
PublishManifest ==
  /\ pc = "synced"
  /\ ChangeDir([dir EXCEPT !.manifest = NextGen])
  /\ pc' = "published"
  /\ UNCHANGED <<metadata, tmp, complete, acked, cur, todo, victim, excl, rd>>

\* publish_manifest's sync_dir; then current_gen and the sweep.
SyncManifest ==
  /\ pc = "published"
  /\ SyncDir
  /\ cur' = NextGen
  /\ acked' = NextGen
  /\ todo' = Swept(NextGen)
  /\ pc' = "sweep"
  /\ UNCHANGED <<metadata, dir, tmp, complete, victim, excl, rd>>

\* A call of the commit returns an error: `?` leaves the rest undone.
CommitFails ==
  /\ \/ "rename"       \in Faults /\ pc = "staged"
     \/ "syncImage"    \in Faults /\ pc = "renamed"
     \/ "manifest"     \in Faults /\ pc = "synced"
     \/ "syncManifest" \in Faults /\ pc = "published"
  /\ pc' = "ready"
  /\ UNCHANGED <<storageVars, cur, todo, victim, excl, rd>>

WriterGone == /\ pc' = "closed" /\ cur' = 0 /\ todo' = {}
              /\ victim' = 0 /\ excl' = NoImage

\* Dropped when idle, or killed at any point: the OS releases its locks.
Close ==
  /\ pc # "closed"
  /\ pc = "published" /\ metadata = "weak" => "crashUnsynced" \in Faults
  /\ WriterGone
  /\ UNCHANGED <<storageVars, rd>>

-----------------------------------------------------------------------------
(* The readers: ReadOnlyDatabase::open, refresh, Scrub::open and drop.     *)

ReaderStep(r, from, s) == rd[r].pc = from /\ rd' = [rd EXCEPT ![r] = s]

\* Reader r at another point of pin_current_generation; its old pin stays.
At(r, p, g, i) == [pc |-> p, gen |-> g, img |-> i,
                   pinGen |-> rd[r].pinGen, pinImg |-> rd[r].pinImg]

\* The loop starts over; it returns without a new pin, the handle keeping what
\* it had.
Retry(r)  == At(r, "readManifest", 0, NoImage)
GiveUp(r) == IF rd[r].pinGen = 0 THEN IdleReader ELSE At(r, "pinned", 0, NoImage)

OpenReader(r) ==
  /\ ReaderStep(r, "idle", Retry(r))
  /\ UNCHANGED <<storageVars, writerVars>>

\* refresh enters the pinning loop only when the manifest is ahead of it.
Refresh(r) ==
  /\ dir.manifest > rd[r].pinGen
  /\ ReaderStep(r, "pinned", Retry(r))
  /\ UNCHANGED <<storageVars, writerVars>>

\* A bug Unpublished must not have: the first generation waited for.
UnpublishedAwaited(r) == Retry(r)

\* No manifest: nothing to pin.
Unpublished(r) == GiveUp(r)

ReadManifest(r) ==
  /\ ReaderStep(r, "readManifest",
       IF dir.manifest = 0 THEN Unpublished(r)
       ELSE At(r, "open", dir.manifest, NoImage))
  /\ UNCHANGED <<storageVars, writerVars>>

\* The generation was reclaimed since the manifest was read.
NotFound(r) == Retry(r)

OpenGeneration(r) ==
  /\ ReaderStep(r, "open",
       LET i == dir.snap[rd[r].gen]
       IN  IF i = NoImage THEN NotFound(r)
           ELSE At(r, "lock", rd[r].gen, i))
  /\ UNCHANGED <<storageVars, writerVars>>

\* try_lock_shared: refused while the collector holds the image exclusively.
LockShared(r) ==
  /\ ReaderStep(r, "lock",
       IF rd[r].img = excl THEN Retry(r)
       ELSE At(r, "recheck", rd[r].gen, rd[r].img))
  /\ UNCHANGED <<storageVars, writerVars>>

\* The generation's name is still there once the lock is held.
Survived(r) == dir.snap[rd[r].gen] # NoImage

\* Return the pin; a refresh keeps the old one unless the new is newer.
Recheck(r) ==
  /\ ReaderStep(r, "recheck",
       IF ~Survived(r) THEN Retry(r)
       ELSE IF rd[r].gen <= rd[r].pinGen THEN GiveUp(r)
       ELSE [pc |-> "pinned", gen |-> 0, img |-> NoImage,
             pinGen |-> rd[r].gen, pinImg |-> rd[r].img])
  /\ UNCHANGED <<storageVars, writerVars>>

\* Mapping the pinned file failed: the new pin is dropped.
MapFails(r) ==
  /\ ReaderStep(r, "recheck", GiveUp(r))
  /\ Survived(r)
  /\ UNCHANGED <<storageVars, writerVars>>

\* The handle dropped, or its process killed, at any point.
DropReader(r) ==
  /\ rd[r].pc # "idle"
  /\ rd' = [rd EXCEPT ![r] = IdleReader]
  /\ UNCHANGED <<storageVars, writerVars>>

-----------------------------------------------------------------------------
PowerCut ==
  /\ \E d \in Survivors : dir' = d /\ onDisk' = {d}
  /\ WriterGone
  /\ rd' = [r \in Readers |-> IdleReader]
  /\ tmp' \in {tmp, NoImage}
  /\ UNCHANGED <<metadata, complete, acked>>

Init ==
  /\ metadata \in Metadata
  /\ dir = [manifest |-> 0, snap |-> [g \in Gens |-> NoImage]]
  /\ onDisk = {dir}
  /\ tmp = NoImage
  /\ complete = {}
  /\ pc = "closed" /\ cur = 0 /\ todo = {} /\ victim = 0 /\ excl = NoImage
  /\ acked = 0
  /\ rd = [r \in Readers |-> IdleReader]

Sweep == \/ \E g \in Gens : SweepOrphan(g) \/ Reclaim(g)
         \/ SweepTmp \/ Remove \/ SweepLeaves \/ SweepDone
Commit == \/ Stage \/ StageDone \/ StageFails \/ Discard
          \/ RenameImage \/ SyncImage \/ PublishManifest \/ SyncManifest
          \/ CommitFails
Pinning(r) == \/ ReadManifest(r) \/ OpenGeneration(r) \/ LockShared(r)
              \/ Recheck(r) \/ MapFails(r)

Next == \/ Open \/ Sweep \/ Commit \/ Close \/ PowerCut
        \/ \E r \in Readers : \/ OpenReader(r) \/ Refresh(r) \/ Pinning(r)
                              \/ DropReader(r)

\* A pinning loop runs until it returns, and so does a removal that is under
\* its lock: both are a running thread.  Nothing else is owed a step.
Fairness == WF_vars(Remove) /\ \A r \in Readers : WF_vars(Pinning(r))

Spec == Init /\ [][Next]_vars /\ Fairness

-----------------------------------------------------------------------------
(* Properties.                                                             *)

\* The type of every variable, and what the writer's point in the code says
\* of its others: a closed writer holds nothing, and the exclusive lock of
\* try_reclaim_generation is held exactly while a removal is under way.
TypeOK ==
  /\ metadata \in Metadata
  /\ dir \in Dirs
  /\ onDisk \subseteq Dirs
  /\ tmp \in Images \cup {NoImage}
  /\ complete \subseteq Images
  /\ pc \in WriterPC
  /\ cur \in 0..MaxGen
  /\ todo \subseteq Gens
  /\ victim \in 0..MaxGen
  /\ excl \in Images \cup {NoImage}
  /\ acked \in 0..MaxGen
  /\ rd \in [Readers -> ReaderStates]
  /\ pc = "closed" => cur = 0 /\ todo = {}
  /\ pc = "reclaim" <=> excl # NoImage
  /\ pc = "reclaim" <=> victim # 0

\* The snapshot a read-only handle maps is never rewritten, reclaimed or
\* renamed over while the handle lives: its generation's name still leads to
\* the mapped image, whole (storage.rs:15-22, the argument of the mmap in
\* ReadOnlyDatabase::open), whatever the collector, a refresh or a crash does.
PinnedIntact ==
  \A r \in Readers : rd[r].pinGen # 0 =>
    /\ dir.snap[rd[r].pinGen] = rd[r].pinImg
    /\ rd[r].pinImg \in complete

\* A manifest, the visible one and any a power cut may leave, names a
\* generation whose complete image is there (storage.rs:20-21): no crash point
\* of a commit or a sweep leaves a database that cannot be opened.
PublishedImageSurvives ==
  \A d \in Survivors : d.manifest # 0 => d.snap[d.manifest] \in complete

\* Once a commit has returned Ok, no power cut rolls the manifest back behind
\* it: the caller clears the journal on the strength of that.
CommitIsDurable == \A d \in Survivors : d.manifest >= acked

\* The image behind a manifest; every image will do here, its completeness is
\* PublishedImageSurvives.
Published(d) == IF d.manifest = 0 THEN NoImage ELSE d.snap[d.manifest]
AnyImage(i)  == TRUE

\* Publishing is one step and survives a crash as a whole: the many calls of a
\* commit, a sweep and an open implement the contract of DurableMemory, the
\* image a reader would open being the contents.  Database takes a commit for a
\* single step on the strength of this.
Promise == INSTANCE DurableMemory
             WITH view <- Published(dir), kept <- {Published(d) : d \in Survivors},
                  Opens <- AnyImage
PublishesAtomically == Promise!Spec

\* The image behind the manifest changes only by publishing a higher number
\* (ReadOnlyDatabase::generation, readonly.rs:355-358): a refresh that compares
\* numbers misses no publication.
NewImageNewNumber ==
  [][ /\ dir.manifest # 0
      /\ ~PowerCut
      /\ dir'.snap[dir'.manifest] # dir.snap[dir.manifest]
      => dir'.manifest > dir.manifest ]_vars

\* A reader in pin_current_generation's retry loop leaves it, with a pin or
\* without: once checkpoints pause (MaxGen bounds them here) neither a removed
\* generation nor a collector's lock keeps it going round.
PinningEnds ==
  \A r \in Readers : rd[r].pc = "readManifest" ~> rd[r].pc \in {"idle", "pinned"}
=============================================================================
