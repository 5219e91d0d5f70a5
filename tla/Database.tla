------------------------------ MODULE Database ------------------------------
(***************************************************************************)
(* A Database of plugmem-host (db.rs) over its files: the engine in memory, *)
(* the published snapshot it was loaded from, and the journal of what has  *)
(* been written since.  One writer at a time holds the state lock; a       *)
(* checkpoint, a disk-first maintenance pass and the end of a reembed are  *)
(* several steps under it, with a crash possible between any two, and the  *)
(* provider's part of a reembed runs without it.                           *)
(*                                                                         *)
(* A verb is its journal record: the verbs and Memory::replay share their  *)
(* execution paths (module Engine), and Memory checks that replaying a     *)
(* record does what the verb did.  Publishing a snapshot is one step here, *)
(* atomic and durable: module FileStorage is about that.                   *)
(***************************************************************************)
EXTENDS Engine

CONSTANTS
  Verbs,       \* the kinds of record written, see Kinds
  Faults,      \* the failures allowed besides crashes, see FaultKinds
  Policies,    \* FsyncPolicy: "EachOp", "OnSnapshot"
  MaxJournal   \* bound: the records in a journal

Kinds == {"Remember", "Revise", "Forget", "Link", "Unlink", "RemoveTag",
          "SetVectorSpace", "Maintain"}

\* Publishing fails; the journal's truncation fails; a crash comes between the
\* two; opening what was published fails; a crash cuts a record short.
FaultKinds == {"commit", "clear", "crashUncleared", "reopen", "torn"}

ASSUME DatabaseAssumption == /\ Verbs \subseteq Kinds
                             /\ Faults \subseteq FaultKinds
                             /\ Policies \subseteq {"EachOp", "OnSnapshot"}
                             /\ MaxJournal \in Nat

VARIABLES
  policy,      \* State.store's FsyncPolicy
  mem,         \* State.engine
  image,       \* the contents of the snapshot the manifest names
  journal,     \* the journal file's records
  synced,      \* how many of them a power cut cannot take
  staged,      \* the contents of the snapshot being prepared, if any
  pc,          \* what the holder of the state lock is doing
  reembedding, \* State.reembedding
  stranded     \* history: a verb has returned with an engine that is not what
               \* the files hold, parked empty or older than the snapshot

vars == <<policy, mem, image, journal, synced, staged, pc, reembedding, stranded>>

PC == {"closed",                     \* no process has the database open
       "ready",                      \* the lock is free
       "append",                     \* append_journal has written, not synced
       "checkpoint", "maintain",     \* a snapshot is staged, the engine parked
       "published", "compacted",     \* the manifest names it, by a checkpoint,
       "reembedded",                 \* a disk-first maintain, a reembed
       "reopen"}                     \* open_engine is next

-----------------------------------------------------------------------------
(* The journal.                                                            *)

\* What is left of a record cut short: not a record.
Torn == [op |-> "Torn"]

\* journal::scan: a record cut short is dropped when nothing follows it, and
\* with bytes after it the frame it began is either cut short still or fails
\* its checksum, depending on lengths that are left out.
TornAt(j)  == SelectInSeq(j, LAMBDA r : r = Torn)
Whole(j)   == IF TornAt(j) = 0 THEN j ELSE SubSeq(j, 1, TornAt(j) - 1)
Loads(i, j) == {Load(i, Whole(j))}
               \cup (IF TornAt(j) \in 1..Len(j) - 1 THEN {Corrupt(i)} ELSE {})

\* A bug SyncedAfter must not have: the record's fsync forgotten.
SyncedNever == synced

SyncedAfter == IF policy = "EachOp" THEN Len(journal) ELSE synced

\* The journals a power cut may leave of j.
LeftOf(j) ==
  {SubSeq(j, 1, n) : n \in synced..Len(j)}
  \cup (IF "torn" \in Faults
        THEN {Append(SubSeq(j, 1, n), Torn) : n \in synced..Len(j) - 1} ELSE {})

-----------------------------------------------------------------------------
(* The verbs.                                                              *)

\* A remember's arguments, where only tags and vector matter.
Plain(tags, links, vec) == [now |-> 0, from |-> 0, tags |-> tags, links |-> links,
                            vec |-> vec, dupKey |-> FALSE]

Arguments == {Plain(tags, links, vec) :
                tags  \in SUBSET Tags,
                links \in {<<>>} \cup {<<e>> : e \in Edges},
                vec   \in {NoVector} \cup ({mem.space} \cap Spaces)}

\* The records the verbs may journal in the state the engine is in.
Records ==
  [Remember  |-> {RememberOp(in, NoFact, mem.next) : in \in Arguments},
   Revise    |-> {RememberOp(in, id, mem.next) :
                    in \in Arguments, id \in {i \in IdsOf(mem) : Revisable(mem, i)}},
   Forget    |-> {ForgetOp(id) : id \in IdsOf(mem)},
   Link      |-> {LinkOp(e, 0, NoFact) : e \in Edges},
   Unlink    |-> {UnlinkOp(e, 0) : e \in Edges},
   RemoveTag |-> {RemoveTagOp(t, 0) : t \in {u \in Tags : RemoveTagTargets(mem, u) # <<>>}},
   SetVectorSpace |-> {SetSpaceOp(s) : s \in {t \in Spaces \ {mem.space} : MayClaim(mem, t)}},
   Maintain  |-> {MaintainOp}]

\* A bug WriteAvailable must not have: a reembed under way not looked at.
WriteAlways == TRUE

\* write_available does not return ReembedBusy.
WriteAvailable == ~reembedding

\* A mutating verb under write_available, and what after_mutation's in-RAM
\* maintenance journals: apply, then append.
Write ==
  /\ pc = "ready"
  /\ WriteAvailable
  /\ Len(journal) < MaxJournal
  /\ \E kind \in Verbs : \E op \in Records[kind] :
       /\ mem' = ReplayOp(mem, op).mem
       /\ mem'.next <= MaxFacts /\ mem'.nextEdge <= MaxEdges
       /\ journal' = Append(journal, op)
  /\ pc' = "append"
  /\ UNCHANGED <<policy, image, synced, staged, reembedding, stranded>>

\* append_journal's sync_data, and the verb returns.
Acknowledge ==
  /\ pc = "append"
  /\ synced' = SyncedAfter
  /\ pc' = "ready"
  /\ UNCHANGED <<policy, mem, image, journal, staged, reembedding, stranded>>

-----------------------------------------------------------------------------
(* Checkpoint and disk-first maintenance.                                  *)

\* resnapshot: stage what the engine holds, then park an empty engine.
Checkpoint ==
  /\ pc = "ready"
  /\ WriteAvailable
  /\ staged' = mem
  /\ mem' = EmptyMemory
  /\ pc' = "checkpoint"
  /\ UNCHANGED <<policy, image, journal, synced, reembedding, stranded>>

\* maintain_with_options, disk-first (a tombstone to purge, or a full pass):
\* stage what a compaction leaves.
Maintain ==
  /\ "Maintain" \in Verbs
  /\ pc = "ready"
  /\ WriteAvailable
  /\ staged' = Purge(mem)
  /\ mem' = EmptyMemory
  /\ pc' = "maintain"
  /\ UNCHANGED <<policy, image, journal, synced, reembedding, stranded>>

\* commit_snapshot.
Publish ==
  /\ pc \in {"checkpoint", "maintain"}
  /\ image' = staged
  /\ staged' = EmptyMemory
  /\ pc' = IF pc = "checkpoint" THEN "published" ELSE "compacted"
  /\ UNCHANGED <<policy, mem, journal, synced, reembedding, stranded>>

\* A bug PublishFails must not have: a checkpoint returns with the engine parked.
PublishFailsParked ==
  /\ "commit" \in Faults
  /\ pc \in {"checkpoint", "maintain"}
  /\ pc' = "ready" /\ stranded' = (pc = "maintain")
  /\ staged' = EmptyMemory
  /\ UNCHANGED <<policy, mem, image, journal, synced, reembedding>>

\* It fails.  resnapshot reopens what is on disk; the disk-first pass returns
\* with `?`, the engine still parked.
PublishFails ==
  /\ "commit" \in Faults
  /\ \/ pc = "checkpoint" /\ pc' = "reopen" /\ UNCHANGED stranded
     \/ pc = "maintain"   /\ pc' = "ready"  /\ stranded' = TRUE
  /\ staged' = EmptyMemory
  /\ UNCHANGED <<policy, mem, image, journal, synced, reembedding>>

\* A bug Cleared must not have: what was not fsynced stays in the file.
ClearedPartly == SubSeq(journal, synced + 1, Len(journal))

Cleared == <<>>

\* The new snapshot is published, the journal of the one before still there.
Uncleared == pc \in {"published", "compacted", "reembedded"}

\* clear_journal.
ClearJournal ==
  /\ Uncleared
  /\ journal' = Cleared
  /\ synced' = 0
  /\ pc' = "reopen"
  /\ UNCHANGED <<policy, mem, image, staged, reembedding, stranded>>

\* It fails: the journal of the snapshot before stays.  A checkpoint and a
\* reembed reopen all the same; the disk-first pass returns with `?` again.
ClearFails ==
  /\ "clear" \in Faults
  /\ Uncleared
  /\ IF pc = "compacted" THEN pc' = "ready" /\ stranded' = TRUE
     ELSE pc' = "reopen" /\ UNCHANGED stranded
  /\ UNCHANGED <<policy, mem, image, journal, synced, staged, reembedding>>

\* open_engine, and the verb that called it returns.
Reopen ==
  /\ pc = "reopen"
  /\ \E load \in Loads(image, journal) :
       IF load.ok THEN mem' = load.mem /\ reembedding' = FALSE /\ UNCHANGED stranded
       ELSE stranded' = TRUE /\ UNCHANGED <<mem, reembedding>>
  /\ pc' = "ready"
  /\ UNCHANGED <<policy, image, journal, synced, staged>>

\* It fails on I/O: the engine stays as it is, and a reembed's barrier stays up.
ReopenFails ==
  /\ "reopen" \in Faults
  /\ pc = "reopen"
  /\ pc' = "ready"
  /\ stranded' = TRUE
  /\ UNCHANGED <<policy, mem, image, journal, synced, staged, reembedding>>

-----------------------------------------------------------------------------
(* Reembed.                                                                *)

\* reembed_arc freezes the contents and lets the lock go; the provider's
\* answers are staged as a whole new vector axis in space s.
BeginReembed ==
  /\ pc = "ready"
  /\ WriteAvailable
  /\ \E s \in Spaces : staged' = Reembedded(mem, s)
  /\ reembedding' = TRUE
  /\ UNCHANGED <<policy, mem, image, journal, synced, pc, stranded>>

\* A caller is in reembed_arc; the barrier may also be up because open_engine
\* failed at the end of one.
ReembedUnderWay == reembedding /\ staged # EmptyMemory

\* The provider, the image's preparation or its commit failed: the barrier goes.
AbandonReembed ==
  /\ pc = "ready"
  /\ ReembedUnderWay
  /\ reembedding' = FALSE
  /\ staged' = EmptyMemory
  /\ UNCHANGED <<policy, mem, image, journal, synced, pc, stranded>>

\* commit_detached_snapshot, the lock taken again.
PublishReembed ==
  /\ pc = "ready"
  /\ ReembedUnderWay
  /\ image' = staged
  /\ staged' = EmptyMemory
  /\ pc' = "reembedded"
  /\ UNCHANGED <<policy, mem, journal, synced, reembedding, stranded>>

-----------------------------------------------------------------------------
(* Open and crash.                                                         *)

\* DatabaseBuilder::open: on an error nothing is opened.
Open ==
  /\ pc = "closed"
  /\ \E load \in Loads(image, journal) :
       IF load.ok THEN mem' = load.mem /\ pc' = "ready" ELSE UNCHANGED <<mem, pc>>
  /\ UNCHANGED <<policy, image, journal, synced, staged, reembedding, stranded>>

\* A power cut or a kill, at any point: memory is lost, and of the journal what
\* was not fsynced may be.
Crash ==
  /\ pc # "closed"
  /\ Uncleared => "crashUncleared" \in Faults
  /\ \E j \in LeftOf(journal) : journal' = j /\ synced' = Len(j)
  /\ mem' = EmptyMemory /\ staged' = EmptyMemory
  /\ pc' = "closed" /\ reembedding' = FALSE
  /\ UNCHANGED <<policy, image, stranded>>

Init ==
  /\ policy \in Policies
  /\ mem = EmptyMemory /\ image = EmptyMemory /\ staged = EmptyMemory
  /\ journal = <<>> /\ synced = 0
  /\ pc = "closed" /\ reembedding = FALSE /\ stranded = FALSE

Next == \/ Open \/ Crash \/ Write \/ Acknowledge \/ Checkpoint \/ Maintain
        \/ Publish \/ PublishFails \/ ClearJournal \/ ClearFails
        \/ Reopen \/ ReopenFails
        \/ BeginReembed \/ AbandonReembed \/ PublishReembed

Spec == Init /\ [][Next]_vars

-----------------------------------------------------------------------------
(* Properties.                                                             *)

\* What a clean reopen gives, and what a crash may leave.
Restored == Load(image, Whole(journal))
Kept     == {Load(image, Whole(j)) : j \in LeftOf(journal)}

\* Under FsyncPolicy::EachOp a verb that has returned survives any crash
\* (core storage.rs:16-17, append_journal "is the durability point").
AcknowledgedSurvives ==
  policy = "EachOp" /\ pc = "ready" /\ ~stranded => Kept = {Loaded(mem)}

\* What readers see once the state lock is free is the database: what a reopen
\* would load, not an engine parked or ahead of its files; unless the verb before
\* failed so as to leave it stranded.
ReadersSeeTheDatabase == pc = "ready" /\ ~stranded => Restored = Loaded(mem)

\* No sequence of verbs, checkpoints, maintenance and crashes makes a database
\* that cannot be opened again, while no failed verb has stranded the engine.
AlwaysOpens ==
  pc \in {"closed", "ready"} /\ ~stranded => \A load \in Loads(image, journal) : load.ok

\* A reembed changes vectors and nothing else: no verb acknowledged while the
\* provider was running is missing from the snapshot it publishes.
NoWriteLostToReembed ==
  [][PublishReembed => \E s \in Spaces : image' = Reembedded(mem, s)]_vars

\* "It is replaced by the fresh overlay below - or, if the commit fails, rebuilt
\* from the intact on-disk snapshot + journal" (db.rs:825-826, which the
\* disk-first maintain calls "exactly the `resnapshot` dance", db.rs:1332-1333):
\* so no checkpoint publishes the parked, empty engine in place of the database.
CheckpointKeepsContents ==
  [][pc = "checkpoint" /\ Publish => image' = Restored.mem]_vars

\* "journal replay is idempotent, so a failed `clear_journal` does not corrupt
\* state" (db.rs:833-834): the journal of the snapshot before replays over the
\* new one without effect.
StaleJournalHarmless == [][ClearFails => Restored = Loaded(image)]_vars
=============================================================================
