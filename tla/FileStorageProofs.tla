------------------------- MODULE FileStorageProofs -------------------------
(***************************************************************************)
(* Theorems about FileStorage, for every set of readers, every bound and   *)
(* every file system: type correctness, with no hypothesis; and, when the  *)
(* manifest's own sync_dir neither fails nor is cut off by the death of    *)
(* the writer on a file system that reorders directory operations, that a  *)
(* pinned generation stays whole, that every survivor of a power cut can   *)
(* be opened, that a commit that returned Ok is durable, that publishing   *)
(* is atomic, and that a new image has a higher generation number.         *)
(***************************************************************************)
EXTENDS FileStorage, TLAPS

\* The hypothesis of the safety theorems.  Both cases it excludes are real: the
\* run FileStorageUnsynced shows what the first loses, and after the second open
\* sweeps the older generation before the manifest is durable.
ManifestSyncs == Faults \cap {"syncManifest", "crashUnsynced"} = {}

-----------------------------------------------------------------------------
(* The inductive invariant.                                                *)

\* From create to publish there is a generation to publish, and a staged image
\* until the rename takes it.
StageShape ==
  /\ pc \in {"staging", "staged", "renamed", "synced", "published"}
       => NextGen \in Gens
  /\ pc \in {"staging", "staged"} => tmp \in Images

\* In the pinning loop, past the manifest, there is a generation to pin.
ReaderShape ==
  \A r \in Readers : rd[r].pc \in {"open", "lock", "recheck"} => rd[r].gen \in Gens

TypeInv == TypeOK /\ StageShape /\ ReaderShape

\* current_gen is what the manifest names, but for the instant between the
\* manifest's rename and its sync_dir.
CurrentInv ==
  /\ pc \notin {"closed", "published"} => cur = dir.manifest
  /\ pc = "published" => dir.manifest = NextGen

\* What is renamed into place is complete, and no survivor has lost that.
ImageInv ==
  /\ dir \in onDisk
  /\ \A d \in onDisk, g \in Gens : d.snap[g] \in complete \cup {NoImage}
  /\ pc = "staged" => tmp \in complete
  /\ pc \in {"renamed", "synced", "published"} => dir.snap[NextGen] \in complete

\* The collector removes a superseded generation nobody holds.
CollectorInv ==
  pc = "reclaim" => victim < cur /\ excl = dir.snap[victim] /\ Holders(excl) = {}

\* A name at or below the manifest's generation leads to the image a reader
\* opened under it or to nothing, and to that image still while it is pinned.
ReaderInv ==
  \A r \in Readers :
    /\ rd[r].pc \in {"open", "lock", "recheck"} => rd[r].gen <= dir.manifest
    /\ rd[r].pc \in {"lock", "recheck"} =>
         /\ rd[r].img \in complete
         /\ dir.snap[rd[r].gen] \in {rd[r].img, NoImage}
    /\ rd[r].pinGen # 0 =>
         /\ rd[r].pinGen <= dir.manifest
         /\ dir.snap[rd[r].pinGen] = rd[r].pinImg
         /\ rd[r].pinImg \in complete

\* Every possible survivor is whole; on weak metadata because the survivors
\* agree on the manifest, and on the image of every generation one of them
\* names.
DiskInv ==
  /\ \A d \in onDisk : d.manifest # 0 => d.snap[d.manifest] \in complete
  /\ \A d \in onDisk : d.manifest >= acked
  /\ pc = "synced" => onDisk = {dir}
  /\ metadata = "weak" =>
       \A d, e \in onDisk :
         /\ e.manifest # 0 => d.snap[e.manifest] = e.snap[e.manifest]
         /\ e.manifest = dir.manifest \/ (pc = "published" /\ e.manifest = cur)

IInv == TypeInv /\ CurrentInv /\ ImageInv /\ CollectorInv /\ ReaderInv /\ DiskInv

-----------------------------------------------------------------------------
(* Type correctness.                                                       *)

\* A reader moved along the pinning loop is a reader state again.
LEMMA AtIsReaderState ==
  ASSUME TypeOK, NEW r \in Readers, NEW p \in ReaderPC, NEW g \in 0..MaxGen,
         NEW i \in Images \cup {NoImage}
  PROVE  /\ At(r, p, g, i) \in ReaderStates
         /\ At(r, p, g, i).pc = p
         /\ At(r, p, g, i).gen = g
<1>1. rd[r] \in ReaderStates
  BY DEF TypeOK
<1>2. QED BY <1>1 DEF At, ReaderStates

\* So are the results of the loop, which have no generation under way.
LEMMA ReaderResults ==
  ASSUME TypeOK, NEW r \in Readers, NEW s \in {GiveUp(r), Retry(r), IdleReader}
  PROVE  s \in ReaderStates /\ s.pc \in {"idle", "pinned", "readManifest"}
<1>1. IdleReader \in ReaderStates /\ IdleReader.pc = "idle"
  BY MaxGenAssumption DEF IdleReader, ReaderStates, ReaderPC
<1>2. At(r, "pinned", 0, NoImage) \in ReaderStates
      /\ At(r, "pinned", 0, NoImage).pc = "pinned"
  BY AtIsReaderState, MaxGenAssumption DEF ReaderPC
<1>3. At(r, "readManifest", 0, NoImage) \in ReaderStates
      /\ At(r, "readManifest", 0, NoImage).pc = "readManifest"
  BY AtIsReaderState, MaxGenAssumption DEF ReaderPC
<1>4. QED BY <1>1, <1>2, <1>3 DEF GiveUp, Retry

\* Any survivor of a power cut is a directory.
LEMMA SurvivorsAreDirs ==
  ASSUME TypeOK, NEW d \in Survivors
  PROVE  d \in Dirs
BY DEF TypeOK, Survivors, Dirs

LEMMA TypeInit == Init => TypeInv
BY MaxGenAssumption DEF Init, TypeInv, TypeOK, StageShape, ReaderShape, Dirs, Gens, WriterPC,
   ReaderStates, ReaderPC, IdleReader

\* Every step of the writer, and a power cut, keeps the types.
LEMMA TypeWriterStep ==
  ASSUME TypeInv, Open \/ Sweep \/ Commit \/ Close \/ PowerCut
  PROVE  TypeInv'
<1> USE MaxGenAssumption, ImagesAssumption
    DEF TypeInv, TypeOK, StageShape, ReaderShape, Dirs, WriterPC, NextGen,
        storageVars, ChangeDir
<1>1. CASE Open
  BY <1>1 DEF Open, Swept, Gens
<1>2. CASE Sweep
  <2>1. CASE \E g \in Gens : SweepOrphan(g)
    <3>1. PICK g \in Gens : SweepOrphan(g)
      BY <2>1
    <3>2. dir' \in Dirs /\ onDisk' \subseteq Dirs /\ todo' \subseteq Gens
      BY <3>1 DEF SweepOrphan
    <3>3. QED BY <3>1, <3>2 DEF SweepOrphan
  <2>2. CASE \E g \in Gens : Reclaim(g)
    BY <2>2 DEF Reclaim, Lockable, Gens
  <2>3. CASE SweepTmp \/ SweepLeaves \/ SweepDone
    BY <2>3 DEF SweepTmp, SweepLeaves, SweepDone, Released, writerVars
  <2>4. CASE Remove
    BY <2>4 DEF Remove, Released
  <2>5. QED BY <1>2, <2>1, <2>2, <2>3, <2>4 DEF Sweep
<1>3. CASE Commit
  <2>1. CASE Stage
    BY <2>1 DEF Stage, FreeImages
  <2>2. CASE StageDone
    BY <2>2 DEF StageDone, FinishImage
  <2>3. CASE StageFails \/ CommitFails \/ Discard
    BY <2>3 DEF StageFails, CommitFails, Discard
  <2>4. CASE RenameImage
    BY <2>4 DEF RenameImage
  <2>5. CASE SyncImage
    BY <2>5 DEF SyncImage, SyncDir
  <2>6. CASE PublishManifest
    BY <2>6 DEF PublishManifest, Gens
  <2>7. CASE SyncManifest
    BY <2>7 DEF SyncManifest, SyncDir, Swept, Gens
  <2>8. QED BY <1>3, <2>1, <2>2, <2>3, <2>4, <2>5, <2>6, <2>7 DEF Commit
<1>4. CASE Close
  BY <1>4 DEF Close, WriterGone
<1>5. CASE PowerCut
  <2>1. PICK d \in Survivors : dir' = d /\ onDisk' = {d}
    BY <1>5 DEF PowerCut
  <2>2. d \in Dirs
    BY SurvivorsAreDirs
  <2>3. rd' \in [Readers -> ReaderStates] /\ ReaderShape'
    BY <1>5 DEF PowerCut, IdleReader, ReaderStates, ReaderPC
  <2>4. dir' \in Dirs /\ onDisk' \subseteq Dirs
    BY <2>1, <2>2
  <2>5. QED BY <1>5, <2>3, <2>4 DEF PowerCut, WriterGone
<1>6. QED BY <1>1, <1>2, <1>3, <1>4, <1>5

\* What a step of a reader changes: its own state, to a reader state.
LEMMA ReaderChanges ==
  ASSUME TypeInv, NEW r \in Readers,
         OpenReader(r) \/ Refresh(r) \/ Pinning(r) \/ DropReader(r)
  PROVE  /\ UNCHANGED <<storageVars, writerVars>>
         /\ \E s \in ReaderStates :
              /\ rd' = [rd EXCEPT ![r] = s]
              /\ s.pc \in {"open", "lock", "recheck"} => s.gen \in Gens
<1> DEFINE Result(s) ==
             /\ s \in ReaderStates
             /\ s.pc \in {"open", "lock", "recheck"} => s.gen \in Gens
<1>0. Result(GiveUp(r)) /\ Result(Retry(r)) /\ Result(IdleReader)
  BY ReaderResults DEF TypeInv
<1> HIDE DEF Result
<1> SUFFICES /\ UNCHANGED <<storageVars, writerVars>>
             /\ \E s : Result(s) /\ rd' = [rd EXCEPT ![r] = s]
  BY DEF Result
<1>1. CASE OpenReader(r) \/ Refresh(r)
  BY <1>0, <1>1 DEF OpenReader, Refresh, ReaderStep
<1>2. CASE ReadManifest(r)
  <2>1. CASE dir.manifest = 0
    BY <1>0, <1>2, <2>1 DEF ReadManifest, Unpublished, ReaderStep
  <2>2. CASE dir.manifest # 0
    <3>1. dir.manifest \in Gens /\ dir.manifest \in 0..MaxGen
      BY <2>2, MaxGenAssumption DEF TypeInv, TypeOK, Dirs, Gens
    <3>2. Result(At(r, "open", dir.manifest, NoImage))
      BY <3>1, AtIsReaderState DEF TypeInv, ReaderPC, Result
    <3>3. QED BY <1>2, <2>2, <3>2 DEF ReadManifest, Unpublished, ReaderStep
  <2>3. QED BY <2>1, <2>2
<1>3. CASE OpenGeneration(r)
  <2>1. CASE dir.snap[rd[r].gen] = NoImage
    BY <1>0, <1>3, <2>1 DEF OpenGeneration, ReaderStep, NotFound
  <2>2. CASE dir.snap[rd[r].gen] # NoImage
    <3>1. rd[r].gen \in Gens
      BY <1>3 DEF OpenGeneration, ReaderStep, TypeInv, ReaderShape
    <3>2. dir.snap[rd[r].gen] \in Images /\ rd[r].gen \in 0..MaxGen
      BY <2>2, <3>1, MaxGenAssumption DEF TypeInv, TypeOK, Dirs, Gens
    <3>3. Result(At(r, "lock", rd[r].gen, dir.snap[rd[r].gen]))
      BY <3>1, <3>2, AtIsReaderState DEF TypeInv, ReaderPC, Result
    <3>4. QED BY <1>3, <2>2, <3>3 DEF OpenGeneration, ReaderStep
  <2>3. QED BY <2>1, <2>2
<1>4. CASE LockShared(r)
  <2>1. rd[r].gen \in Gens /\ rd[r].gen \in 0..MaxGen
    BY <1>4, MaxGenAssumption DEF LockShared, ReaderStep, TypeInv, ReaderShape, Gens
  <2>2. rd[r].img \in Images \cup {NoImage}
    BY DEF TypeInv, TypeOK, ReaderStates
  <2>3. Result(At(r, "recheck", rd[r].gen, rd[r].img))
    BY <2>1, <2>2, AtIsReaderState DEF TypeInv, ReaderPC, Result
  <2>4. QED BY <1>0, <1>4, <2>3 DEF LockShared, ReaderStep
<1>5. CASE Recheck(r)
  <2>1. CASE ~Survived(r) \/ rd[r].gen <= rd[r].pinGen
    BY <1>0, <1>5, <2>1 DEF Recheck, ReaderStep
  <2>2. CASE Survived(r) /\ ~(rd[r].gen <= rd[r].pinGen)
    <3> DEFINE s == [pc |-> "pinned", gen |-> 0, img |-> NoImage,
                     pinGen |-> rd[r].gen, pinImg |-> rd[r].img]
    <3>1. rd[r] \in ReaderStates
      BY DEF TypeInv, TypeOK
    <3>2. Result(s)
      BY <3>1, MaxGenAssumption DEF ReaderStates, ReaderPC, Result
    <3>3. QED BY <1>5, <2>2, <3>2 DEF Recheck, ReaderStep
  <2>3. QED BY <2>1, <2>2
<1>6. CASE MapFails(r)
  BY <1>0, <1>6 DEF MapFails, ReaderStep
<1>7. CASE DropReader(r)
  BY <1>0, <1>7 DEF DropReader
<1>8. QED BY <1>1, <1>2, <1>3, <1>4, <1>5, <1>6, <1>7 DEF Pinning

LEMMA TypeStep == TypeInv /\ [Next]_vars => TypeInv'
<1> SUFFICES ASSUME TypeInv, [Next]_vars PROVE TypeInv'
  OBVIOUS
<1>1. CASE Open \/ Sweep \/ Commit \/ Close \/ PowerCut
  BY <1>1, TypeWriterStep
<1>2. CASE \E r \in Readers : OpenReader(r) \/ Refresh(r) \/ Pinning(r) \/ DropReader(r)
  <2>1. PICK r \in Readers : OpenReader(r) \/ Refresh(r) \/ Pinning(r) \/ DropReader(r)
    BY <1>2
  <2>2. PICK s \in ReaderStates :
          /\ rd' = [rd EXCEPT ![r] = s]
          /\ s.pc \in {"open", "lock", "recheck"} => s.gen \in Gens
    BY <2>1, ReaderChanges
  <2>3. UNCHANGED <<storageVars, writerVars>>
    BY <2>1, ReaderChanges
  <2>4. QED BY <2>2, <2>3
            DEF TypeInv, TypeOK, StageShape, ReaderShape, storageVars, writerVars,
                NextGen
<1>3. CASE UNCHANGED vars
  BY <1>3 DEF TypeInv, TypeOK, StageShape, ReaderShape, vars, storageVars,
             writerVars, NextGen
<1>4. QED BY <1>1, <1>2, <1>3 DEF Next

\* Every variable keeps its type, a closed writer holds nothing, and the
\* collector's exclusive lock lives exactly as long as its removal.
THEOREM TypeCorrect == Spec => []TypeOK
<1>1. TypeInv => TypeOK
  BY DEF TypeInv
<1>2. QED BY TypeInit, TypeStep, <1>1, PTL DEF Spec

-----------------------------------------------------------------------------
(* Safety.                                                                 *)

LEMMA SafeInit == Init => IInv
<1> SUFFICES ASSUME Init PROVE IInv
  OBVIOUS
<1>1. TypeInv
  BY TypeInit
<1>2. QED BY <1>1 DEF Init, IInv, CurrentInv, ImageInv, CollectorInv, ReaderInv,
                      DiskInv, IdleReader

LEMMA SafeOpen == ASSUME IInv, Open PROVE IInv'
<1>1. TypeInv'
  BY TypeWriterStep DEF IInv
<1>2. QED BY <1>1 DEF IInv, Open, CurrentInv, ImageInv, CollectorInv, ReaderInv,
                      DiskInv, Holders, storageVars, NextGen

LEMMA SafeClose == ASSUME IInv, ManifestSyncs, Close PROVE IInv'
<1>1. TypeInv'
  BY TypeWriterStep DEF IInv
<1>2. QED BY <1>1 DEF IInv, Close, WriterGone, ManifestSyncs, CurrentInv,
                      ImageInv, CollectorInv, ReaderInv, DiskInv, Holders,
                      storageVars, NextGen

\* What a power cut may leave is whole, and behind no commit that returned.
LEMMA SurvivorsWhole ==
  ASSUME IInv, NEW d \in Survivors
  PROVE  /\ d.manifest # 0 => d.snap[d.manifest] \in complete
         /\ d.manifest >= acked
         /\ \A g \in Gens : d.snap[g] \in complete \cup {NoImage}
<1>1. CASE metadata = "ordered"
  BY <1>1 DEF Survivors, IInv, DiskInv, ImageInv
<1>2. CASE metadata = "weak"
  <2>1. PICK e \in onDisk : d.manifest = e.manifest
    BY <1>2 DEF Survivors
  <2>2. \A g \in Gens : \E f \in onDisk : d.snap[g] = f.snap[g]
    BY <1>2 DEF Survivors
  <2>3. d.manifest # 0 => d.manifest \in Gens
    BY <2>1, MaxGenAssumption DEF IInv, TypeInv, TypeOK, Dirs, Gens
  <2>4. ASSUME d.manifest # 0
        PROVE  d.snap[d.manifest] \in complete
    <3>1. PICK f \in onDisk : d.snap[d.manifest] = f.snap[d.manifest]
      BY <2>2, <2>3, <2>4
    <3>2. f.snap[e.manifest] = e.snap[e.manifest] /\ e.snap[e.manifest] \in complete
      BY <1>2, <2>1, <2>4 DEF IInv, DiskInv
    <3>3. QED BY <2>1, <3>1, <3>2
  <2>5. QED BY <2>1, <2>2, <2>4 DEF IInv, DiskInv, ImageInv
<1>3. QED BY <1>1, <1>2, MetadataAssumption DEF IInv, TypeInv, TypeOK

LEMMA SafePowerCut == ASSUME IInv, PowerCut PROVE IInv'
<1>1. TypeInv'
  BY TypeWriterStep DEF IInv
<1>2. PICK d \in Survivors : dir' = d /\ onDisk' = {d}
  BY DEF PowerCut
<1>3. /\ d.manifest # 0 => d.snap[d.manifest] \in complete
      /\ d.manifest >= acked
      /\ \A g \in Gens : d.snap[g] \in complete \cup {NoImage}
  BY SurvivorsWhole
<1>4. QED BY <1>1, <1>2, <1>3
          DEF IInv, PowerCut, WriterGone, CurrentInv, ImageInv, CollectorInv,
              ReaderInv, DiskInv, IdleReader

\* Removing the name of a generation that is not the manifest's, that nobody
\* pins, by a writer that stays in its sweep.
LEMMA NameRemoved ==
  ASSUME IInv, TypeInv', NEW g \in Gens, g # dir.manifest,
         \A r \in Readers : rd[r].pinGen # g,
         dir' = [dir EXCEPT !.snap[g] = NoImage], onDisk' = onDisk \cup {dir'},
         pc \in {"sweep", "reclaim"}, pc' = "sweep",
         UNCHANGED <<metadata, tmp, complete, acked, cur, rd>>
  PROVE  IInv'
<1>1. dir'.manifest = dir.manifest
      /\ \A h \in Gens : dir'.snap[h] = IF h = g THEN NoImage ELSE dir.snap[h]
  BY DEF IInv, TypeInv, TypeOK, Dirs
<1>2. CurrentInv'
  BY <1>1 DEF IInv, CurrentInv
<1>3. ImageInv'
  BY <1>1 DEF IInv, ImageInv
<1>4. CollectorInv'
  BY DEF CollectorInv
<1>5. ReaderInv'
  <2> SUFFICES ASSUME NEW r \in Readers
               PROVE  ReaderInv!(r)'
    BY DEF ReaderInv
  <2>1. ReaderInv!(r)
    BY DEF IInv, ReaderInv
  <2>2. rd[r].pc \in {"lock", "recheck"} => rd[r].gen \in Gens
    BY DEF IInv, TypeInv, ReaderShape
  <2>3. rd[r].pinGen # 0 => rd[r].pinGen \in Gens
    BY MaxGenAssumption DEF IInv, TypeInv, TypeOK, ReaderStates, Gens
  <2>4. QED BY <1>1, <2>1, <2>2, <2>3
<1>6. DiskInv'
  <2>1. dir \in onDisk /\ dir.manifest \in 0..MaxGen
    BY DEF IInv, ImageInv, TypeInv, TypeOK, Dirs
  <2>2. dir.manifest # 0 => dir'.snap[dir.manifest] = dir.snap[dir.manifest]
    BY <1>1, <2>1, MaxGenAssumption DEF Gens
  <2>3. \A d \in onDisk' : /\ d.manifest # 0 => d.snap[d.manifest] \in complete
                           /\ d.manifest >= acked
    BY <1>1, <2>1, <2>2 DEF IInv, DiskInv
  <2>4. ASSUME metadata = "weak", NEW d \in onDisk', NEW e \in onDisk'
        PROVE  /\ e.manifest # 0 => d.snap[e.manifest] = e.snap[e.manifest]
               /\ e.manifest = dir'.manifest
    <3>1. \A f \in onDisk : f.manifest = dir.manifest
      BY <2>4 DEF IInv, DiskInv
    <3>2. \A f \in onDisk : dir.manifest # 0 =>
                              f.snap[dir.manifest] = dir.snap[dir.manifest]
      BY <2>1, <2>4, <3>1 DEF IInv, DiskInv
    <3>3. QED BY <1>1, <2>2, <3>1, <3>2
  <2>5. QED BY <2>3, <2>4 DEF DiskInv
<1>7. QED BY <1>2, <1>3, <1>4, <1>5, <1>6 DEF IInv

LEMMA SafeSweep == ASSUME IInv, Sweep PROVE IInv'
<1>1. TypeInv'
  BY TypeWriterStep DEF IInv
<1>2. CASE \E g \in Gens : SweepOrphan(g)
  <2>1. PICK g \in Gens : SweepOrphan(g)
    BY <1>2
  <2>2. /\ dir' = [dir EXCEPT !.snap[g] = NoImage]
        /\ onDisk' = onDisk \cup {dir'}
        /\ g > dir.manifest /\ pc = "sweep" /\ pc' = "sweep"
        /\ UNCHANGED <<metadata, tmp, complete, acked, cur, victim, excl, rd>>
    BY <2>1 DEF SweepOrphan, ChangeDir, IInv, CurrentInv
  <2>3. g # dir.manifest /\ \A r \in Readers : rd[r].pinGen # g
    <3>1. dir.manifest \in Nat /\ g \in Nat \ {0} /\ \A r \in Readers : rd[r].pinGen \in Nat
      BY MaxGenAssumption DEF IInv, TypeInv, TypeOK, Dirs, ReaderStates, Gens
    <3>2. QED BY <2>2, <3>1 DEF IInv, ReaderInv
  <2>4. QED BY <1>1, <2>2, <2>3, NameRemoved
<1>3. CASE \E g \in Gens : Reclaim(g)
  BY <1>1, <1>3 DEF IInv, Reclaim, Lockable, CurrentInv, ImageInv,
     CollectorInv, ReaderInv, DiskInv, Holders, NextGen, TypeInv, TypeOK, Dirs,
     storageVars
<1>4. CASE SweepTmp \/ SweepDone \/ SweepLeaves
  BY <1>1, <1>4 DEF IInv, SweepTmp, SweepDone, SweepLeaves, Released, CurrentInv, ImageInv,
     CollectorInv, ReaderInv, DiskInv, Holders, NextGen,
     storageVars, writerVars
<1>5. CASE Remove
  <2>1. /\ dir' = [dir EXCEPT !.snap[victim] = NoImage]
        /\ onDisk' = onDisk \cup {dir'}
        /\ pc = "reclaim" /\ pc' = "sweep"
        /\ UNCHANGED <<metadata, tmp, complete, acked, cur, rd>>
    BY <1>5 DEF Remove, Released, ChangeDir
  <2>2. victim \in Gens /\ victim < dir.manifest
    BY <2>1, MaxGenAssumption DEF IInv, TypeInv, TypeOK, CurrentInv, CollectorInv, Gens
  <2>3. \A r \in Readers : rd[r].pinGen # victim
    <3>1. SUFFICES ASSUME NEW r \in Readers, rd[r].pinGen = victim
                   PROVE  r \in Holders(excl)
      BY <2>1 DEF IInv, CollectorInv
    <3>2. victim # 0 /\ excl = dir.snap[victim]
      BY <2>1, <2>2 DEF IInv, CollectorInv, Gens
    <3>3. rd[r].pinImg = excl
      BY <3>1, <3>2 DEF IInv, ReaderInv
    <3>4. QED BY <3>3 DEF Holders
  <2>4. victim # dir.manifest
    BY <2>2, MaxGenAssumption DEF IInv, TypeInv, TypeOK, Dirs, Gens
  <2>5. QED BY <1>1, <2>1, <2>2, <2>3, <2>4, NameRemoved
<1>6. QED BY <1>2, <1>3, <1>4, <1>5 DEF Sweep

\* Staging takes an image no name, handle or possible survivor refers to.
LEMMA SafeStage == ASSUME IInv, Stage PROVE IInv'
<1>1. TypeInv'
  BY TypeWriterStep DEF IInv, Commit
<1>2. PICK i \in FreeImages : complete' = complete \ {i} /\ tmp' = i
  BY DEF Stage
<1>3. /\ \A d \in onDisk, g \in Gens : d.snap[g] # i
      /\ \A r \in Readers : rd[r].img # i /\ rd[r].pinImg # i
  BY <1>2 DEF FreeImages
<1>4. /\ pc = "ready" /\ pc' = "staging"
      /\ UNCHANGED <<metadata, dir, onDisk, acked, cur, rd>>
  BY DEF Stage
<1>5. CurrentInv' /\ CollectorInv'
  BY <1>4 DEF IInv, CurrentInv, CollectorInv
<1>6. ImageInv'
  BY <1>2, <1>3, <1>4 DEF IInv, ImageInv
<1>7. ReaderInv'
  BY <1>2, <1>3, <1>4 DEF IInv, ReaderInv
<1>8. DiskInv'
  <2>1. ASSUME NEW d \in onDisk, d.manifest # 0
        PROVE  d.snap[d.manifest] \in complete'
    <3>1. d.manifest \in Gens
      BY <2>1, MaxGenAssumption DEF IInv, TypeInv, TypeOK, Dirs, Gens
    <3>2. d.snap[d.manifest] \in complete
      BY <2>1 DEF IInv, DiskInv
    <3>3. QED BY <1>2, <1>3, <3>1, <3>2
  <2>2. QED BY <1>4, <2>1 DEF IInv, DiskInv
<1>9. QED BY <1>1, <1>5, <1>6, <1>7, <1>8 DEF IInv

\* The next generation's name is one no reader and no manifest knows yet.
LEMMA SafeRename == ASSUME IInv, RenameImage PROVE IInv'
<1>1. TypeInv'
  BY TypeWriterStep DEF IInv, Commit
<1>2. /\ onDisk' = onDisk \cup {dir'}
      /\ pc = "staged" /\ pc' = "renamed" /\ tmp \in complete
      /\ UNCHANGED <<metadata, complete, acked, cur, rd>>
  BY DEF RenameImage, ChangeDir, IInv, ImageInv
<1>3. /\ dir \in onDisk /\ dir.manifest \in 0..MaxGen /\ cur = dir.manifest
      /\ NextGen \in Gens /\ NextGen > dir.manifest
  BY <1>2, MaxGenAssumption
     DEF IInv, TypeInv, TypeOK, StageShape, CurrentInv, ImageInv, Dirs, NextGen
<1>4. /\ dir'.manifest = dir.manifest
      /\ \A h \in Gens : dir'.snap[h] = IF h = NextGen THEN tmp ELSE dir.snap[h]
  BY DEF RenameImage, ChangeDir, IInv, TypeInv, TypeOK, Dirs
<1>5. CurrentInv' /\ CollectorInv'
  BY <1>2, <1>3, <1>4 DEF CurrentInv, CollectorInv
<1>6. ImageInv'
  <2>1. NextGen' = NextGen
    BY <1>2 DEF NextGen
  <2>2. QED BY <1>2, <1>3, <1>4, <2>1 DEF IInv, ImageInv
<1>7. \A g \in 0..MaxGen : g # 0 /\ g <= dir.manifest => dir'.snap[g] = dir.snap[g]
  BY <1>3, <1>4, MaxGenAssumption DEF Gens
<1>8. ReaderInv'
  <2> SUFFICES ASSUME NEW r \in Readers PROVE ReaderInv!(r)'
    BY DEF ReaderInv
  <2>1. ReaderInv!(r)
    BY DEF IInv, ReaderInv
  <2>2. /\ rd[r].pc \in {"lock", "recheck"} => rd[r].gen \in 0..MaxGen /\ rd[r].gen # 0
        /\ rd[r].pinGen \in 0..MaxGen
    BY MaxGenAssumption DEF IInv, TypeInv, TypeOK, ReaderShape, ReaderStates, Gens
  <2>3. QED BY <1>2, <1>4, <1>7, <2>1, <2>2
<1>9. DiskInv'
  <2>1. dir.manifest # 0 => dir'.snap[dir.manifest] = dir.snap[dir.manifest]
    BY <1>3, <1>7, MaxGenAssumption
  <2>2. \A d \in onDisk' : /\ d.manifest # 0 => d.snap[d.manifest] \in complete
                           /\ d.manifest >= acked
    BY <1>2, <1>3, <1>4, <2>1 DEF IInv, DiskInv
  <2>3. ASSUME metadata = "weak", NEW d \in onDisk', NEW e \in onDisk'
        PROVE  /\ e.manifest # 0 => d.snap[e.manifest] = e.snap[e.manifest]
               /\ e.manifest = dir'.manifest
    <3>1. \A f \in onDisk : f.manifest = dir.manifest
      BY <1>2, <2>3 DEF IInv, DiskInv
    <3>2. \A f \in onDisk : dir.manifest # 0 =>
                              f.snap[dir.manifest] = dir.snap[dir.manifest]
      BY <1>3, <2>3, <3>1 DEF IInv, DiskInv
    <3>3. QED BY <1>2, <1>4, <2>1, <3>1, <3>2
  <2>4. QED BY <1>2, <2>2, <2>3 DEF DiskInv
<1>10. QED BY <1>1, <1>5, <1>6, <1>8, <1>9 DEF IInv

\* The manifest is renamed when every survivor already has the generation.
LEMMA SafePublish == ASSUME IInv, PublishManifest PROVE IInv'
<1>1. TypeInv'
  BY TypeWriterStep DEF IInv, Commit
<1>2. /\ dir' = [dir EXCEPT !.manifest = NextGen]
      /\ onDisk' = {dir, dir'}
      /\ pc = "synced" /\ pc' = "published" /\ NextGen' = NextGen
      /\ UNCHANGED <<metadata, complete, acked, cur, rd>>
  BY DEF PublishManifest, ChangeDir, IInv, DiskInv, NextGen
<1>3. /\ dir.manifest \in 0..MaxGen /\ cur = dir.manifest
      /\ NextGen \in Gens /\ NextGen > dir.manifest
      /\ dir \in onDisk
  BY <1>2, MaxGenAssumption
     DEF IInv, TypeInv, TypeOK, StageShape, CurrentInv, ImageInv, Dirs, NextGen
<1>4. dir'.manifest = NextGen /\ dir'.snap = dir.snap
  BY <1>2 DEF IInv, TypeInv, TypeOK, Dirs
<1>5. dir.snap[NextGen] \in complete
  BY <1>2 DEF IInv, ImageInv
<1>6. CurrentInv' /\ CollectorInv'
  BY <1>2, <1>4 DEF CurrentInv, CollectorInv
<1>7. ImageInv'
  BY <1>2, <1>3, <1>4, <1>5 DEF IInv, ImageInv
<1>8. ReaderInv'
  <2> SUFFICES ASSUME NEW r \in Readers PROVE ReaderInv!(r)'
    BY DEF ReaderInv
  <2>1. ReaderInv!(r)
    BY DEF IInv, ReaderInv
  <2>2. rd[r].gen \in Nat /\ rd[r].pinGen \in Nat
    BY MaxGenAssumption DEF IInv, TypeInv, TypeOK, ReaderStates
  <2>3. QED BY <1>2, <1>3, <1>4, <2>1, <2>2, MaxGenAssumption DEF Gens
<1>9. DiskInv'
  <2>1. acked \in Nat /\ dir.manifest >= acked
        /\ (dir.manifest # 0 => dir.snap[dir.manifest] \in complete)
    BY <1>3 DEF IInv, DiskInv, TypeInv, TypeOK
  <2>2. NextGen >= acked
    BY <1>3, <2>1, MaxGenAssumption DEF Gens
  <2>3. \A d \in onDisk' : /\ d.manifest # 0 => d.snap[d.manifest] \in complete
                           /\ d.manifest >= acked
                           /\ d.snap = dir.snap
                           /\ d.manifest = dir'.manifest \/ d.manifest = cur
    BY <1>2, <1>3, <1>4, <1>5, <2>1, <2>2
  <2>4. QED BY <1>2, <2>3 DEF DiskInv
<1>10. QED BY <1>1, <1>6, <1>7, <1>8, <1>9 DEF IInv

LEMMA SafeCommit == ASSUME IInv, ManifestSyncs, Commit PROVE IInv'
<1>1. TypeInv'
  BY TypeWriterStep DEF IInv
<1>2. CASE Stage \/ RenameImage \/ PublishManifest
  BY <1>2, SafeStage, SafeRename, SafePublish
<1> USE <1>1 DEF IInv, CurrentInv, ImageInv, CollectorInv, ReaderInv, DiskInv,
                 Holders, NextGen, TypeInv, TypeOK, StageShape, ReaderShape, Dirs,
                 storageVars, ChangeDir, SyncDir
<1>3. CASE StageDone
  BY <1>3 DEF StageDone, FinishImage
<1>4. CASE StageFails
  BY <1>4 DEF StageFails
<1>5. CASE Discard
  BY <1>5 DEF Discard
<1>6. CASE SyncImage
  BY <1>6 DEF SyncImage
<1>7. CASE SyncManifest
  BY <1>7 DEF SyncManifest
<1>8. CASE CommitFails
  BY <1>8 DEF CommitFails, ManifestSyncs
<1>9. QED BY <1>2, <1>3, <1>4, <1>5, <1>6, <1>7, <1>8 DEF Commit

\* A reader that holds image i under a shared lock.
Holding(s, i) == s.pinImg = i \/ (s.pc = "recheck" /\ s.img = i)

\* A reader state the invariant allows now.
Allowed(s) ==
  /\ s.pc \in {"open", "lock", "recheck"} => s.gen <= dir.manifest
  /\ s.pc \in {"lock", "recheck"} =>
       s.img \in complete /\ dir.snap[s.gen] \in {s.img, NoImage}
  /\ s.pinGen # 0 =>
       /\ s.pinGen <= dir.manifest
       /\ dir.snap[s.pinGen] = s.pinImg
       /\ s.pinImg \in complete
  /\ pc = "reclaim" => ~Holding(s, excl)

\* A reader's step to an allowed state keeps the invariant.
LEMMA ReaderMoves ==
  ASSUME IInv, TypeInv', NEW r \in Readers, NEW s, Allowed(s),
         UNCHANGED <<storageVars, writerVars>>, rd' = [rd EXCEPT ![r] = s]
  PROVE  IInv'
<1>1. \A q \in Readers : rd'[q] = IF q = r THEN s ELSE rd[q]
  BY DEF IInv, TypeInv, TypeOK
<1>2. CurrentInv' /\ ImageInv' /\ DiskInv'
  BY DEF IInv, CurrentInv, ImageInv, DiskInv, NextGen, storageVars, writerVars
<1>3. CollectorInv'
  BY <1>1 DEF IInv, CollectorInv, Holders, Allowed, Holding, storageVars, writerVars
<1>4. ReaderInv'
  BY <1>1 DEF IInv, ReaderInv, Allowed, storageVars, writerVars
<1>5. QED BY <1>2, <1>3, <1>4 DEF IInv

\* Every reader is in an allowed state; so is one that gave up or starts over.
LEMMA AllowedNow ==
  ASSUME IInv, NEW r \in Readers
  PROVE  Allowed(rd[r]) /\ Allowed(GiveUp(r)) /\ Allowed(Retry(r)) /\ Allowed(IdleReader)
<1>1. pc = "reclaim" => excl # NoImage
  BY DEF IInv, TypeInv, TypeOK
<1>2. Allowed(rd[r])
  BY DEF IInv, ReaderInv, CollectorInv, Allowed, Holding, Holders
<1>3. Allowed(IdleReader)
  BY <1>1 DEF Allowed, Holding, IdleReader
<1>4. Allowed(At(r, "pinned", 0, NoImage)) /\ Allowed(At(r, "readManifest", 0, NoImage))
  BY <1>2 DEF Allowed, Holding, At
<1>5. QED BY <1>2, <1>3, <1>4 DEF GiveUp, Retry

LEMMA SafeReader ==
  ASSUME IInv, NEW r \in Readers,
         OpenReader(r) \/ Refresh(r) \/ Pinning(r) \/ DropReader(r)
  PROVE  IInv'
<1>1. UNCHANGED <<storageVars, writerVars>> /\ TypeInv'
  <2>1. Next
    BY DEF Next
  <2>2. QED BY <2>1, TypeStep, ReaderChanges DEF IInv
<1>2. SUFFICES \E s : Allowed(s) /\ rd' = [rd EXCEPT ![r] = s]
  BY <1>1, ReaderMoves
<1>3. CASE OpenReader(r) \/ Refresh(r)
  BY <1>3, AllowedNow DEF OpenReader, Refresh, ReaderStep
<1>4. CASE ReadManifest(r)
  <2>1. Allowed(At(r, "open", dir.manifest, NoImage))
    BY AllowedNow DEF Allowed, Holding, At, IInv, TypeInv, TypeOK, Dirs
  <2>2. QED BY <1>4, <2>1, AllowedNow DEF ReadManifest, Unpublished, ReaderStep
<1>5. CASE OpenGeneration(r)
  <2>1. CASE dir.snap[rd[r].gen] = NoImage
    BY <1>5, <2>1, AllowedNow DEF OpenGeneration, ReaderStep, NotFound
  <2>2. CASE dir.snap[rd[r].gen] # NoImage
    <3>1. rd[r].pc = "open" /\ rd[r].gen \in Gens
      BY <1>5 DEF OpenGeneration, ReaderStep, IInv, TypeInv, ReaderShape
    <3>2. dir.snap[rd[r].gen] \in complete
      BY <2>2, <3>1 DEF IInv, ImageInv
    <3>3. Allowed(At(r, "lock", rd[r].gen, dir.snap[rd[r].gen]))
      BY <3>1, <3>2, AllowedNow DEF Allowed, Holding, At
    <3>4. QED BY <1>5, <2>2, <3>3 DEF OpenGeneration, ReaderStep
  <2>3. QED BY <2>1, <2>2
<1>6. CASE LockShared(r)
  <2>1. CASE rd[r].img = excl
    BY <1>6, <2>1, AllowedNow DEF LockShared, ReaderStep
  <2>2. CASE rd[r].img # excl
    <3>1. rd[r].pc = "lock"
      BY <1>6 DEF LockShared, ReaderStep
    <3>2. Allowed(At(r, "recheck", rd[r].gen, rd[r].img))
      BY <2>2, <3>1, AllowedNow DEF Allowed, Holding, At
    <3>3. QED BY <1>6, <2>2, <3>2 DEF LockShared, ReaderStep
  <2>3. QED BY <2>1, <2>2
<1>7. CASE Recheck(r)
  <2>1. CASE ~Survived(r) \/ rd[r].gen <= rd[r].pinGen
    BY <1>7, <2>1, AllowedNow DEF Recheck, ReaderStep
  <2>2. CASE Survived(r) /\ ~(rd[r].gen <= rd[r].pinGen)
    <3> DEFINE s == [pc |-> "pinned", gen |-> 0, img |-> NoImage,
                     pinGen |-> rd[r].gen, pinImg |-> rd[r].img]
    <3>1. rd[r].pc = "recheck"
      BY <1>7 DEF Recheck, ReaderStep
    <3>2. Allowed(s)
      BY <2>2, <3>1, AllowedNow DEF Allowed, Holding, Survived
    <3>3. QED BY <1>7, <2>2, <3>2 DEF Recheck, ReaderStep
  <2>3. QED BY <2>1, <2>2
<1>8. CASE MapFails(r)
  BY <1>8, AllowedNow DEF MapFails, ReaderStep
<1>9. CASE DropReader(r)
  BY <1>9, AllowedNow DEF DropReader
<1>10. QED BY <1>3, <1>4, <1>5, <1>6, <1>7, <1>8, <1>9 DEF Pinning

LEMMA SafeStep == ASSUME ManifestSyncs PROVE IInv /\ [Next]_vars => IInv'
<1> SUFFICES ASSUME IInv, [Next]_vars PROVE IInv'
  OBVIOUS
<1>1. CASE UNCHANGED vars
  BY <1>1, TypeStep DEF vars, storageVars, writerVars, IInv, CurrentInv, ImageInv,
     CollectorInv, ReaderInv, DiskInv, Holders, NextGen
<1>2. QED BY <1>1, SafeOpen, SafeSweep, SafeCommit, SafeClose, SafePowerCut,
             SafeReader DEF Next

\* The invariant the theorems below read off.
LEMMA Safety == ASSUME ManifestSyncs PROVE Spec => []IInv
BY SafeInit, SafeStep, PTL DEF Spec

\* The generation a handle maps stays whole under its name while the handle
\* lives: the argument of the mmap in ReadOnlyDatabase::open.
THEOREM PinsHold == ASSUME ManifestSyncs PROVE Spec => []PinnedIntact
<1>1. IInv => PinnedIntact
  BY DEF IInv, ReaderInv, PinnedIntact
<1>2. QED BY Safety, <1>1, PTL

\* A manifest a power cut may leave names a complete image.
THEOREM SurvivorsOpen == ASSUME ManifestSyncs PROVE Spec => []PublishedImageSurvives
<1>1. IInv => PublishedImageSurvives
  BY SurvivorsWhole DEF PublishedImageSurvives
<1>2. QED BY Safety, <1>1, PTL

\* A commit that returned Ok is behind no survivor's manifest.
THEOREM CommitsDurable == ASSUME ManifestSyncs PROVE Spec => []CommitIsDurable
<1>1. IInv => CommitIsDurable
  BY SurvivorsWhole DEF CommitIsDurable
<1>2. QED BY Safety, <1>1, PTL

-----------------------------------------------------------------------------
(* The commit, the sweep and a power cut implement DurableMemory.          *)

\* The images a power cut may leave published.
Kept == {Published(d) : d \in Survivors}

\* A mixture of the directories on disk publishes what one of them publishes.
LEMMA KeptIsOnDisk == IInv => Kept = {Published(d) : d \in onDisk}
<1> SUFFICES ASSUME IInv PROVE Kept = {Published(d) : d \in onDisk}
  OBVIOUS
<1>1. CASE metadata = "ordered"
  BY <1>1 DEF Kept, Survivors
<1>2. CASE metadata = "weak"
  <2>1. ASSUME NEW d \in Survivors
        PROVE  \E e \in onDisk : Published(d) = Published(e)
    <3>1. PICK e \in onDisk : d.manifest = e.manifest
      BY <1>2 DEF Survivors
    <3>2. ASSUME d.manifest # 0 PROVE d.snap[d.manifest] = e.snap[e.manifest]
      <4>1. d.manifest \in Gens
        BY <3>1, <3>2, MaxGenAssumption DEF IInv, TypeInv, TypeOK, Dirs, Gens
      <4>2. PICK f \in onDisk : d.snap[d.manifest] = f.snap[d.manifest]
        BY <1>2, <4>1 DEF Survivors
      <4>3. f.snap[e.manifest] = e.snap[e.manifest]
        BY <1>2, <3>1, <3>2 DEF IInv, DiskInv
      <4>4. QED BY <3>1, <4>2, <4>3
    <3>3. QED BY <3>1, <3>2 DEF Published
  <2>2. ASSUME NEW e \in onDisk
        PROVE  e \in Survivors
    <3>1. /\ e.snap \in [Gens -> Images \cup {NoImage}]
          /\ e = [manifest |-> e.manifest, snap |-> e.snap]
      BY DEF IInv, TypeInv, TypeOK, Dirs
    <3>2. e.snap \in [Gens -> UNION {{d.snap[g] : g \in Gens} : d \in onDisk}]
      BY <3>1
    <3>3. \A g \in Gens : e.snap[g] \in {d.snap[g] : d \in onDisk}
      OBVIOUS
    <3>4. QED BY <1>2, <3>1, <3>2, <3>3 DEF Survivors
  <2>3. QED BY <2>1, <2>2 DEF Kept
<1>3. QED BY <1>1, <1>2, MetadataAssumption DEF IInv, TypeInv, TypeOK

\* Nothing is published by what leaves the directories alone, or changes the
\* name of a generation that is not the manifest's.
LEMMA OtherName ==
  ASSUME IInv, NEW g \in Gens, g # dir.manifest, NEW i,
         dir' = [dir EXCEPT !.snap[g] = i]
  PROVE  Published(dir') = Published(dir)
<1>1. dir'.manifest = dir.manifest /\ dir.manifest \in 0..MaxGen
      /\ \A h \in Gens : h # g => dir'.snap[h] = dir.snap[h]
  BY DEF IInv, TypeInv, TypeOK, Dirs
<1>2. dir.manifest # 0 => dir.manifest \in Gens
  BY <1>1, MaxGenAssumption DEF Gens
<1>3. QED BY <1>1, <1>2 DEF Published

\* The steps that rename or remove a generation's file publish nothing.
LEMMA NamesPublishNothing ==
  ASSUME IInv, RenameImage \/ Remove \/ \E g \in Gens : SweepOrphan(g)
  PROVE  Published(dir') = Published(dir) /\ onDisk' = onDisk \cup {dir'}
<1>1. dir.manifest \in Nat
  BY MaxGenAssumption DEF IInv, TypeInv, TypeOK, Dirs
<1>2. CASE RenameImage
  <2>1. NextGen \in Gens /\ NextGen # dir.manifest
    BY <1>1, <1>2 DEF RenameImage, IInv, TypeInv, StageShape, CurrentInv, NextGen
  <2>2. QED BY <1>2, <2>1, OtherName DEF RenameImage, ChangeDir
<1>3. CASE Remove
  <2>1. victim \in Gens /\ victim # dir.manifest
    BY <1>1, <1>3, MaxGenAssumption
       DEF Remove, IInv, TypeInv, TypeOK, CurrentInv, CollectorInv, Gens
  <2>2. QED BY <1>3, <2>1, OtherName DEF Remove, ChangeDir
<1>4. CASE \E g \in Gens : SweepOrphan(g)
  <2>1. PICK g \in Gens : SweepOrphan(g)
    BY <1>4
  <2>2. g # dir.manifest
    BY <1>1, <2>1 DEF SweepOrphan, IInv, CurrentInv, Gens
  <2>3. QED BY <2>1, <2>2, OtherName DEF SweepOrphan, ChangeDir
<1>5. QED BY <1>2, <1>3, <1>4

\* Every step is a step of the contract, or changes nothing it speaks of.
LEMMA StepPublishes ==
  ASSUME IInv, [Next]_vars, Kept' = {Published(d) : d \in onDisk'}
  PROVE  [Promise!Next]_(Promise!vars)
<1> DEFINE Seen == Published(dir)
<1>1. Kept = {Published(d) : d \in onDisk} /\ dir \in onDisk
  BY KeptIsOnDisk DEF IInv, ImageInv
<1>2. CASE UNCHANGED <<dir, onDisk>>
  <2>1. Seen' = Seen /\ Kept' = Kept
    BY <1>1, <1>2
  <2>2. QED BY <2>1 DEF Promise!vars, Kept
<1>3. CASE RenameImage \/ Remove \/ \E g \in Gens : SweepOrphan(g)
  <2>1. Seen' = Seen /\ Kept' = Kept
    BY <1>1, <1>3, NamesPublishNothing
  <2>2. QED BY <2>1 DEF Promise!vars, Kept
<1>4. CASE SyncImage \/ SyncManifest
  <2>1. Seen' = Seen /\ Kept' = {Seen}
    BY <1>4 DEF SyncImage, SyncManifest, SyncDir
  <2>2. Promise!Settle
    BY <1>1, <2>1 DEF Promise!Settle, Kept
  <2>3. QED BY <2>2 DEF Promise!Next
<1>5. CASE PublishManifest
  <2>1. onDisk' = onDisk \cup {dir'}
    BY <1>5 DEF PublishManifest, ChangeDir
  <2>2. Seen' \in Kept' /\ Kept' \subseteq Kept \cup {Seen'}
    BY <1>1, <2>1
  <2>3. Promise!Write
    BY <2>2 DEF Promise!Write, Kept, AnyImage
  <2>4. QED BY <2>3 DEF Promise!Next
<1>6. CASE PowerCut
  <2>1. PICK d \in Survivors : dir' = d /\ onDisk' = {d}
    BY <1>6 DEF PowerCut
  <2>2. Seen' \in Kept /\ Kept' = {Seen'}
    BY <2>1 DEF Kept
  <2>3. Promise!Crash
    BY <2>2 DEF Promise!Crash, Kept
  <2>4. QED BY <2>3 DEF Promise!Next
<1>7. CASE \E r \in Readers : OpenReader(r) \/ Refresh(r) \/ Pinning(r) \/ DropReader(r)
  BY <1>2, <1>7, ReaderChanges DEF IInv, storageVars
<1>8. CASE \/ Open \/ Close \/ Stage \/ StageDone \/ StageFails \/ Discard \/ CommitFails
           \/ SweepTmp \/ SweepLeaves \/ SweepDone \/ \E g \in Gens : Reclaim(g)
  BY <1>2, <1>8 DEF Open, Close, Stage, StageDone, StageFails, Discard, CommitFails,
     SweepTmp, SweepLeaves, SweepDone, Reclaim, storageVars
<1>9. CASE UNCHANGED vars
  BY <1>2, <1>9 DEF vars, storageVars
<1>10. QED BY <1>3, <1>4, <1>5, <1>6, <1>7, <1>8, <1>9 DEF Next, Sweep, Commit

\* The calls of a commit, a sweep and an open, with crashes and power cuts
\* between any two of them, publish like one step.
THEOREM PublishingIsAtomic == ASSUME ManifestSyncs PROVE Spec => PublishesAtomically
<1>1. Init => Promise!Init
  <2>1. SUFFICES ASSUME Init PROVE Promise!Init
    OBVIOUS
  <2>2. Kept = {Published(dir)}
    BY <2>1, SafeInit, KeptIsOnDisk DEF Init
  <2>3. QED BY <2>2 DEF Promise!Init, Kept, AnyImage
<1>2. (IInv => Kept = {Published(d) : d \in onDisk})'
  BY KeptIsOnDisk, PTL
<1>3. IInv /\ IInv' /\ [Next]_vars => [Promise!Next]_(Promise!vars)
  BY <1>2, StepPublishes
<1>4. QED BY <1>1, <1>3, Safety, PTL DEF Spec, PublishesAtomically, Promise!Spec

-----------------------------------------------------------------------------
(* Numbers and images.                                                     *)

\* The image behind the manifest changes only when a higher number is
\* published: a refresh that compares numbers misses nothing.
THEOREM NumbersGrow == ASSUME ManifestSyncs PROVE Spec => NewImageNewNumber
<1> DEFINE Grows == /\ dir.manifest # 0
                    /\ ~PowerCut
                    /\ dir'.snap[dir'.manifest] # dir.snap[dir.manifest]
                    => dir'.manifest > dir.manifest
<1>1. ASSUME IInv, [Next]_vars PROVE [Grows]_vars
  <2>1. CASE RenameImage \/ Remove \/ \E g \in Gens : SweepOrphan(g)
    <3>1. dir'.manifest = dir.manifest
      BY <1>1, <2>1 DEF RenameImage, Remove, SweepOrphan, ChangeDir, IInv,
         TypeInv, TypeOK, Dirs
    <3>2. QED BY <1>1, <2>1, <3>1, NamesPublishNothing DEF Published
  <2>2. CASE PublishManifest
    <3>1. dir'.manifest = NextGen
      BY <1>1, <2>2 DEF PublishManifest, ChangeDir, IInv, TypeInv, TypeOK, Dirs
    <3>2. dir.manifest \in Nat /\ NextGen > dir.manifest
      BY <1>1, <2>2, MaxGenAssumption
         DEF PublishManifest, NextGen, IInv, CurrentInv, TypeInv, TypeOK, Dirs
    <3>3. QED BY <3>1, <3>2
  <2>3. CASE UNCHANGED dir
    BY <2>3
  <2>4. CASE PowerCut
    BY <2>4
  <2>5. CASE \E r \in Readers : OpenReader(r) \/ Refresh(r) \/ Pinning(r) \/ DropReader(r)
    BY <1>1, <2>3, <2>5, ReaderChanges DEF IInv, storageVars
  <2>6. CASE \/ Open \/ Close \/ Stage \/ StageDone \/ StageFails \/ Discard
             \/ SyncImage \/ SyncManifest \/ CommitFails
             \/ SweepTmp \/ SweepLeaves \/ SweepDone \/ \E g \in Gens : Reclaim(g)
    BY <2>3, <2>6 DEF Open, Close, Stage, StageDone, StageFails, Discard, SyncImage,
       SyncManifest, CommitFails, SweepTmp, SweepLeaves, SweepDone, Reclaim, storageVars
  <2>7. QED BY <1>1, <2>1, <2>2, <2>3, <2>4, <2>5, <2>6 DEF Next, Sweep, Commit, vars, storageVars
<1>2. QED BY <1>1, Safety, PTL DEF Spec, NewImageNewNumber
=============================================================================
