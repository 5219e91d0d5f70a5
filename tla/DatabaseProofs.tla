--------------------------- MODULE DatabaseProofs ---------------------------
(***************************************************************************)
(* Proofs about Database, for every number of tags, edges, times and       *)
(* faults: what a crash leaves (AcknowledgedSurvives), what a reader sees, *)
(* that the database opens again, the contract of DurableMemory, and that  *)
(* a reembed loses no write.  They rest on the files being whole, in the   *)
(* two ways named below; without either the property fails                 *)
(* (DatabaseTorn, DatabaseStale).                                          *)
(***************************************************************************)
EXTENDS Database, EngineProofs

\* No crash cuts a record short.
RecordsWhole == "torn" \notin Faults

\* A journal is cleared, and no crash comes before that, once a snapshot that has
\* its records is published.
ClearsJournal == Faults \cap {"clear", "crashUncleared"} = {}

-----------------------------------------------------------------------------
(* The journal.                                                            *)

\* Without torn records the whole journal counts.
LEMMA WholeJournal ==
  ASSUME NEW j \in Seq(JournalOps)
  PROVE  TornAt(j) = 0 /\ Whole(j) = j
<1>1. \A r \in JournalOps : r # Torn
  BY DEF JournalOps, Torn, MaintainOp
<1>2. {i \in 1..Len(j) : j[i] = Torn} = {}
  BY <1>1
<1>3. TornAt(j) = 0 BY <1>2 DEF TornAt, SelectInSeq
<1> QED BY <1>3 DEF Whole

\* So there is one outcome of loading it.
LEMMA OneOutcome ==
  ASSUME NEW i, NEW j \in Seq(JournalOps)
  PROVE  Loads(i, j) = {Load(i, j)}
<1>1. TornAt(j) = 0 /\ Whole(j) = j BY WholeJournal
<1>2. TornAt(j) \notin 1..Len(j) - 1 BY <1>1
<1> QED BY <1>1, <1>2 DEF Loads

\* What a crash leaves is the records that were synced, and some more.
LEMMA LeftAreWhole ==
  ASSUME RecordsWhole, NEW j \in Seq(JournalOps), synced \in 0..Len(j)
  PROVE  /\ LeftOf(j) = {SubSeq(j, 1, n) : n \in synced..Len(j)}
         /\ \A k \in LeftOf(j) : k \in Seq(JournalOps) /\ Len(k) <= Len(j)
<1>1. LeftOf(j) = {SubSeq(j, 1, n) : n \in synced..Len(j)}
  BY DEF LeftOf, RecordsWhole
<1>2. ASSUME NEW n \in synced..Len(j)
      PROVE  SubSeq(j, 1, n) \in Seq(JournalOps) /\ Len(SubSeq(j, 1, n)) <= Len(j)
  OBVIOUS
<1> QED BY <1>1, <1>2

-----------------------------------------------------------------------------
(* The records.                                                            *)

\* Every record a verb may write is a record, and replaying it on the engine that
\* the verb found succeeds.
LEMMA RecordsReplay ==
  ASSUME Shape(mem), NEW kind \in Kinds, NEW op \in Records[kind]
  PROVE  op \in JournalOps /\ ReplayOp(mem, op) = Loaded(ReplayOp(mem, op).mem)
<1>0. mem.next \in Nat /\ IdsOf(mem) \subseteq Nat /\ 0 \in Times /\ NoFact \notin Nat
  BY EngineAssumption DEF Shape, FactsShape, Times
<1>1. ASSUME NEW in \in Arguments PROVE in \in Wanted
  <2>1. PICK tags \in SUBSET Tags, links \in {<<>>} \cup {<<e>> : e \in Edges},
             vec \in {NoVector} \cup ({mem.space} \cap Spaces) : in = Plain(tags, links, vec)
    BY <1>1 DEF Arguments
  <2>2. links \in Seq(Edges \cup {BadName})
    <3>1. CASE links = <<>> BY <3>1
    <3>2. ASSUME NEW e \in Edges, links = <<e>> PROVE links \in Seq(Edges \cup {BadName}) BY <3>2
    <3> QED BY <3>1, <3>2
  <2> QED BY <1>0, <2>1, <2>2 DEF Plain, Wanted, Inputs, Vectors
<1>2. CASE kind = "Remember"
  <2>1. PICK in \in Arguments : op = RememberOp(in, NoFact, mem.next) BY <1>2 DEF Records
  <2>2. op \in JournalOps BY <1>0, <1>1, <2>1 DEF RememberOp, JournalOps
  <2>3. op.op = "Remember" /\ op.in = in /\ op.revises = NoFact /\ op.id = mem.next
    BY <2>1 DEF RememberOp
  <2>4. ReplayOp(mem, op) = Loaded(ApplyRemember(mem, in, NoFact))
    BY <1>0, <2>3 DEF ReplayOp, ReplayRemember
  <2> QED BY <2>2, <2>4 DEF Loaded
<1>3. CASE kind = "Revise"
  <2>1. PICK in \in Arguments, id \in IdsOf(mem) : Revisable(mem, id) /\ op = RememberOp(in, id, mem.next)
    BY <1>3 DEF Records
  <2>2. op \in JournalOps BY <1>0, <1>1, <2>1 DEF RememberOp, JournalOps
  <2>3. op.op = "Remember" /\ op.in = in /\ op.revises = id /\ op.id = mem.next /\ id # NoFact
    BY <1>0, <2>1 DEF RememberOp
  <2>4. ReplayOp(mem, op) = Loaded(ApplyRevise(mem, in, id))
    BY <1>0, <2>1, <2>3 DEF ReplayOp, ReplayRemember
  <2> QED BY <2>2, <2>4 DEF Loaded
<1>4. CASE kind = "Forget"
  <2>1. PICK id \in IdsOf(mem) : op = ForgetOp(id) BY <1>4 DEF Records
  <2>2. ReplayOp(mem, op) = Loaded(ApplyForget(mem, id)) BY <2>1 DEF ReplayOp, ForgetOp
  <2>3. op \in JournalOps BY <1>0, <2>1 DEF ForgetOp, JournalOps
  <2> QED BY <2>2, <2>3 DEF Loaded
<1>5. CASE kind = "Link"
  <2>1. PICK e \in Edges : op = LinkOp(e, 0, NoFact) BY <1>5 DEF Records
  <2>2. ReplayOp(mem, op) = Loaded(OpenEdge(mem, e, 0, NoFact)) BY <2>1 DEF ReplayOp, LinkOp
  <2>3. op \in JournalOps BY <1>0, <2>1 DEF LinkOp, JournalOps
  <2> QED BY <2>2, <2>3 DEF Loaded
<1>6. CASE kind = "Unlink"
  <2>1. PICK e \in Edges : op = UnlinkOp(e, 0) BY <1>6 DEF Records
  <2>2. ReplayOp(mem, op) = Loaded(CloseEdge(mem, e, 0)) BY <2>1 DEF ReplayOp, UnlinkOp
  <2>3. op \in JournalOps BY <1>0, <2>1 DEF UnlinkOp, JournalOps
  <2> QED BY <2>2, <2>3 DEF Loaded
<1>7. CASE kind = "RemoveTag"
  <2>1. PICK t \in Tags : op = RemoveTagOp(t, 0) BY <1>7 DEF Records
  <2>2. ReplayOp(mem, op) = Loaded(ApplyRemoveTag(mem, 0, t)) BY <2>1 DEF ReplayOp, RemoveTagOp
  <2>3. op \in JournalOps BY <1>0, <2>1 DEF RemoveTagOp, JournalOps
  <2> QED BY <2>2, <2>3 DEF Loaded
<1>8. CASE kind = "SetVectorSpace"
  <2>1. PICK s \in Spaces : MayClaim(mem, s) /\ op = SetSpaceOp(s) BY <1>8 DEF Records
  <2>2. ReplayOp(mem, op) = Loaded([mem EXCEPT !.space = s]) BY <2>1 DEF ReplayOp, SetSpaceOp
  <2>3. op \in JournalOps BY <2>1 DEF SetSpaceOp, JournalOps
  <2> QED BY <2>2, <2>3 DEF Loaded
<1>9. CASE kind = "Maintain"
  <2>1. op = MaintainOp BY <1>9 DEF Records
  <2>2. ReplayOp(mem, op) = Loaded(Purge(mem)) BY <2>1 DEF ReplayOp, MaintainOp
  <2> QED BY <2>1, <2>2 DEF Loaded, JournalOps
<1> QED BY <1>2, <1>3, <1>4, <1>5, <1>6, <1>7, <1>8, <1>9 DEF Kinds

-----------------------------------------------------------------------------
(* Type correctness.                                                       *)

TypeInv ==
  /\ Shape(mem) /\ Shape(image) /\ Shape(staged)
  /\ journal \in Seq(JournalOps) /\ synced \in 0..Len(journal)
  /\ pc \in PC /\ policy \in Policies
  /\ reembedding \in BOOLEAN /\ stranded \in BOOLEAN

\* Every step keeps the types: each record a verb writes replays to a memory.
LEMMA TypeStep ==
  ASSUME RecordsWhole, TypeInv, [Next]_vars
  PROVE  TypeInv'
<1>1. /\ Shape(EmptyMemory) /\ Shape(mem) /\ Shape(image) /\ Shape(staged)
      /\ journal \in Seq(JournalOps) /\ synced \in Nat /\ synced <= Len(journal)
      /\ Len(journal) \in Nat
  BY EmptyShape DEF TypeInv
<1>2. \A load \in Loads(image, journal) : Shape(load.mem)
  BY <1>1, OneOutcome, LoadShape DEF IsLoad
<1>3. CASE Open
  BY <1>1, <1>2, <1>3 DEF Open, TypeInv, PC
<1>4. CASE Crash
  <2>1. \A j \in LeftOf(journal) : j \in Seq(JournalOps) /\ Len(j) \in 0..Len(j)
    BY <1>1, LeftAreWhole
  <2> QED BY <1>1, <1>4, <2>1 DEF Crash, TypeInv, PC
<1>5. CASE Write
  <2>1. PICK kind \in Verbs : \E op \in Records[kind] : mem' = ReplayOp(mem, op).mem /\ journal' = Append(journal, op)
    BY <1>5 DEF Write
  <2>2. PICK op \in Records[kind] : mem' = ReplayOp(mem, op).mem /\ journal' = Append(journal, op)
    BY <2>1
  <2>3. op \in JournalOps BY <1>1, <2>2, RecordsReplay, DatabaseAssumption
  <2>4. Shape(mem') BY <1>1, <2>2, <2>3, ReplayOpShape DEF IsLoad
  <2>5. journal' \in Seq(JournalOps) /\ Len(journal') = Len(journal) + 1 BY <1>1, <2>2, <2>3
  <2> QED BY <1>1, <1>5, <2>4, <2>5 DEF Write, TypeInv, PC
<1>6. CASE Acknowledge
  BY <1>1, <1>6 DEF Acknowledge, SyncedAfter, TypeInv, PC
<1>7. CASE Checkpoint
  BY <1>1, <1>7 DEF Checkpoint, TypeInv, PC
<1>8. CASE Maintain
  BY <1>1, <1>8, PurgeShape DEF Maintain, TypeInv, PC
<1>9. CASE Publish
  BY <1>1, <1>9 DEF Publish, TypeInv, PC
<1>10. CASE PublishFails
  BY <1>1, <1>10 DEF PublishFails, TypeInv, PC
<1>11. CASE ClearJournal
  BY <1>1, <1>11 DEF ClearJournal, Cleared, TypeInv, PC
<1>12. CASE ClearFails
  BY <1>1, <1>12 DEF ClearFails, TypeInv, PC
<1>13. CASE Reopen
  BY <1>1, <1>2, <1>13 DEF Reopen, TypeInv, PC
<1>14. CASE ReopenFails
  BY <1>1, <1>14 DEF ReopenFails, TypeInv, PC
<1>15. CASE BeginReembed
  BY <1>1, <1>15, ReembeddedShape DEF BeginReembed, TypeInv, PC
<1>16. CASE AbandonReembed
  BY <1>1, <1>16 DEF AbandonReembed, TypeInv, PC
<1>17. CASE PublishReembed
  BY <1>1, <1>17 DEF PublishReembed, TypeInv, PC
<1>18. CASE UNCHANGED vars
  BY <1>18 DEF vars, TypeInv
<1> QED BY <1>3, <1>4, <1>5, <1>6, <1>7, <1>8, <1>9, <1>10, <1>11, <1>12, <1>13, <1>14, <1>15,
           <1>16, <1>17, <1>18 DEF Next

\* What the engine, the snapshots and the journal hold are memories and records.
THEOREM TypeCorrect == ASSUME RecordsWhole PROVE Spec => []TypeInv
<1>1. Init => TypeInv
  <2>1. <<>> \in Seq(JournalOps) /\ 0 \in 0..Len(<<>>) OBVIOUS
  <2> QED BY <2>1, EmptyShape DEF Init, TypeInv, PC
<1>2. TypeInv /\ [Next]_vars => TypeInv'
  BY TypeStep
<1> QED BY <1>1, <1>2, PTL DEF Spec

-----------------------------------------------------------------------------
(* Durability.                                                             *)

\* Every acknowledged record is synced; with the lock free, the engine is what the
\* files hold.
DurableInv ==
  /\ policy = "EachOp" /\ pc # "append" => synced = Len(journal)
  /\ ~stranded /\ pc \in {"ready", "append"} => Load(image, journal) = Loaded(mem)

\* No step takes a record from what a crash may not take.
LEMMA DurableStep ==
  ASSUME RecordsWhole, TypeInv, DurableInv, [Next]_vars
  PROVE  DurableInv'
<1>1. /\ Shape(mem) /\ Shape(image) /\ journal \in Seq(JournalOps)
      /\ synced \in 0..Len(journal) /\ Len(journal) \in Nat
  BY DEF TypeInv
<1>2. IsLoad(Load(image, journal)) /\ Loads(image, journal) = {Load(image, journal)}
  BY <1>1, LoadShape, OneOutcome
<1>3. CASE Open
  BY <1>2, <1>3 DEF Open, DurableInv, IsLoad, Loaded
<1>4. CASE Crash
  BY <1>4 DEF Crash, DurableInv
<1>5. CASE Write
  <2>1. PICK kind \in Verbs : \E op \in Records[kind] : mem' = ReplayOp(mem, op).mem /\ journal' = Append(journal, op)
    BY <1>5 DEF Write
  <2>2. PICK op \in Records[kind] : mem' = ReplayOp(mem, op).mem /\ journal' = Append(journal, op)
    BY <2>1
  <2>3. ReplayOp(mem, op) = Loaded(mem')
    BY <1>1, <2>2, RecordsReplay, DatabaseAssumption
  <2>4. Load(image, journal') = Replay(Load(image, journal), op)
    BY <1>1, <2>2, LoadAppend
  <2>5. ~stranded => Load(image, journal') = Loaded(mem')
    BY <1>5, <2>3, <2>4 DEF Write, DurableInv, Replay, Loaded
  <2> QED BY <1>5, <2>5 DEF Write, DurableInv
<1>6. CASE Acknowledge
  BY <1>6 DEF Acknowledge, SyncedAfter, DurableInv
<1>7. CASE Checkpoint
  BY <1>7 DEF Checkpoint, DurableInv
<1>8. CASE Maintain
  BY <1>8 DEF Maintain, DurableInv
<1>9. CASE Publish
  BY <1>9 DEF Publish, DurableInv
<1>10. CASE PublishFails
  BY <1>10 DEF PublishFails, DurableInv
<1>11. CASE ClearJournal
  BY <1>11 DEF ClearJournal, Cleared, DurableInv
<1>12. CASE ClearFails
  BY <1>12 DEF ClearFails, Uncleared, DurableInv
<1>13. CASE Reopen
  BY <1>2, <1>13 DEF Reopen, DurableInv, IsLoad, Loaded
<1>14. CASE ReopenFails
  BY <1>14 DEF ReopenFails, DurableInv
<1>15. CASE BeginReembed
  BY <1>15 DEF BeginReembed, DurableInv
<1>16. CASE AbandonReembed
  BY <1>16 DEF AbandonReembed, DurableInv
<1>17. CASE PublishReembed
  BY <1>17 DEF PublishReembed, DurableInv
<1>18. CASE UNCHANGED vars
  BY <1>18 DEF vars, DurableInv
<1> QED BY <1>3, <1>4, <1>5, <1>6, <1>7, <1>8, <1>9, <1>10, <1>11, <1>12, <1>13, <1>14, <1>15,
           <1>16, <1>17, <1>18 DEF Next

\* So it holds always.
LEMMA Durability == ASSUME RecordsWhole PROVE Spec => []DurableInv
<1>1. Init => DurableInv
  BY DEF Init, DurableInv
<1>2. TypeInv /\ DurableInv /\ [Next]_vars => DurableInv'
  BY DurableStep
<1> QED BY <1>1, <1>2, TypeCorrect, PTL DEF Spec

\* Once the lock is free readers see the database.
THEOREM ReadersSee == ASSUME RecordsWhole PROVE Spec => []ReadersSeeTheDatabase
<1>1. TypeInv /\ DurableInv => ReadersSeeTheDatabase
  BY WholeJournal DEF TypeInv, DurableInv, ReadersSeeTheDatabase, Restored
<1> QED BY <1>1, TypeCorrect, Durability, PTL

\* A verb that has returned under FsyncPolicy::EachOp survives a crash.
THEOREM AcknowledgedIsDurable == ASSUME RecordsWhole PROVE Spec => []AcknowledgedSurvives
<1>1. ASSUME TypeInv, DurableInv PROVE AcknowledgedSurvives
  <2>1. SUFFICES ASSUME policy = "EachOp", pc = "ready", ~stranded
                 PROVE  Kept = {Loaded(mem)}
    BY DEF AcknowledgedSurvives
  <2>2. journal \in Seq(JournalOps) /\ synced = Len(journal) /\ synced \in 0..Len(journal)
        /\ Load(image, journal) = Loaded(mem)
    BY <1>1, <2>1 DEF TypeInv, DurableInv
  <2>3. \A n \in synced..Len(journal) : n = Len(journal)
    BY <2>2
  <2>4. LeftOf(journal) = {journal}
    <3>1. SubSeq(journal, 1, Len(journal)) = journal /\ Len(journal) \in synced..Len(journal) BY <2>2
    <3> QED BY <2>2, <2>3, <3>1, LeftAreWhole
  <2> QED BY <2>2, <2>4, WholeJournal DEF Kept
<1> QED BY <1>1, TypeCorrect, Durability, PTL

-----------------------------------------------------------------------------
(* The crash contract.                                                     *)

\* Out of the instant in which a journal is cleared, the files load; and what a
\* checkpoint stages is what they hold.
OpensInv ==
  /\ ~stranded /\ ~Uncleared => Load(image, journal).ok
  /\ ~stranded /\ pc = "checkpoint" => Load(image, journal) = Loaded(staged)

\* The engine in memory is what the files load to, at every step.
LEMMA OpensStep ==
  ASSUME RecordsWhole, ClearsJournal, TypeInv, DurableInv, DurableInv', OpensInv, [Next]_vars
  PROVE  OpensInv'
<1>1. /\ journal \in Seq(JournalOps) /\ synced \in 0..Len(journal) /\ Len(journal) \in Nat
      /\ Shape(image)
  BY DEF TypeInv
<1>2. Loads(image, journal) = {Load(image, journal)}
  BY <1>1, OneOutcome
<1>3. ASSUME pc' \in {"ready", "append"} PROVE OpensInv'
  BY <1>3 DEF DurableInv, OpensInv, Loaded, Uncleared
<1>4. ASSUME UNCHANGED <<image, journal, staged, stranded, pc>> PROVE OpensInv'
  BY <1>4 DEF OpensInv, Uncleared
<1>5. CASE Open
  <2>1. pc' = "ready" \/ UNCHANGED <<image, journal, staged, stranded, pc>> BY <1>5 DEF Open
  <2> QED BY <2>1, <1>3, <1>4
<1>6. CASE Crash
  <2>1. ~Uncleared BY <1>6 DEF Crash, ClearsJournal
  <2>2. PICK n \in synced..Len(journal) : journal' = SubSeq(journal, 1, n)
    BY <1>1, <1>6, LeftAreWhole DEF Crash
  <2>3. ~stranded => Load(image, journal').ok
    BY <1>1, <2>1, <2>2, PrefixLoads DEF OpensInv
  <2> QED BY <1>6, <2>3 DEF Crash, OpensInv
<1>7. CASE Write BY <1>3, <1>7 DEF Write
<1>8. CASE Acknowledge BY <1>3, <1>8 DEF Acknowledge
<1>9. CASE Checkpoint
  BY <1>9 DEF Checkpoint, OpensInv, DurableInv, Loaded
<1>10. CASE Maintain
  BY <1>10 DEF Maintain, OpensInv, DurableInv, Loaded
<1>11. CASE Publish
  BY <1>11 DEF Publish, OpensInv, Uncleared
<1>12. CASE PublishFails
  BY <1>12 DEF PublishFails, OpensInv, Uncleared
<1>13. CASE ClearJournal
  BY <1>13, LoadEmpty DEF ClearJournal, Cleared, OpensInv, Loaded
<1>14. CASE ClearFails
  BY <1>14 DEF ClearFails, ClearsJournal
<1>15. CASE Reopen BY <1>3, <1>15 DEF Reopen
<1>16. CASE ReopenFails BY <1>3, <1>16 DEF ReopenFails
<1>17. CASE BeginReembed BY <1>3, <1>17 DEF BeginReembed
<1>18. CASE AbandonReembed BY <1>3, <1>18 DEF AbandonReembed
<1>19. CASE PublishReembed
  BY <1>19 DEF PublishReembed, OpensInv, Uncleared
<1>20. CASE UNCHANGED vars
  BY <1>4, <1>20 DEF vars
<1> QED BY <1>5, <1>6, <1>7, <1>8, <1>9, <1>10, <1>11, <1>12, <1>13, <1>14, <1>15,
           <1>16, <1>17, <1>18, <1>19, <1>20 DEF Next

\* So they always load.
LEMMA Opening == ASSUME RecordsWhole, ClearsJournal PROVE Spec => []OpensInv
<1>1. Init => OpensInv
  BY LoadEmpty DEF Init, OpensInv, Loaded
<1>2. TypeInv /\ DurableInv /\ DurableInv' /\ OpensInv /\ [Next]_vars => OpensInv'
  BY OpensStep
<1> QED BY <1>1, <1>2, TypeCorrect, Durability, PTL DEF Spec

\* No sequence of verbs, checkpoints, maintenance and crashes makes a database that
\* cannot be opened again.
THEOREM StaysOpenable == ASSUME RecordsWhole, ClearsJournal PROVE Spec => []AlwaysOpens
<1>1. TypeInv /\ OpensInv => AlwaysOpens
  BY OneOutcome DEF TypeInv, OpensInv, AlwaysOpens, Uncleared
<1> QED BY <1>1, TypeCorrect, Opening, PTL

\* The contents there are: while a journal is being cleared, the snapshot its
\* records are in already; and what a crash may leave of them.
Contents  == IF Uncleared THEN Loaded(image) ELSE Restored
Survivors == IF Uncleared THEN {Loaded(image)} ELSE Kept

Opens(load) == load.ok
Promise == INSTANCE DurableMemory WITH view <- Contents, kept <- Survivors

\* The contract of DurableMemory, kept through every step of a checkpoint, a reembed
\* and a reopen and a crash between any two: contents change by a verb, a compaction
\* or a reembed and by nothing else, and a crash undoes at most what was not yet
\* durable; while no failed verb has stranded the engine.
Changes == pc' # pc /\ pc' \in {"append", "compacted", "reembedded"}
KeepsContract ==
  /\ Promise!Init
  /\ [][~stranded' => IF Changes THEN Promise!Write
                      ELSE Promise!Settle \/ Promise!Crash]_vars

\* The contents, and what is left of them, one journal at a time.
OneLoad ==
  /\ Contents = IF Uncleared THEN Loaded(image) ELSE Load(image, journal)
  /\ Survivors = IF Uncleared THEN {Loaded(image)}
                 ELSE {Load(image, SubSeq(journal, 1, n)) : n \in synced..Len(journal)}
  /\ Contents \in Survivors

\* So they are, when records are whole.
LEMMA ContentsLoad == RecordsWhole /\ TypeInv => OneLoad
<1> SUFFICES ASSUME RecordsWhole, TypeInv PROVE OneLoad
  OBVIOUS
<1>1. journal \in Seq(JournalOps) /\ synced \in 0..Len(journal)
  BY DEF TypeInv
<1>2. Contents = IF Uncleared THEN Loaded(image) ELSE Load(image, journal)
  BY <1>1, WholeJournal DEF Contents, Restored
<1>3. Kept = {Load(image, j) : j \in LeftOf(journal)}
  BY <1>1, LeftAreWhole, WholeJournal DEF Kept
<1>4. Kept = {Load(image, SubSeq(journal, 1, n)) : n \in synced..Len(journal)}
  BY <1>1, <1>3, LeftAreWhole
<1>5. SubSeq(journal, 1, Len(journal)) = journal /\ Len(journal) \in synced..Len(journal)
  BY <1>1
<1>6. Load(image, journal) \in Kept
  BY <1>4, <1>5
<1> QED BY <1>2, <1>4, <1>6 DEF Contents, Survivors, OneLoad

\* One action after the other: which of the contract's steps it is.
LEMMA ContractStep ==
  ASSUME RecordsWhole, ClearsJournal, TypeInv, TypeInv', DurableInv, DurableInv', OpensInv,
         OpensInv', [Next]_vars, ~stranded'
  PROVE  IF Changes THEN Promise!Write ELSE Promise!Settle \/ Promise!Crash
<1>1. /\ journal \in Seq(JournalOps) /\ synced \in 0..Len(journal) /\ Len(journal) \in Nat
      /\ Contents = IF Uncleared THEN Loaded(image) ELSE Load(image, journal)
      /\ Survivors = IF Uncleared THEN {Loaded(image)}
                     ELSE {Load(image, SubSeq(journal, 1, n)) : n \in synced..Len(journal)}
      /\ Contents \in Survivors
  BY ContentsLoad DEF TypeInv, OneLoad
<1>2. /\ Contents' = IF Uncleared' THEN Loaded(image') ELSE Load(image', journal')
      /\ Survivors' = IF Uncleared' THEN {Loaded(image')}
                      ELSE {Load(image', SubSeq(journal', 1, n)) : n \in synced'..Len(journal')}
      /\ Contents' \in Survivors'
  <2>1. OneLoad' BY ContentsLoad, PTL
  <2> QED BY <2>1 DEF OneLoad
\* The files as they were.
<1>3. ASSUME UNCHANGED <<image, journal, synced>>, ~Uncleared, ~Uncleared', ~Changes
      PROVE  Promise!Settle
  <2>1. Contents' = Contents /\ Survivors' = Survivors
    BY <1>1, <1>2, <1>3
  <2> QED BY <1>1, <2>1 DEF Promise!Settle
<1>4. CASE Open
  BY <1>3, <1>4 DEF Open, Uncleared, Changes
<1>5. CASE Crash
  <2>1. ~Uncleared /\ ~Uncleared' /\ ~Changes /\ image' = image
    BY <1>5 DEF Crash, ClearsJournal, Uncleared, Changes
  <2>2. PICK n \in synced..Len(journal) : journal' = SubSeq(journal, 1, n)
    BY <1>1, <1>5, LeftAreWhole DEF Crash
  <2>3. synced' = Len(journal') /\ journal' \in Seq(JournalOps) /\ Len(journal') \in Nat
    BY <1>1, <1>5, <2>2 DEF Crash
  <2>4. Contents' = Load(image, SubSeq(journal, 1, n)) /\ Contents' \in Survivors
    BY <1>1, <1>2, <2>1, <2>2
  <2>5. Survivors' = {Contents'}
    <3>1. \A k \in synced'..Len(journal') : k = Len(journal') BY <2>3
    <3>2. Len(journal') \in synced'..Len(journal') BY <2>3
    <3>3. SubSeq(journal', 1, Len(journal')) = journal' BY <2>3
    <3> QED BY <1>2, <2>1, <3>1, <3>2, <3>3
  <2> QED BY <2>1, <2>4, <2>5 DEF Promise!Crash
<1>6. CASE Write
  <2>1. PICK op \in JournalOps : journal' = Append(journal, op)
    <3>1. PICK kind \in Verbs : \E op \in Records[kind] : journal' = Append(journal, op)
      BY <1>6 DEF Write
    <3>2. PICK op \in Records[kind] : journal' = Append(journal, op)
      BY <3>1
    <3>3. op \in JournalOps BY <3>2, RecordsReplay, DatabaseAssumption DEF TypeInv
    <3> QED BY <3>2, <3>3
  <2>2. ~Uncleared /\ ~Uncleared' /\ Changes /\ image' = image /\ synced' = synced
    BY <1>6 DEF Write, Uncleared, Changes
  <2>3. Contents'.ok
    BY <1>2, <2>2 DEF OpensInv
  <2>4. Survivors' \subseteq Survivors \cup {Contents'}
    <3>1. Len(journal') = Len(journal) + 1 /\ SubSeq(journal', 1, Len(journal')) = journal'
      BY <1>1, <2>1
    <3>2. \A n \in synced..Len(journal) : SubSeq(journal', 1, n) = SubSeq(journal, 1, n)
      BY <1>1, <2>1
    <3>3. ASSUME NEW n \in synced'..Len(journal')
          PROVE  Load(image, SubSeq(journal', 1, n)) \in Survivors \cup {Contents'}
      <4>1. CASE n = Len(journal') BY <1>2, <2>2, <3>1, <4>1
      <4>2. CASE n # Len(journal')
        <5>1. n \in synced..Len(journal) BY <1>1, <2>2, <3>1, <4>2
        <5> QED BY <1>1, <2>2, <3>2, <5>1
      <4> QED BY <4>1, <4>2
    <3> QED BY <1>2, <2>2, <3>3
  <2> QED BY <1>2, <2>2, <2>3, <2>4 DEF Promise!Write, Opens
<1>7. CASE Acknowledge
  <2>1. ~Uncleared /\ ~Uncleared' /\ ~Changes /\ image' = image /\ journal' = journal
        /\ synced' \in synced..Len(journal)
    BY <1>1, <1>7 DEF Acknowledge, SyncedAfter, Uncleared, Changes
  <2>2. Contents' = Contents BY <1>1, <1>2, <2>1
  <2>3. synced'..Len(journal') \subseteq synced..Len(journal) BY <1>1, <2>1
  <2>4. Survivors' \subseteq Survivors BY <1>1, <1>2, <2>1, <2>3
  <2> QED BY <1>2, <2>1, <2>2, <2>4 DEF Promise!Settle
<1>8. CASE Checkpoint BY <1>3, <1>8 DEF Checkpoint, Uncleared, Changes
<1>9. CASE Maintain BY <1>3, <1>9 DEF Maintain, Uncleared, Changes
<1>10. CASE Publish
  <2>1. ~Uncleared /\ Uncleared' /\ image' = staged /\ stranded' = stranded
        /\ (Changes <=> pc = "maintain")
    BY <1>10 DEF Publish, Uncleared, Changes
  <2>2. Contents' = Loaded(staged) /\ Survivors' = {Contents'}
    BY <1>2, <2>1
  <2>3. CASE pc = "maintain"
    BY <2>1, <2>2, <2>3 DEF Promise!Write, Opens, Loaded
  <2>4. CASE pc = "checkpoint"
    <3>1. Contents' = Contents BY <1>1, <2>1, <2>2, <2>4 DEF OpensInv
    <3> QED BY <1>1, <2>1, <2>2, <2>4, <3>1 DEF Promise!Settle
  <2> QED BY <1>10, <2>3, <2>4 DEF Publish
<1>11. CASE PublishFails BY <1>3, <1>11 DEF PublishFails, Uncleared, Changes
<1>12. CASE ClearJournal
  <2>1. Uncleared /\ ~Uncleared' /\ ~Changes /\ image' = image /\ journal' = <<>> /\ synced' = 0
    BY <1>12 DEF ClearJournal, Cleared, Uncleared, Changes
  <2>2. Contents' = Loaded(image) /\ Contents = Loaded(image) /\ Survivors = {Loaded(image)}
    BY <1>1, <1>2, <2>1, LoadEmpty
  <2>3. Survivors' = {Loaded(image)}
    <3>1. \A n \in 0..Len(<<>>) : n = 0 OBVIOUS
    <3>2. SubSeq(<<>>, 1, 0) = <<>> /\ 0 \in 0..Len(<<>>) OBVIOUS
    <3> QED BY <1>2, <2>1, <3>1, <3>2, LoadEmpty
  <2> QED BY <2>1, <2>2, <2>3 DEF Promise!Settle
<1>13. CASE ClearFails BY <1>13 DEF ClearFails, ClearsJournal
<1>14. CASE Reopen BY <1>3, <1>14 DEF Reopen, Uncleared, Changes
<1>15. CASE ReopenFails BY <1>3, <1>15 DEF ReopenFails, Uncleared, Changes
<1>16. CASE BeginReembed BY <1>3, <1>16 DEF BeginReembed, Uncleared, Changes
<1>17. CASE AbandonReembed BY <1>3, <1>17 DEF AbandonReembed, Uncleared, Changes
<1>18. CASE PublishReembed
  <2>1. Uncleared' /\ Changes
    BY <1>18 DEF PublishReembed, Uncleared, Changes
  <2> QED BY <1>2, <2>1 DEF Promise!Write, Opens, Loaded
<1>19. CASE UNCHANGED vars
  <2>1. Contents' = Contents /\ Survivors' = Survivors /\ ~Changes
    BY <1>1, <1>2, <1>19 DEF vars, Uncleared, Changes
  <2> QED BY <1>1, <2>1 DEF Promise!Settle
<1> QED BY <1>4, <1>5, <1>6, <1>7, <1>8, <1>9, <1>10, <1>11, <1>12, <1>13, <1>14, <1>15,
           <1>16, <1>17, <1>18, <1>19 DEF Next

\* What the database promises its caller it keeps, until a failed verb has
\* stranded the engine.
THEOREM ContractKept == ASSUME RecordsWhole, ClearsJournal PROVE Spec => KeepsContract
<1>1. Init => Promise!Init
  <2>1. SUFFICES ASSUME Init PROVE Promise!Init OBVIOUS
  <2>2. <<>> \in Seq(JournalOps) /\ 0 \in 0..Len(<<>>) OBVIOUS
  <2>3. TypeInv BY <2>1, <2>2, EmptyShape DEF Init, TypeInv, PC
  <2>4. Contents = Loaded(image)
    BY <2>1, <2>3, ContentsLoad, LoadEmpty DEF OneLoad, Init, Uncleared
  <2>5. Survivors = {Loaded(image)}
    <3>1. \A n \in 0..Len(<<>>) : n = 0 BY <2>2
    <3>2. SubSeq(<<>>, 1, 0) = <<>> OBVIOUS
    <3> QED BY <2>1, <2>2, <2>3, <3>1, <3>2, ContentsLoad, LoadEmpty DEF OneLoad, Init, Uncleared
  <2> QED BY <2>4, <2>5 DEF Promise!Init, Opens, Loaded
<1>2. TypeInv /\ TypeInv' /\ DurableInv /\ DurableInv' /\ OpensInv /\ OpensInv' /\ [Next]_vars
      => [~stranded' => IF Changes THEN Promise!Write ELSE Promise!Settle \/ Promise!Crash]_vars
  BY ContractStep
<1> QED BY <1>1, <1>2, TypeCorrect, Durability, Opening, PTL DEF Spec, KeepsContract

-----------------------------------------------------------------------------
(* Reembed.                                                                *)

\* While a reembed is under way the lock is free or another caller's, and no verb
\* changes the engine it was frozen from.
StagingInv ==
  /\ pc \in {"published", "compacted", "reembedded", "reopen"} => staged = EmptyMemory
  /\ pc \in {"append", "closed"} => ~reembedding
  /\ pc = "ready" /\ ReembedUnderWay => \E s \in Spaces : staged = Reembedded(mem, s)

\* No action but begin_reembed stages an image of its own.
LEMMA StagingStep == StagingInv /\ [Next]_vars => StagingInv'
<1> SUFFICES ASSUME StagingInv, [Next]_vars PROVE StagingInv'
  OBVIOUS
<1>1. CASE Open BY <1>1 DEF Open, StagingInv, ReembedUnderWay
<1>2. CASE Crash BY <1>2 DEF Crash, StagingInv, ReembedUnderWay
<1>3. CASE Write BY <1>3 DEF Write, WriteAvailable, StagingInv, ReembedUnderWay
<1>4. CASE Acknowledge BY <1>4 DEF Acknowledge, StagingInv, ReembedUnderWay
<1>5. CASE Checkpoint BY <1>5 DEF Checkpoint, StagingInv, ReembedUnderWay
<1>6. CASE Maintain BY <1>6 DEF Maintain, StagingInv, ReembedUnderWay
<1>7. CASE Publish BY <1>7 DEF Publish, StagingInv, ReembedUnderWay
<1>8. CASE PublishFails BY <1>8 DEF PublishFails, StagingInv, ReembedUnderWay
<1>9. CASE ClearJournal BY <1>9 DEF ClearJournal, Uncleared, StagingInv, ReembedUnderWay
<1>10. CASE ClearFails BY <1>10 DEF ClearFails, Uncleared, StagingInv, ReembedUnderWay
<1>11. CASE Reopen BY <1>11 DEF Reopen, StagingInv, ReembedUnderWay
<1>12. CASE ReopenFails BY <1>12 DEF ReopenFails, StagingInv, ReembedUnderWay
<1>13. CASE BeginReembed BY <1>13 DEF BeginReembed, StagingInv, ReembedUnderWay
<1>14. CASE AbandonReembed BY <1>14 DEF AbandonReembed, StagingInv, ReembedUnderWay
<1>15. CASE PublishReembed BY <1>15 DEF PublishReembed, StagingInv, ReembedUnderWay
<1>16. CASE UNCHANGED vars BY <1>16 DEF vars, StagingInv, ReembedUnderWay
<1> QED BY <1>1, <1>2, <1>3, <1>4, <1>5, <1>6, <1>7, <1>8, <1>9, <1>10, <1>11, <1>12, <1>13,
           <1>14, <1>15, <1>16 DEF Next

\* A reembed publishes the database with other vectors, whatever fails.
THEOREM ReembedLosesNothing == Spec => NoWriteLostToReembed
<1>1. Init => StagingInv
  BY DEF Init, StagingInv, ReembedUnderWay
<1>2. StagingInv /\ [Next]_vars
      => [PublishReembed => \E s \in Spaces : image' = Reembedded(mem, s)]_vars
  BY DEF StagingInv, PublishReembed
<1> QED BY <1>1, <1>2, StagingStep, PTL DEF Spec, NoWriteLostToReembed
=============================================================================
