----------------------------- MODULE NodeHandle -----------------------------
(***************************************************************************)
(* The Node binding (plugmem-napi): one JavaScript thread, the workers of  *)
(* libuv's pool, and a Plugmem or, in the "named" surface, the             *)
(* WorkspaceMemory of a database.  An asynchronous verb is a task: made on *)
(* the JavaScript thread with a reference to the database, computed by a   *)
(* worker, resolved on the JavaScript thread.  A synchronous verb of a     *)
(* Plugmem locks the engine on the JavaScript thread itself.               *)
(*                                                                         *)
(* What the verbs do to the database is Database's and Workspace's.        *)
(***************************************************************************)
EXTENDS RwLocks, Naturals, Sequences

CONSTANTS
  Jobs,          \* tasks under way at a time
  Workers,       \* size of libuv's pool
  NodeSurfaces,  \* which of "direct", "named" to explore
  NodeKinds,     \* what a Plugmem may be open as
  Queue,         \* EXPORT_EDGE_QUEUE
  Batches        \* batches of edges an export may have, of each surface

ASSUME NodeAssumption == /\ Workers \in Nat \ {0} /\ Queue \in Nat \ {0}
                         /\ NodeSurfaces \subseteq {"direct", "named"}
                         /\ NodeKinds \subseteq {"writer", "reader", "closed"}
                         /\ Batches \in [{"direct", "named"} -> Nat]

VARIABLES
  nodeSurface,  \* the surface in use
  opened,       \* Plugmem::handle: "writer", "reader", or "closed"
  js,           \* what the JavaScript thread does
  job           \* what each task is, does and holds

nodeVars == <<nodeSurface, opened, js, job>>

-----------------------------------------------------------------------------
(* The tasks: the kinds of handle a verb works on, the engine locks its    *)
(* compute takes, one after another, and whether it streams batches back.  *)

Job(on, engine) == [on |-> on, engine |-> engine, streams |-> FALSE]

AnyHandle  == {"writer", "reader"}
WriteTasks == Job({"writer"}, <<"write">>)
ReadTasks  == Job(AnyHandle, <<"read">>)

RememberTask     == WriteTasks
GuardedTask      == WriteTasks
RememberManyTask == WriteTasks
ReviseTask      == WriteTasks
RecallTask      == ReadTasks
ForgetTask      == WriteTasks
ForgetManyTask  == WriteTasks
LinkTask        == WriteTasks
UnlinkTask      == WriteTasks
ExportTask      == ReadTasks
ExportPageTask  == ReadTasks
ExportEdgesTask == [ReadTasks EXCEPT !.streams = TRUE]
ScrubTask       == ReadTasks
TagPageTask     == ReadTasks
RemoveTagTask   == WriteTasks
VerifyTask      == ReadTasks
MaintainTask    == WriteTasks
ReembedTask     == Job({"writer"}, <<"write", "write">>)
CheckpointTask  == WriteTasks

NodeTasks == {RememberTask, GuardedTask, RememberManyTask, ReviseTask, RecallTask, ForgetTask,
          ForgetManyTask, LinkTask, UnlinkTask, ExportTask, ExportPageTask, ExportEdgesTask,
          ScrubTask, TagPageTask, RemoveTagTask, VerifyTask, MaintainTask, ReembedTask,
          CheckpointTask}

\* The engine lock of a Plugmem's synchronous verbs; a WorkspaceMemory has none.
GetSync           == "read"
StatsSync         == "read"
TagsOfSync        == "read"
EmbedderStateSync == "none"
SuspendSync       == "none"
ResumeSync        == "none"
GenerationSync    == "none"

SyncLocks == IF nodeSurface = "named" THEN {}
             ELSE {GetSync, StatsSync, TagsOfSync, EmbedderStateSync, SuspendSync, ResumeSync,
                   GenerationSync}

\* Of a WorkspaceMemory get, stats, tagsOf and the embedder's three are tasks.
WriterGetTask      == ReadTasks
WriterStatsTask    == ReadTasks
WriterTagsTask     == ReadTasks
EmbedderStateTask  == Job({"writer"}, <<>>)
EmbedderSwitchTask == Job({"writer"}, <<>>)

NamedTasks == NodeTasks \cup {WriterGetTask, WriterStatsTask, WriterTagsTask, EmbedderStateTask,
                          EmbedderSwitchTask}

Tasked == IF nodeSurface = "direct" THEN NodeTasks ELSE NamedTasks

-----------------------------------------------------------------------------
\* engine: the guard it holds.  left: batches not sent.  queued: batches in
\* the threadsafe function's queue, whose receipts are outstanding.
NoJob == [pc |-> "none", engine |-> "none", todo |-> <<>>, left |-> 0,
          queued |-> 0]

Computing == {"engine", "work"}
Busy      == {j \in Jobs : job[j].pc \in Computing}
Live      == {j \in Jobs : job[j].pc \notin {"none", "resolved"}}

EngineReaders == {j \in Jobs : job[j].engine = "read"} \cup (IF js = "reading" THEN {"js"} ELSE {})
EngineWriters == {j \in Jobs : job[j].engine = "write"}
EngineWaiting == {j \in Jobs : job[j].pc = "engine" /\ Head(job[j].todo) = "write"}

\* The verb itself: arguments checked, the database cloned
\* or its name taken, the task handed to the pool.
Schedule(j, k) ==
  /\ js = "loop" /\ job[j].pc = "none"
  /\ opened \in k.on
  /\ \E n \in IF k.streams THEN 0..Batches[nodeSurface] ELSE {0} :
       job' = [job EXCEPT ![j] = [NoJob EXCEPT !.pc = "scheduled", !.left = n,
                                    !.todo = IF opened = "writer" THEN k.engine ELSE <<>>]]
  /\ UNCHANGED <<nodeSurface, opened, js>>

\* A worker takes the task up; a named one looks again whether the workspace is
\* open, and leases the database.
Start(j) ==
  LET off == nodeSurface = "named" /\ opened = "closed"
  IN /\ job[j].pc = "scheduled" /\ Cardinality(Busy) < Workers
     /\ job' = [job EXCEPT ![j].pc = IF off \/ job[j].todo = <<>> THEN "work" ELSE "engine",
                           ![j].todo = IF off THEN <<>> ELSE @,
                           ![j].left = IF off THEN 0 ELSE @]
     /\ UNCHANGED <<nodeSurface, opened, js>>

LockEngine(j) ==
  /\ job[j].pc = "engine"
  /\ MayLock(Head(job[j].todo), EngineReaders, EngineWriters, EngineWaiting)
  /\ job' = [job EXCEPT ![j].engine = Head(job[j].todo), ![j].todo = Tail(@), ![j].pc = "work"]
  /\ UNCHANGED <<nodeSurface, opened, js>>

\* call_with_return_value, Blocking: a full queue parks the worker here, with the
\* engine's lock if the walk is not over.
Send(j) ==
  /\ job[j].pc = "work" /\ job[j].left > 0
  /\ job[j].queued < Queue
  /\ job' = [job EXCEPT ![j].left = @ - 1, ![j].queued = @ + 1]
  /\ UNCHANGED <<nodeSurface, opened, js>>

\* The walk or the change is over; one partial batch may follow without the lock.
Unlock(j) ==
  /\ job[j].pc = "work" /\ job[j].engine # "none"
  /\ job[j].left <= 1
  /\ job' = [job EXCEPT ![j].engine = "none",
                        ![j].pc = IF job[j].todo # <<>> THEN "engine" ELSE "work"]
  /\ UNCHANGED <<nodeSurface, opened, js>>

\* A bug Computed must not have: the receipts not awaited.
ComputedAtOnce(j) ==
  /\ job[j].pc = "work" /\ job[j].engine = "none" /\ job[j].left = 0
  /\ job' = [job EXCEPT ![j].pc = "computed"]
  /\ UNCHANGED <<nodeSurface, opened, js>>

\* compute returns, once every batch sent has its receipt.
Computed(j) ==
  /\ job[j].pc = "work" /\ job[j].engine = "none" /\ job[j].left = 0
  /\ job[j].queued = 0
  /\ job' = [job EXCEPT ![j].pc = "computed"]
  /\ UNCHANGED <<nodeSurface, opened, js>>

\* The event loop runs the callback on a queued batch, and the receipt after it.
RunCallback(j) ==
  /\ js = "loop" /\ job[j].queued > 0
  /\ job' = [job EXCEPT ![j].queued = @ - 1]
  /\ UNCHANGED <<nodeSurface, opened, js>>

\* The event loop settles the promise and drops the task, and with it the
\* reference to the database.
Resolve(j) ==
  /\ js = "loop" /\ job[j].pc = "computed"
  /\ job' = [job EXCEPT ![j].pc = "resolved"]
  /\ UNCHANGED <<nodeSurface, opened, js>>

\* The caller has its result; the slot is free for another task.
Forgotten(j) ==
  /\ job[j].pc = "resolved" /\ job[j].queued = 0
  /\ job' = [job EXCEPT ![j] = NoJob]
  /\ UNCHANGED <<nodeSurface, opened, js>>

-----------------------------------------------------------------------------
(* On the JavaScript thread.                                               *)

SyncCall(lock) ==
  /\ js = "loop" /\ opened # "closed"
  /\ js' = IF lock = "read" /\ opened = "writer" THEN "waiting" ELSE js
  /\ UNCHANGED <<nodeSurface, opened, job>>

SyncLock ==
  /\ js = "waiting"
  /\ MayLock("read", EngineReaders, EngineWriters, EngineWaiting)
  /\ js' = "reading"
  /\ UNCHANGED <<nodeSurface, opened, job>>

SyncReturn ==
  /\ js = "reading"
  /\ js' = "loop"
  /\ UNCHANGED <<nodeSurface, opened, job>>

CloseSync ==
  /\ js = "loop"
  /\ opened' = "closed"
  /\ UNCHANGED <<nodeSurface, js, job>>

-----------------------------------------------------------------------------
NodeInit ==
  /\ nodeSurface \in NodeSurfaces
  /\ opened \in IF nodeSurface = "direct" THEN NodeKinds ELSE {"writer"}
  /\ js = "loop"
  /\ job = [j \in Jobs |-> NoJob]

JobTurn(j) == \/ Start(j) \/ LockEngine(j) \/ Send(j) \/ Unlock(j) \/ Computed(j)
              \/ RunCallback(j) \/ Resolve(j)

NodeNext == \/ \E j \in Jobs : \/ JobTurn(j) \/ Forgotten(j)
                               \/ \E k \in Tasked : Schedule(j, k)
            \/ \E lock \in SyncLocks : SyncCall(lock)
            \/ SyncLock \/ SyncReturn \/ CloseSync

NodeSpec == NodeInit /\ [][NodeNext]_nodeVars
-----------------------------------------------------------------------------
\* "The worker waits -- never the event loop" (plugmem-napi/README.md:320-321): as
\* long as tasks are under way one of them can go on, or the JavaScript thread can.
NodeMoves ==
  Live # {} => \/ \E j \in Live : ENABLED JobTurn(j)
               \/ ENABLED SyncLock \/ ENABLED SyncReturn

\* "When the promise resolves, every batch has been delivered"
\* (plugmem-napi/src/db.rs:610), although a batch is only queued when it is sent.
DeliveredOnResolve ==
  \A j \in Jobs : job[j].pc = "resolved" => job[j].queued = 0
=============================================================================
