------------------------------ MODULE PyHandle ------------------------------
(***************************************************************************)
(* The Python binding (plugmem-py): threads of one interpreter that share  *)
(* a Plugmem or, in the "named" surface, the WorkspaceMemory objects of a  *)
(* database.  Three locks meet in a call: the interpreter's GIL, the       *)
(* RwLock around a Plugmem's handle, and the RwLock around the engine.     *)
(*                                                                         *)
(* A verb is the locks it takes, in order, and what it does with the GIL.  *)
(* What the verbs do to the database is Database's and Workspace's.  A     *)
(* callback is assumed not to call the handle it is called from.           *)
(***************************************************************************)
EXTENDS RwLocks, Naturals, Sequences

CONSTANTS
  PyThreads,   \* threads of the interpreter
  PySurfaces,  \* which of "direct", "named" to explore
  PyKinds,     \* what a Plugmem may be open as: "writer", "reader"
  MaxBatches   \* full batches of edges an export may have

ASSUME PyAssumption == MaxBatches \in Nat \ {0} /\ PyThreads # {}

VARIABLES
  pySurface,  \* the surface the threads use
  content,    \* Plugmem::handle: "writer", "reader", or "closed"
  gil,        \* the thread that runs Python, if any
  py          \* what each thread does and holds

pyVars == <<pySurface, content, gil, py>>

Nobody == "nobody"

-----------------------------------------------------------------------------
(* The verbs.  slot: how it locks the handle.  on: the kinds of handle it  *)
(* works on.  engine: the locks of the engine it takes, one after another. *)
(* keeps: it does not let go of the GIL.  calls: it calls Python between.  *)

PyVerb(on, engine) == [slot |-> "read", on |-> on, engine |-> engine,
                       keeps |-> FALSE, calls |-> FALSE]

Either  == {"writer", "reader"}
Writing == PyVerb({"writer"}, <<"write">>)
Reading == PyVerb(Either, <<"read">>)
Gated   == PyVerb(Either, <<>>)

PyRemember        == Writing
PyRememberGuarded == Writing
PyRememberMany    == Writing
PyRevise          == Writing
PyRecall          == Reading
PyForget          == Writing
PyForgetMany      == Writing
PyLink            == Writing
PyUnlink          == Writing
PyGet             == Reading
PyTagsOf          == Reading
PyListTags        == Reading
PyRemoveTag       == Writing
PyEmbedderState   == Gated
PySuspendEmbedder == Gated
PyResumeEmbedder  == Gated
PyStats           == Reading
PyExport          == Reading
PyExportPage      == Reading
PyExportEdges     == [Reading EXCEPT !.keeps = TRUE, !.calls = TRUE]
PyVerify          == Reading
PyScrub           == Reading
PyMaintain        == Writing
PyReembed         == PyVerb({"writer"}, <<"write", "write">>)
PyCheckpoint      == Writing
PyGeneration      == PyVerb({"reader"}, <<>>)
PyRefresh         == [PyVerb({"reader"}, <<>>) EXCEPT !.slot = "write"]
PyClose           == [Gated EXCEPT !.slot = "write"]
PyRepr            == [Gated EXCEPT !.keeps = TRUE]

Direct ==
  {PyRemember, PyRememberGuarded, PyRememberMany, PyRevise, PyRecall, PyForget, PyForgetMany,
   PyLink, PyUnlink, PyGet, PyTagsOf, PyListTags, PyRemoveTag, PyEmbedderState,
   PySuspendEmbedder, PyResumeEmbedder, PyStats, PyExport, PyExportPage, PyExportEdges,
   PyVerify, PyScrub, PyMaintain, PyReembed, PyCheckpoint, PyGeneration, PyRefresh, PyClose,
   PyRepr}

\* A verb of a WorkspaceMemory leases the database for the call; there is no
\* handle to lock.
Leased(engine) == [PyVerb({"writer"}, engine) EXCEPT !.slot = "none"]
Change == Leased(<<"write">>)
Look   == Leased(<<"read">>)

NamedRemember        == Change
NamedRememberGuarded == Change
NamedRememberMany    == Change
NamedRevise          == Change
NamedRecall          == Look
NamedForget          == Change
NamedForgetMany      == Change
NamedLink            == Change
NamedUnlink          == Change
NamedGet             == Look
NamedTagsOf          == Look
NamedListTags        == Look
NamedRemoveTag       == Change
NamedStats           == Look
NamedExport          == Look
NamedExportPage      == Look
NamedVerify          == Look
NamedScrub           == Look
NamedMaintain        == Change
NamedReembed         == Leased(<<"write", "write">>)
NamedCheckpoint      == Change
NamedGate            == Leased(<<>>)

\* A bug NamedExportEdges must not have: the walk not detached.
NamedExportEdgesKept == [Look EXCEPT !.calls = TRUE, !.keeps = TRUE]

\* The whole walk without the GIL; deliver_edges takes it for the callback.
NamedExportEdges == [Look EXCEPT !.calls = TRUE]

Named ==
  {NamedRemember, NamedRememberGuarded, NamedRememberMany, NamedRevise, NamedRecall, NamedForget,
   NamedForgetMany, NamedLink, NamedUnlink, NamedGet, NamedTagsOf, NamedListTags, NamedRemoveTag,
   NamedStats, NamedExport, NamedExportPage, NamedExportEdges, NamedVerify, NamedScrub,
   NamedMaintain, NamedReembed, NamedCheckpoint, NamedGate}

Verbs == IF pySurface = "direct" THEN Direct ELSE Named

-----------------------------------------------------------------------------
\* slot, engine: the guards it holds.  todo: engine locks still to take.
PyIdle == [pc |-> "out", verb |-> Gated, slot |-> "none", engine |-> "none",
            todo |-> <<>>, batches |-> 0]

PyAt(t, pc) == py' = [py EXCEPT ![t].pc = pc]

Holding(field, mode) == {t \in PyThreads : py[t][field] = mode}

SlotQueue   == {t \in PyThreads : py[t].pc = "slot" /\ py[t].verb.slot = "write"}
EngineQueue == {t \in PyThreads : py[t].pc = "engine" /\ Head(py[t].todo) = "write"}

NeedsGil == {"out", "callback", "returning", "lastCallback", "back"}

\* Python::attach, and the interpreter that gives a waiting thread its turn.
TakeGil(t) ==
  /\ gil = Nobody /\ py[t].pc \in NeedsGil
  /\ gil' = t
  /\ UNCHANGED <<pySurface, content, py>>

\* The interpreter's switch interval, in the caller's Python code.  In a callback
\* once is enough to let every other thread in.
Yield(t) ==
  /\ gil = t /\ py[t].pc \in {"out", "callback"}
  /\ PyAt(t, IF py[t].pc = "out" THEN "out" ELSE "returning")
  /\ gil' = Nobody
  /\ UNCHANGED <<pySurface, content>>

\* Python::detach comes first, but for the verbs that have none.
PyCall(t, v) ==
  /\ gil = t /\ py[t].pc = "out"
  /\ gil' = IF v.keeps THEN t ELSE Nobody
  /\ \E n \in IF v.calls THEN 0..MaxBatches ELSE {0} :
       py' = [py EXCEPT ![t] = [PyIdle EXCEPT !.pc = "slot", !.verb = v, !.batches = n]]
  /\ UNCHANGED <<pySurface, content>>

\* The engine of a reader is not behind a lock; nor is one that refuses.
ToTake(v) == IF content = "writer" THEN v.engine ELSE <<>>

\* The handle's lock, and the check that it is open, and as what the verb needs.
\* The embedder, if the verb asks one, is called between this and TakeEngine.
TakeSlot(t) ==
  LET v == py[t].verb
      fits == content \in v.on
  IN /\ py[t].pc = "slot"
     /\ v.slot # "none" => MayLock(v.slot, Holding("slot", "read"), Holding("slot", "write"),
                                   SlotQueue)
     /\ py' = [py EXCEPT ![t].slot = v.slot,
                         ![t].todo = IF fits THEN ToTake(v) ELSE <<>>,
                         ![t].batches = IF fits THEN @ ELSE 0,
                         ![t].pc = IF ~fits THEN "leave" ELSE IF ToTake(v) = <<>> THEN "work"
                                   ELSE "engine"]
     /\ UNCHANGED <<pySurface, content, gil>>

TakeEngine(t) ==
  /\ py[t].pc = "engine"
  /\ MayLock(Head(py[t].todo), Holding("engine", "read"), Holding("engine", "write"), EngineQueue)
  /\ py' = [py EXCEPT ![t].engine = Head(py[t].todo), ![t].todo = Tail(@), ![t].pc = "work"]
  /\ UNCHANGED <<pySurface, content, gil>>

\* A full batch is delivered from inside the walk, under the engine's lock.
Deliver(t) ==
  /\ py[t].pc = "work" /\ py[t].batches > 0
  /\ py' = [py EXCEPT ![t].pc = "callback", ![t].batches = @ - 1]
  /\ UNCHANGED <<pySurface, content, gil>>

\* Deliver's callback returns, and the thread detaches again.
Delivered(t) ==
  /\ gil = t /\ py[t].pc \in {"callback", "returning", "lastCallback"}
  /\ PyAt(t, IF py[t].pc = "lastCallback" THEN "leave" ELSE "work")
  /\ gil' = IF py[t].verb.keeps THEN t ELSE Nobody
  /\ UNCHANGED <<pySurface, content>>

\* The engine's lock is let go: the next one, the last batch, or the end.
WorkDone(t) ==
  /\ py[t].pc = "work" /\ py[t].batches = 0
  /\ \E next \in IF py[t].todo # <<>> THEN {"engine"}
                 ELSE IF py[t].verb.calls THEN {"lastCallback", "leave"} ELSE {"leave"} :
       py' = [py EXCEPT ![t].engine = "none", ![t].pc = next]
  /\ UNCHANGED <<pySurface, content, gil>>

\* The handle's lock is let go; close has taken the database out and drops it.
Leave(t) ==
  /\ py[t].pc = "leave"
  /\ content' = IF py[t].verb = PyClose THEN "closed" ELSE content
  /\ py' = [py EXCEPT ![t].slot = "none", ![t].pc = "back"]
  /\ UNCHANGED <<pySurface, gil>>

\* Back in the interpreter with the result.
Back(t) ==
  /\ gil = t /\ py[t].pc = "back"
  /\ py' = [py EXCEPT ![t] = PyIdle]
  /\ UNCHANGED <<pySurface, content, gil>>

-----------------------------------------------------------------------------
PyInit ==
  /\ pySurface \in PySurfaces
  /\ content \in IF pySurface = "direct" THEN PyKinds ELSE {"writer"}
  /\ gil = Nobody
  /\ py = [t \in PyThreads |-> PyIdle]

Proceed(t) == \/ TakeSlot(t) \/ TakeEngine(t) \/ Deliver(t) \/ Delivered(t)
              \/ WorkDone(t) \/ Leave(t) \/ Back(t)
PyNext == \E t \in PyThreads : TakeGil(t) \/ Proceed(t) \/ Yield(t) \/ \E v \in Verbs : PyCall(t, v)

PySpec == PyInit /\ [][PyNext]_pyVars
-----------------------------------------------------------------------------
\* "A handle is safe to share across threads" (plugmem-py/README.md:480): as long
\* as calls are under way one of them can go on, or the thread that runs Python can
\* give way to one that waits for it.  Otherwise the interpreter stands still.
PyMoves ==
  LET inCall == {t \in PyThreads : py[t].pc # "out"}
  IN inCall # {} =>
       \/ \E t \in inCall : ENABLED TakeGil(t) \/ ENABLED Proceed(t)
       \/ gil \in PyThreads \ inCall
=============================================================================
