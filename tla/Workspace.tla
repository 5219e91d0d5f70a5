------------------------------ MODULE Workspace ------------------------------
(***************************************************************************)
(* A directory of named databases and the pool of those one process has    *)
(* open (plugmem-host/src/workspace.rs), under the bindings' Workspace     *)
(* class that may be closed while verbs run (plugmem-napi and plugmem-py,  *)
(* workspace.rs).  Beside it another process opens the same databases.     *)
(*                                                                         *)
(* An open database is reference counted: its file lock goes with the last *)
(* of the pool's copy, a lease's, a caller's clone, and the copies that a  *)
(* sweep has taken out of the pool and not dropped yet.  Every operation   *)
(* on the pool is atomic, the open included: the pool's mutex is held.     *)
(*                                                                         *)
(* An opening of database n is a token <<n, k>>.  k is the number of an    *)
(* opening nobody refers to any more, where the code counts on.            *)
(***************************************************************************)
EXTENDS Naturals, FiniteSets

CONSTANTS
  Names,    \* databases, by validated name
  Tasks,    \* threads of the process
  Ceiling,  \* WorkspaceLimits::ceiling()
  Timeout   \* idle_timeout_ms, in ticks; 0: no sweep

ASSUME WorkspaceAssumption == Ceiling \in Nat \ {0} /\ Timeout \in Nat /\ IsFiniteSet(Tasks)

VARIABLES
  onDisk,  \* names that have files
  other,   \* names another process has open
  pooled,  \* token -> ticks since its last use, and its active leases
  task,    \* what each thread is doing, and the copies it holds
  closed   \* WorkspaceState::closed

poolVars == <<onDisk, other, pooled, task, closed>>

Tokens  == Names \X (0..Cardinality(Tasks))
NoToken == <<>>

Pooled == [age : 0..Timeout, active : 0..Cardinality(Tasks)]

\* checked: past the closed flag.  dropped: a lease that has let go of its copy
\* and has not told the pool yet.
TaskPC == {"idle", "checked", "lease", "dropped", "clone", "closing", "closeAll"}
TaskState == [pc : TaskPC, copies : SUBSET Tokens, pin : Tokens \cup {NoToken}]
Idle      == [pc |-> "idle", copies |-> {}, pin |-> NoToken]

-----------------------------------------------------------------------------
Open       == DOMAIN pooled
Referenced == Open \cup UNION {task[t].copies : t \in Tasks}
Alive(n)   == \E tok \in Referenced : tok[1] = n

Locked(n) == n \in other \/ Alive(n)

Without(p, toks) == [tok \in DOMAIN p \ toks |-> p[tok]]
With(p, tok, e)  == [x \in DOMAIN p \cup {tok} |-> IF x = tok THEN e ELSE p[x]]

\* least_recently_used_available; among entries equally old to the model, any.
Evictable == LET inactive == {tok \in Open : pooled[tok].active = 0}
             IN {tok \in inactive : \A u \in inactive : pooled[u].age <= pooled[tok].age}

\* A bug Room must not have: one entry too many.
RoomLate == IF Cardinality(Open) <= Ceiling THEN {pooled}
            ELSE {Without(pooled, {tok}) : tok \in Evictable}

\* The pools acquire may make room to; none when every entry is active.
Room == IF Cardinality(Open) < Ceiling THEN {pooled}
        ELSE {Without(pooled, {tok}) : tok \in Evictable}

Now(t, pc, copies, pin) == task' = [task EXCEPT ![t] = [pc |-> pc, copies |-> copies, pin |-> pin]]
Return(t)               == task' = [task EXCEPT ![t] = Idle]

Hand(t, tok, leased) == IF leased THEN Now(t, "lease", {tok}, tok)
                         ELSE Now(t, "clone", {tok}, NoToken)

-----------------------------------------------------------------------------
(* Calls on the bindings' object.                                          *)

\* A verb of a WorkspaceMemory, or of the Workspace: it holds the WorkspaceState
\* from here to its return.
Enter(t) ==
  /\ task[t].pc = "idle" /\ ~closed
  /\ Now(t, "checked", {}, NoToken)
  /\ UNCHANGED <<onDisk, other, pooled, closed>>

\* acquire finds the entry.
Hit(t, n, leased) ==
  /\ task[t].pc = "checked"
  /\ \E tok \in Open :
       /\ tok[1] = n
       /\ pooled' = [pooled EXCEPT ![tok] = [age |-> 0, active |-> IF leased THEN @.active + 1
                                                                 ELSE @.active]]
       /\ Hand(t, tok, leased)
  /\ UNCHANGED <<onDisk, other, closed>>

\* acquire makes room and opens; a read does not create what is missing.
Miss(t, n, leased, create) ==
  /\ task[t].pc = "checked"
  /\ \A tok \in Open : tok[1] # n
  /\ n \in onDisk \/ create
  /\ ~Locked(n)
  /\ \E tok \in Tokens, p \in Room :
       /\ tok[1] = n /\ \A u \in Tasks : task[u].pin # tok
       /\ pooled' = With(p, tok, [age |-> 0, active |-> IF leased THEN 1 ELSE 0])
       /\ Hand(t, tok, leased)
  /\ onDisk' = onDisk \cup {n}
  /\ UNCHANGED <<other, closed>>

\* Busy, or an error of the open: room has been made all the same.
OpenFails(t, n) ==
  /\ task[t].pc = "checked"
  /\ \A tok \in Open : tok[1] # n
  /\ pooled' \in Room
  /\ Return(t)
  /\ UNCHANGED <<onDisk, other, closed>>

\* NoSuchDatabase, AtCapacity, InUse, or a call that touches no database.
Refused(t) ==
  /\ task[t].pc = "checked"
  /\ Return(t)
  /\ UNCHANGED <<onDisk, other, pooled, closed>>

\* A bug DropLease must not have: the entry made evictable first.
DropLeaseLate(t) ==
  /\ task[t].pc = "lease"
  /\ pooled' = IF task[t].pin \in Open
             THEN [pooled EXCEPT ![task[t].pin].active = @ - 1] ELSE pooled
  /\ Now(t, "lease", task[t].copies, NoToken)
  /\ UNCHANGED <<onDisk, other, closed>>

\* WorkspaceLease::drop, first half: the copy goes.
DropLease(t) ==
  /\ task[t].pc = "lease"
  /\ Now(t, "dropped", {}, task[t].pin)
  /\ UNCHANGED <<onDisk, other, pooled, closed>>

\* Second half: the entry that has the lease's token, if there still is one.
Unpin(t) ==
  /\ task[t].pc = "dropped"
  /\ pooled' = IF task[t].pin \in Open
             THEN [pooled EXCEPT ![task[t].pin].active = @ - 1] ELSE pooled
  /\ Return(t)
  /\ UNCHANGED <<onDisk, other, closed>>

\* A caller of Workspace::get drops its clone.
DropClone(t) ==
  /\ task[t].pc = "clone"
  /\ Return(t)
  /\ UNCHANGED <<onDisk, other, pooled, closed>>

Stale == {tok \in Open : pooled[tok].active = 0 /\ pooled[tok].age >= Timeout}

\* A bug CloseIdle must not have: nothing comes out.
CloseIdleNever(t) ==
  /\ task[t].pc = "checked"
  /\ Return(t)
  /\ UNCHANGED <<onDisk, other, pooled, closed>>

\* The idle entries leave the pool under its lock and are dropped without it.
CloseIdle(t) ==
  /\ task[t].pc = "checked" /\ Timeout > 0
  /\ Now(t, "closing", Stale, NoToken)
  /\ pooled' = Without(pooled, Stale)
  /\ UNCHANGED <<onDisk, other, closed>>

Release(t, n) ==
  /\ task[t].pc = "checked"
  /\ \E tok \in Open : /\ tok[1] = n /\ pooled[tok].active = 0
                       /\ pooled' = Without(pooled, {tok})
                       /\ Now(t, "closing", {tok}, NoToken)
  /\ UNCHANGED <<onDisk, other, closed>>

DropClosing(t) ==
  /\ task[t].pc = "closing"
  /\ IF task[t].copies = {} THEN Return(t)
     ELSE \E tok \in task[t].copies : task' = [task EXCEPT ![t].copies = @ \ {tok}]
  /\ UNCHANGED <<onDisk, other, pooled, closed>>

\* WorkspaceState::close: the flag, and then close_all, which looks at no lease.
Close(t) ==
  /\ task[t].pc = "idle" /\ ~closed
  /\ closed' = TRUE
  /\ Now(t, "closeAll", {}, NoToken)
  /\ UNCHANGED <<onDisk, other, pooled>>

CloseAll(t) ==
  /\ task[t].pc = "closeAll"
  /\ Now(t, "closing", Open, NoToken)
  /\ pooled' = Without(pooled, Open)
  /\ UNCHANGED <<onDisk, other, closed>>

\* The last verb under way lets go of the closed WorkspaceState, pool and all:
\* a verb that had passed the flag may have opened a database since CloseAll.
Gone ==
  /\ closed /\ Open # {} /\ \A t \in Tasks : task[t].pc = "idle"
  /\ pooled' = Without(pooled, Open)
  /\ UNCHANGED <<onDisk, other, task, closed>>

-----------------------------------------------------------------------------
(* The clock and the other process.                                        *)

PoolTick ==
  /\ \E tok \in Open : pooled[tok].age < Timeout
  /\ pooled' = [tok \in Open |-> IF pooled[tok].age < Timeout
                               THEN [pooled[tok] EXCEPT !.age = @ + 1] ELSE pooled[tok]]
  /\ UNCHANGED <<onDisk, other, task, closed>>

OtherOpens(n) ==
  /\ ~Locked(n)
  /\ other' = other \cup {n} /\ onDisk' = onDisk \cup {n}
  /\ UNCHANGED <<pooled, task, closed>>

OtherCloses(n) ==
  /\ n \in other
  /\ other' = other \ {n}
  /\ UNCHANGED <<onDisk, pooled, task, closed>>

-----------------------------------------------------------------------------
PoolInit ==
  /\ onDisk \in SUBSET Names
  /\ other = {}
  /\ pooled = <<>>
  /\ task = [t \in Tasks |-> Idle]
  /\ closed = FALSE

Acquire(t, n) == \E leased \in BOOLEAN : \/ Hit(t, n, leased)
                                         \/ \E create \in BOOLEAN : Miss(t, n, leased, create)
Begin(t)      == Enter(t) \/ Close(t)
Choose(t)     == \/ \E n \in Names : Acquire(t, n) \/ OpenFails(t, n) \/ Release(t, n)
                 \/ Refused(t) \/ CloseIdle(t)
Finish(t)     == DropLease(t) \/ Unpin(t) \/ DropClosing(t) \/ CloseAll(t)
Outside       == PoolTick \/ \E n \in Names : OtherOpens(n) \/ OtherCloses(n)

PoolNext == Outside \/ Gone \/ \E t \in Tasks : Begin(t) \/ Choose(t) \/ Finish(t) \/ DropClone(t)

\* A verb under way is a running thread, and the clock runs.  Nobody must begin
\* one, and a caller may keep a clone.
PoolFairness == /\ WF_poolVars(PoolTick) /\ WF_poolVars(Gone)
                /\ \A t \in Tasks : WF_poolVars(Choose(t)) /\ WF_poolVars(Finish(t))

PoolSpec == PoolInit /\ [][PoolNext]_poolVars /\ PoolFairness

-----------------------------------------------------------------------------
(* Properties.                                                             *)

\* The type of the variables; what another process has open nobody here has.
WorkspaceTypeOK ==
  /\ onDisk \subseteq Names /\ other \subseteq onDisk
  /\ Open \subseteq Tokens /\ \A tok \in Open : pooled[tok] \in Pooled
  /\ task \in [Tasks -> TaskState]
  /\ closed \in BOOLEAN
  /\ \A tok \in Referenced : tok[1] \notin other

\* An entry counts exactly the leases on it, those half dropped included: one
\* too few lets a database in use be evicted, one too many keeps it for good.
ActiveCounts ==
  \A tok \in Open : pooled[tok].active = Cardinality({t \in Tasks : task[t].pin = tok})

\* "While it lives, its entry cannot be evicted, swept as idle or explicitly
\* released" (workspace.rs:447-448): a lease's copy is never the only one, so the
\* pool never meets the lock of a database of which it has lost sight.  Closing
\* the whole workspace is the exception.
PinHolds ==
  closed \/ \A t \in Tasks : task[t].pc = "lease" => task[t].copies \subseteq Open

\* The ceiling counts the pool and, until the workspace is closed, every
\* database a lease has open.
WithinCeiling ==
  /\ Cardinality(Open) <= Ceiling
  /\ ~closed => Cardinality(Open \cup UNION {task[t].copies : t \in {u \in Tasks :
                                              task[u].pc = "lease"}}) <= Ceiling

\* "liveness knob" (workspace.rs:366): if the host keeps sweeping, a database
\* nobody asks for any more gets free for other processes, whatever leases it had.
IdleLetsGo ==
  \A n \in Names :
    /\ <>[][\A t \in Tasks : ~Acquire(t, n)]_poolVars
    /\ <>[](\A t \in Tasks : task[t].pc # "clone")
    /\ []<><<\E t \in Tasks : CloseIdle(t)>>_poolVars
    => []<>(~Alive(n))

\* "its lock is released when that verb returns" (plugmem-napi/src/workspace.rs:498-499):
\* a closed workspace lets go of everything, although a verb that passed the flag
\* before it fell may open a database after close_all.
CloseLetsGo ==
  <>[](\A t \in Tasks : task[t].pc # "clone") => [](closed => <>(Referenced = {}))

\* A database is let go of when it is idle, and when the workspace is closed.
PoolLetsGo == IdleLetsGo /\ CloseLetsGo
=============================================================================
