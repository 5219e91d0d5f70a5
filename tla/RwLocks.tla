------------------------------ MODULE RwLocks ------------------------------
(***************************************************************************)
(* std::sync::RwLock as the standard library implements it on Linux, for   *)
(* the locks of plugmem-host and of the bindings.                          *)
(***************************************************************************)
EXTENDS FiniteSets

\* A reader that finds the lock read-locked queues behind a waiting writer, so
\* that writers do not starve; of a free lock either may get hold first.
MayLock(mode, readers, writers, waiting) ==
  /\ writers = {}
  /\ IF mode = "write" THEN readers = {} ELSE readers = {} \/ waiting = {}
=============================================================================
