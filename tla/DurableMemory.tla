--------------------------- MODULE DurableMemory ---------------------------
(***************************************************************************)
(* What a database promises its caller (the crash contract of              *)
(* specs/03-snapshot.md and specs/06-host.md), whatever its files are:     *)
(* there is one contents to see; a crash falls back to one of the contents *)
(* since the last durable point, never to anything else; housekeeping      *)
(* (checkpoint, journal clear, reopen) changes none of it.                 *)
(***************************************************************************)
CONSTANT Opens(_)    \* contents a database can be opened with

VARIABLES
  view,  \* what a reader sees, or would see if the database were open
  kept   \* what a crash may leave

vars == <<view, kept>>

Init == Opens(view) /\ kept = {view}

\* A verb: new contents, which a crash may still undo.
Write == Opens(view') /\ view' \in kept' /\ kept' \subseteq kept \cup {view'}

\* Some of what could have been lost can be lost no more.
Settle == view' = view /\ view \in kept' /\ kept' \subseteq kept

Crash == view' \in kept /\ kept' = {view'}

Next == Write \/ Settle \/ Crash

Spec == Init /\ [][Next]_vars
=============================================================================
