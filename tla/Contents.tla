------------------------------ MODULE Contents ------------------------------
(***************************************************************************)
(* A database as its callers see it, for the programs around the engine:   *)
(* the facts by number, "tagged" or "plain" while they are current, and    *)
(* whether the edge is open.  The verbs are plugmem-host's Database; Engine *)
(* and Database have them in full.                                         *)
(***************************************************************************)
EXTENDS Naturals, Sequences

Blank == [facts |-> <<>>, linked |-> FALSE]

Current(c) == {i \in DOMAIN c.facts : c.facts[i] \in {"tagged", "plain"}}

Found(c, id) == id \in DOMAIN c.facts /\ c.facts[id] # "gone"

Remembered(c, n) == [c EXCEPT !.facts = @ \o [i \in 1..n |-> "tagged"]]

\* Nothing when the engine refuses: the fact is not current.
Revised(c, id) ==
  IF id \in Current(c) THEN {[Remembered(c, 1) EXCEPT !.facts[id] = "closed"]} ELSE {}

Forgotten(c, id) == IF Found(c, id) THEN [c EXCEPT !.facts[id] = "gone"] ELSE c

Untagged(c) ==
  [c EXCEPT !.facts = [i \in DOMAIN @ |-> IF @[i] = "tagged" THEN "plain" ELSE @[i]]]

Linked(c) == [c EXCEPT !.linked = TRUE]

Unlinked(c) == [c EXCEPT !.linked = FALSE]

\* b holds what a held, or what became of it.
Kept(a, b) ==
  \A i \in DOMAIN a.facts :
    /\ i \in DOMAIN b.facts
    /\ a.facts[i] = b.facts[i] \/ i \in Current(a) \/ b.facts[i] = "gone"
=============================================================================
