------------------------------ MODULE MCVerbs ------------------------------
(***************************************************************************)
(* Database for TLC, twice: "durable" lets crashes fall in the middle of   *)
(* a journal's clearing and takes the verbs whose records replay without   *)
(* effect over a snapshot that has them; "every" has all verbs.            *)
(***************************************************************************)
EXTENDS MCDatabase

VARIABLES focus,
          promised   \* what DurableMemory speaks of: [view, kept]

Durable == INSTANCE Database WITH Verbs <- Idempotent, Edges <- {},
             Faults <- {"commit", "clear", "crashUncleared"}
Every   == INSTANCE Database WITH MaxJournal <- 2

\* What reopening gives and what a crash may leave; with every verb, where the
\* promise is not kept (DatabaseStale is the counterexample), a constant.
Seen(view, kept) == IF focus = "durable" THEN [view |-> view, kept |-> kept]
                    ELSE [view |-> Loaded(EmptyMemory), kept |-> {Loaded(EmptyMemory)}]

VerbsInit == /\ Init /\ focus \in {"durable", "every"}
             /\ promised = Seen(Restored, Kept)

Untagged(m) == \A id \in DOMAIN m.aux : m.aux[id] = {}

VerbsNext ==
  /\ \/ focus = "durable" /\ Durable!Next /\ Untagged(mem')
     \/ focus = "every"   /\ Every!Next
  /\ UNCHANGED focus
  /\ promised' = IF UNCHANGED <<image, journal, synced>> THEN promised ELSE Seen(Restored', Kept')

VerbsSpec == VerbsInit /\ [][VerbsNext]_<<vars, focus, promised>>

\* What verbs do to a stranded engine is explored in "durable" only.
Explored == ~stranded \/ focus = "durable"

\* The promise of module DurableMemory, kept through every step of a checkpoint,
\* a reembed and a reopen and a crash between any two: what a reopen gives never
\* changes but by a verb, and a crash undoes at most what was not yet durable.
Promise == INSTANCE DurableMemory WITH view <- promised.view, kept <- promised.kept,
                                       Opens <- LAMBDA load : load.ok
KeepsPromise == Promise!Spec
=============================================================================
