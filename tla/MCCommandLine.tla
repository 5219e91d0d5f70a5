--------------------------- MODULE MCCommandLine ---------------------------
(* The command line on a few commands, for TLC.                            *)
EXTENDS CommandLine

Command(verb, id) == [verb |-> verb, id |-> id]

\* An import of two batches, the second one short; the verbs on the first fact.
MCStartable ==
  {Command(v, 0) : v \in {"remember", "guarded", "remove_tag", "link", "unlink", "maintain",
                          "recall", "tags", "repl", "repl_ro", "scrub", "recover"}}
  \cup {Command(v, 1) : v \in {"revise", "forget", "show"}} \cup {Command("import", 3)}
=============================================================================
