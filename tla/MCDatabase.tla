----------------------------- MODULE MCDatabase -----------------------------
(* Database on small contents, for TLC.                                    *)
EXTENDS Database

\* The verbs whose records replay without effect over a snapshot that has them.
Idempotent == {"Remember", "Revise", "Forget"}

Interchangeable == Permutations(Tags) \cup Permutations(Spaces)
=============================================================================
