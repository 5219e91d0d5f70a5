------------------------------ MODULE MCMemory ------------------------------
(* Memory, and the snapshots of it, on small inputs for TLC.               *)
EXTENDS Image

CONSTANTS e1

\* A remember with no link, with one, and with one before a target that no
\* entity can be made of.
MCBadLinks == {<<>>, <<e1>>, <<e1, BadName>>}
=============================================================================
