------------------------------- MODULE MCHost -------------------------------
(***************************************************************************)
(* Gate, Workspace, PyHandle and NodeHandle for TLC.  They share no state, *)
(* so a behaviour follows one of them (focus) and the others stand still.  *)
(***************************************************************************)
EXTENDS Gate, Workspace, PyHandle, NodeHandle

VARIABLE focus

\* An export of a Plugmem's fits the queue here; what happens when it does not is
\* HostStuck's.
Fitting    == [direct |-> 1, named |-> 3]
Outrunning == [direct |-> 3, named |-> 3]

hostVars == <<gateVars, poolVars, pyVars, nodeVars, focus>>

HostInit ==
  /\ focus \in {"gate", "workspace", "python", "node"}
  /\ GateInit /\ PoolInit /\ PyInit /\ NodeInit
  /\ policy = "Fail" => retry = "Manual"  \* a failing verb consults no retry
  /\ focus # "gate" => /\ policy = "Fail" /\ provider = NoSpace /\ space = NoSpace /\ pool = {}
  /\ focus # "workspace" => onDisk = {}
  /\ focus # "python" => content = "writer"
  /\ focus # "node" => nodeSurface = "named"

HostNext ==
  /\ \/ focus = "gate"      /\ GateNext /\ UNCHANGED <<poolVars, pyVars, nodeVars>>
     \/ focus = "workspace" /\ PoolNext /\ UNCHANGED <<gateVars, pyVars, nodeVars>>
     \/ focus = "python"    /\ PyNext /\ UNCHANGED <<gateVars, poolVars, nodeVars>>
     \/ focus = "node"      /\ NodeNext /\ UNCHANGED <<gateVars, poolVars, pyVars>>
  /\ UNCHANGED focus

HostSpec == HostInit /\ [][HostNext]_hostVars /\ GateFairness /\ PoolFairness

\* No call on a handle stands still for good.
NeverStuck == PyMoves /\ NodeMoves
=============================================================================
