--------------------------- MODULE MCMeshDispatch ---------------------------
(* Small instances of MeshDispatch for TLC.                                *)
EXTENDS MeshDispatch

CONSTANTS a, b

\* One slot and one queue place on each node; only node 1 has b's agent.
MCSupports == {<<a, 1>>, <<a, 2>>, <<b, 1>>}
MCOne == [n \in Nodes |-> 1]

\* a may be retried once, b never.
MCMaxRetries == [t \in Tasks |-> IF t = a THEN 1 ELSE 0]
=============================================================================
