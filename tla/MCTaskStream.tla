---------------------------- MODULE MCTaskStream -----------------------------
(* Two clients: a run command and a viewer that share the key, or a viewer *)
(* and a prompt of the bridge.                                             *)
EXTENDS TaskStream

CONSTANTS c1, c2

MCKinds == {[c \in {c1, c2} |-> IF c = c1 THEN k[1] ELSE k[2]] : k \in {<<"run", "viewer">>, <<"viewer", "prompt">>}}
=============================================================================
