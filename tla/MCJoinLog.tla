------------------------------ MODULE MCJoinLog -----------------------------
(* Small instances of JoinLog for TLC.                                     *)
EXTENDS JoinLog

CONSTANTS w1, w2

\* w1 may join again, after a 404 or as a new process.
MCMaxJoins == [w \in Workers |-> IF w = w1 THEN 2 ELSE 1]
=============================================================================
