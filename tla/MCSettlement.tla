---------------------------- MODULE MCSettlement ----------------------------
(* Small instances of Settlement for TLC.                                  *)
EXTENDS Settlement

CONSTANTS c1, c2, s1, s2, a

\* Both contracts come from one emitter: they share a chain.
MCEmitterOf == [c \in Contracts |-> a]

\* Every lease is of the first one.
MCLeaseFor == [l \in LeaseIds |-> c1]

\* All pass, one could not be evaluated.
MCEvaluations == {{"PASS"}, {"PASS", "ERROR"}}
=============================================================================
