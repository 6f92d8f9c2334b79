----------------------------- MODULE EventFeed ------------------------------
(***************************************************************************)
(* What a published log promises to its readers, whatever carries it: the  *)
(* log only grows, a reader attaches at a position of its choice, and from *)
(* then on its view is the log from that position on, event by event, with *)
(* no gap, no duplicate and no reordering, until the publisher declares    *)
(* the reader lossy or the reader is detached.  JoinLog implements it with *)
(* the subscriptions of pkg/joinlog.                                       *)
(***************************************************************************)
EXTENDS Naturals, Sequences

CONSTANT Readers

VARIABLES
    log,        \* what has been published
    from,       \* the position each reader has chosen
    view,       \* what each reader was given: read or on its way
    mode        \* "off", "on", "lossy" or "gone"

vars == <<log, from, view, mode>>

Init ==
    /\ log = <<>>
    /\ from = [r \in Readers |-> 0]
    /\ view = [r \in Readers |-> <<>>]
    /\ mode = [r \in Readers |-> "off"]

\* A lossy reader may miss any event; a reader becomes lossy by missing one.
Given(r, e) ==
    \/ mode[r] \in {"on", "lossy"} /\ view'[r] = Append(view[r], e) /\ mode'[r] = mode[r]
    \/ mode[r] \in {"on", "lossy"} /\ view'[r] = view[r] /\ mode'[r] = "lossy"
    \/ mode[r] \in {"off", "gone"} /\ view'[r] = view[r] /\ mode'[r] = mode[r]

Publish ==
    /\ Len(log') = Len(log) + 1 /\ SubSeq(log', 1, Len(log)) = log
    /\ DOMAIN view' = Readers /\ DOMAIN mode' = Readers
    /\ \A r \in Readers : Given(r, log'[Len(log')])
    /\ UNCHANGED from

Choose(r) ==
    /\ mode[r] = "off" /\ from' = [from EXCEPT ![r] = from'[r]]
    /\ UNCHANGED <<log, view, mode>>

\* A position beyond the end of the log has nothing after it yet.
Attach(r) ==
    /\ mode[r] = "off" /\ mode' = [mode EXCEPT ![r] = "on"]
    /\ view' = [view EXCEPT ![r] = SubSeq(log, from[r] + 1, Len(log))]
    /\ UNCHANGED <<log, from>>

\* Readers go away; a publisher that comes back from a backup has lost its tail.
Detach(R) ==
    /\ mode' = [r \in Readers |-> IF r \in R THEN "gone" ELSE mode[r]]
    /\ view' = [r \in Readers |-> IF r \in R THEN <<>> ELSE view[r]]
    /\ \/ UNCHANGED log
       \/ /\ \A r \in Readers \ R : mode[r] \in {"off", "gone"}
          /\ \E n \in 0 .. Len(log) : log' = SubSeq(log, 1, n)
    /\ UNCHANGED from

Next == Publish \/ (\E r \in Readers : Choose(r) \/ Attach(r)) \/ (\E R \in SUBSET Readers : Detach(R))

Spec == Init /\ [][Next]_vars
=============================================================================
