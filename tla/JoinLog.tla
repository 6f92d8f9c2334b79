------------------------------ MODULE JoinLog -------------------------------
(***************************************************************************)
(* How a node joins the mesh and stays informed of it: the hash-chained    *)
(* join log and its subscriptions (pkg/joinlog/joinlog.go), the projection *)
(* and its snapshots (projector.go, snapshot.go), the handler of           *)
(* POST /v1/mesh/join, the snapshot and event endpoints (http.go) and the  *)
(* worker that joins, catches up, listens and beats (client.go, runWorker).*)
(*                                                                         *)
(* Only node.joined events are ever appended by the program.  An event is  *)
(* identified by the request that caused it and its payload is the         *)
(* incarnation of the worker that sent it (endpoint, role, key and tags).  *)
(* A hash is the chain of identifiers it commits to: hashes are equal      *)
(* exactly when the histories below them are.                              *)
(***************************************************************************)
EXTENDS Naturals, SequencesExt

CONSTANTS
    Workers,
    MaxJoins,       \* bound: how many join requests each worker sends
    BufMin,         \* smallest capacity of a subscriber's channel (128)
    BufExtra,       \* room left beyond the history (64)
    MaxFaults,      \* bound: disturbances from outside
    None

\* A join request, and the event stream the worker opens after it.
Requests == UNION {{w} \X (1 .. MaxJoins[w]) : w \in Workers}

ASSUME JoinLogAssumption ==
    /\ MaxJoins \in [Workers -> Nat \ {0}] /\ MaxFaults \in Nat
    /\ BufMin \in Nat \ {0} /\ BufExtra \in Nat \ {0}
    /\ None \notin Nat /\ None \notin Seq(Requests)

VARIABLES
    log,        \* table join_log
    proj,       \* table proj_nodes
    registry,   \* Registry.nodes
    tx,         \* the head each open BEGIN IMMEDIATE has read, under Log.mu
    req,        \* progress of handleMeshJoin for each request
    payload,    \* the payload of each request
    worker,     \* where runWorker is
    life,       \* incarnation of the worker process
    snap,       \* the snapshot the worker holds
    stream,     \* progress of HandleEvents for each stream
    cursor,     \* its Last-Event-ID
    chan,       \* its channel in Log.subscribers
    size,       \* the capacity of that channel
    got,        \* what the worker has read from it
    dropped,    \* the channel was full once
    blind,      \* its cursor was beyond the end of the log
    faults

serverVars == <<log, proj, registry, tx, req>>
streamVars == <<stream, cursor, chan, size, got, dropped, blind>>
workerVars == <<worker, life, payload, snap>>
vars == <<log, proj, registry, tx, req, payload, worker, life, snap,
          stream, cursor, chan, size, got, dropped, blind, faults>>

\* Nobody is inside Append, which holds Log.mu throughout.
MuFree == \A r \in Requests : tx[r] = None

Fault == faults < MaxFaults /\ faults' = faults + 1

-----------------------------------------------------------------------------
(* The log and its projection.                                             *)

\* The content of the event is cleared of its own hash, never of its link.
ComputeEventHash(id, prev) == Append(prev, id)

HeadPosition == IF log = <<>> THEN [seq |-> 0, hash |-> <<>>]
                ELSE [seq |-> Len(log), hash |-> Last(log).hash]

EventsSince(since) == SubSeq(log, since + 1, Len(log))

\* The first broken link, fork or altered event refuses the whole chain.
VerifyChain(events) ==
    \A i \in 1 .. Len(events) :
        /\ events[i].prev = (IF i = 1 THEN <<>> ELSE events[i - 1].hash)
        /\ events[i].hash = ComputeEventHash(events[i].id, events[i].prev)

\* Mutant: the row is keyed by the event and not by its node.
ProjectEventPerJoin(rows, e) == (e.id :> e.payload) @@ rows
\* UPSERT of the node's row.
ProjectEvent(rows, e) == [rows EXCEPT ![e.id[1]] = e.payload]

\* Replay of the first n events over empty tables: a row is its node's last upsert.
LastJoin(w, n) == {i \in 1 .. n : log[i].id[1] = w /\ \A j \in i + 1 .. n : log[j].id[1] # w}
Replay(n) == [w \in Workers |-> IF LastJoin(w, n) = {} THEN None
                                ELSE log[CHOOSE i \in LastJoin(w, n) : TRUE].payload]

\* Mutant: the history starts with the event the cursor is at.
SubscribeInclusive(r) ==
    /\ stream[r] = "subscribe" /\ MuFree
    /\ stream' = [stream EXCEPT ![r] = "open"]
    /\ LET history == EventsSince(IF cursor[r].seq = 0 THEN 0 ELSE cursor[r].seq - 1)
       IN  /\ chan' = [chan EXCEPT ![r] = history]
           /\ size' = [size EXCEPT ![r] = IF Len(history) + BufExtra > BufMin
                                          THEN Len(history) + BufExtra ELSE BufMin]
    /\ UNCHANGED <<serverVars, workerVars, cursor, got, dropped, blind, faults>>
\* History and registration under Log.mu: no append falls between them.
Subscribe(r) ==
    /\ stream[r] = "subscribe" /\ MuFree
    /\ stream' = [stream EXCEPT ![r] = "open"]
    /\ LET history == EventsSince(cursor[r].seq)
       IN  /\ chan' = [chan EXCEPT ![r] = history]
           /\ size' = [size EXCEPT ![r] = IF Len(history) + BufExtra > BufMin
                                          THEN Len(history) + BufExtra ELSE BufMin]
    /\ UNCHANGED <<serverVars, workerVars, cursor, got, dropped, blind, faults>>

\* Append's last step, still under Log.mu: a full channel misses the event.
Broadcast(e) ==
    LET fits(r) == Len(chan[r]) < size[r]
    IN  /\ chan' = [r \in Requests |-> IF stream[r] = "open" /\ fits(r) THEN Append(chan[r], e) ELSE chan[r]]
        /\ dropped' = [r \in Requests |-> dropped[r] \/ (stream[r] = "open" /\ ~fits(r))]

-----------------------------------------------------------------------------
(* handleMeshJoin.                                                         *)

Progress(r, where) == req' = [req EXCEPT ![r] = where]

\* Mutant: the head is read without the write lock.
BeginUnlocked(r) ==
    /\ req[r] = "append"
    /\ tx' = [tx EXCEPT ![r] = HeadPosition.hash]
    /\ Progress(r, "insert")
    /\ UNCHANGED <<log, proj, registry, workerVars, streamVars, faults>>
\* Log.mu, a connection, BEGIN IMMEDIATE and the read of the head.
BeginAppend(r) ==
    /\ req[r] = "append" /\ MuFree
    /\ tx' = [tx EXCEPT ![r] = HeadPosition.hash]
    /\ Progress(r, "insert")
    /\ UNCHANGED <<log, proj, registry, workerVars, streamVars, faults>>

\* UNIQUE(prev_hash) is the safeguard behind the two locks: it refuses the row.
LinkTaken(prev) == \E i \in 1 .. Len(log) : log[i].prev = prev

CommitAppend(r) ==
    /\ req[r] = "insert"
    /\ LET e == [id |-> r, seq |-> Len(log) + 1, payload |-> payload[r],
                 prev |-> tx[r], hash |-> ComputeEventHash(r, tx[r])]
       IN  IF LinkTaken(tx[r])
           THEN Progress(r, "failed") /\ UNCHANGED <<log, chan, dropped>>
           ELSE Progress(r, "project") /\ log' = Append(log, e) /\ Broadcast(e)
    /\ tx' = [tx EXCEPT ![r] = None]
    /\ UNCHANGED <<proj, registry, workerVars, stream, cursor, size, got, blind, faults>>

\* 500 before anything was written: a database error, or the client that left.
AppendFails(r) ==
    /\ req[r] \in {"append", "insert"} /\ Fault
    /\ tx' = [tx EXCEPT ![r] = None]
    /\ Progress(r, "failed")
    /\ UNCHANGED <<log, proj, registry, workerVars, streamVars>>

\* ProjectEvent gets the event with the head's position, which it does not use.
Project(r) ==
    /\ req[r] = "project"
    /\ proj' = ProjectEvent(proj, [id |-> r, payload |-> payload[r]])
    /\ Progress(r, "register")
    /\ UNCHANGED <<log, registry, tx, workerVars, streamVars, faults>>

ProjectFails(r) ==
    /\ req[r] = "project" /\ Fault
    /\ Progress(r, "failed")
    /\ UNCHANGED <<log, proj, registry, tx, workerVars, streamVars>>

RegisterNode(r) ==
    /\ req[r] = "register"
    /\ registry' = [registry EXCEPT ![r[1]] = payload[r]]
    /\ Progress(r, "ok")
    /\ UNCHANGED <<log, proj, tx, workerVars, streamVars, faults>>

-----------------------------------------------------------------------------
(* The worker.                                                             *)

Sent(w) == Cardinality({k \in 1 .. MaxJoins[w] : req[<<w, k>>] # "none"})
Current(w) == <<w, Sent(w)>>
Goto(w, where) == worker' = [worker EXCEPT ![w] = where]

SendJoin(w, inc) ==
    /\ Sent(w) < MaxJoins[w]
    /\ req' = [req EXCEPT ![<<w, Sent(w) + 1>>] = "append"]
    /\ payload' = [payload EXCEPT ![<<w, Sent(w) + 1>>] = inc]

StartWorker(w) ==
    /\ worker[w] = "down"
    /\ life' = [life EXCEPT ![w] = @ + 1]
    /\ SendJoin(w, life[w] + 1)
    /\ Goto(w, "joining")
    /\ UNCHANGED <<log, proj, registry, tx, snap, streamVars, faults>>

\* The first join must be accepted; a refused rejoin waits for the next beat.
Unanswered(w) == Goto(w, IF worker[w] = "joining" THEN "down" ELSE "up")

JoinAnswered(w) ==
    /\ worker[w] \in {"joining", "rejoining"}
    /\ \/ req[Current(w)] = "ok" /\ Goto(w, "head")
       \/ req[Current(w)] = "failed" /\ Unanswered(w)
    /\ UNCHANGED <<serverVars, life, payload, snap, streamVars, faults>>

\* The worker gives up on a request the coordinator may still carry out.
JoinTimesOut(w) ==
    /\ worker[w] \in {"joining", "rejoining"} /\ Fault
    /\ Unanswered(w)
    /\ UNCHANGED <<serverVars, life, payload, snap, streamVars>>

\* CreateSnapshot reads the head of the log ...
SnapshotHead(w) ==
    /\ worker[w] = "head"
    /\ snap' = [snap EXCEPT ![w] = [seq |-> HeadPosition.seq, hash |-> HeadPosition.hash, state |-> None]]
    /\ Goto(w, "state")
    /\ UNCHANGED <<serverVars, life, payload, streamVars, faults>>

\* ... and then the tables; the digest is of what was read, so it verifies.
SnapshotState(w) ==
    /\ worker[w] = "state"
    /\ snap' = [snap EXCEPT ![w].state = proj]
    /\ Goto(w, "up")
    /\ stream' = [stream EXCEPT ![Current(w)] = "anchor"]
    /\ cursor' = [cursor EXCEPT ![Current(w)] = [seq |-> snap[w].seq, hash |-> snap[w].hash]]
    /\ UNCHANGED <<serverVars, life, payload, chan, size, got, dropped, blind, faults>>

\* Without a snapshot the worker goes on in unverified mode, with no stream.
CatchUpFails(w) ==
    /\ worker[w] \in {"head", "state"} /\ Fault
    /\ Goto(w, "up")
    /\ UNCHANGED <<serverVars, life, payload, snap, streamVars>>

\* Mutant: the answer to the heartbeat is not looked at.
HeartbeatIgnored(w) == FALSE /\ UNCHANGED vars
\* A heartbeat answered 404: the coordinator forgot the node.
HeartbeatNotFound(w) ==
    /\ worker[w] = "up" /\ registry[w] = None
    /\ SendJoin(w, life[w])
    /\ Goto(w, "rejoining")
    /\ UNCHANGED <<log, proj, registry, tx, life, snap, streamVars, faults>>

-----------------------------------------------------------------------------
(* HandleEvents and SubscribeEvents.                                       *)

\* What is left of the streams R once both ends are gone.
Close(R) ==
    /\ stream' = [r \in Requests |-> IF r \in R /\ stream[r] # "none" THEN "closed" ELSE stream[r]]
    /\ chan' = [r \in Requests |-> IF r \in R THEN <<>> ELSE chan[r]]
    /\ got' = [r \in Requests |-> IF r \in R THEN <<>> ELSE got[r]]
    /\ dropped' = [r \in Requests |-> dropped[r] /\ r \notin R]
    /\ UNCHANGED <<cursor, size, blind>>

StreamsOf(w) == {r \in Requests : r[1] = w}

Diverges(c) == c.seq \in 1 .. Len(log) /\ log[c.seq].hash # c.hash

\* Mutant: the anchor is parsed and not compared.
AnchorUnchecked(r) ==
    /\ stream[r] = "anchor"
    /\ stream' = [stream EXCEPT ![r] = "subscribe"]
    /\ UNCHANGED <<serverVars, workerVars, cursor, chan, size, got, dropped, blind, faults>>
\* A cursor beyond the end of the log has no event to compare with.
AnchorAccepted(r) ==
    /\ stream[r] = "anchor" /\ ~Diverges(cursor[r])
    /\ stream' = [stream EXCEPT ![r] = "subscribe"]
    /\ blind' = [blind EXCEPT ![r] = cursor[r].seq > Len(log)]
    /\ UNCHANGED <<serverVars, workerVars, cursor, chan, size, got, dropped, faults>>

\* 409: the worker process stops.
AnchorRefused(r) ==
    /\ stream[r] = "anchor" /\ Diverges(cursor[r])
    /\ Goto(r[1], "down")
    /\ Close(StreamsOf(r[1]))
    /\ UNCHANGED <<serverVars, life, payload, snap, faults>>

Deliver(r) ==
    /\ stream[r] = "open" /\ chan[r] # <<>>
    /\ got' = [got EXCEPT ![r] = Append(@, Head(chan[r]))]
    /\ chan' = [chan EXCEPT ![r] = Tail(@)]
    /\ UNCHANGED <<serverVars, workerVars, stream, cursor, size, dropped, blind, faults>>

\* The stream is not opened again (the TODO of runWorker).
StreamCut(r) ==
    /\ stream[r] \in {"anchor", "subscribe", "open"} /\ Fault
    /\ Close({r})
    /\ UNCHANGED <<serverVars, workerVars>>

-----------------------------------------------------------------------------
(* Failures.                                                               *)

WorkerDies(w) ==
    /\ worker[w] # "down" /\ Fault
    /\ Goto(w, "down")
    /\ Close(StreamsOf(w))
    /\ UNCHANGED <<serverVars, life, payload, snap>>

\* The process is gone: handlers, registry and subscribers with it.  NewServer
\* opens the two databases as they are and replays nothing.
Stop ==
    /\ registry' = [w \in Workers |-> None]
    /\ req' = [r \in Requests |-> IF req[r] \in {"none", "ok"} THEN req[r] ELSE "failed"]
    /\ tx' = [r \in Requests |-> None]
    /\ stream' = [r \in Requests |-> IF stream[r] \in {"subscribe", "open"} THEN "closed" ELSE stream[r]]
    /\ chan' = [r \in Requests |-> <<>>] /\ got' = [r \in Requests |-> <<>>]
    /\ dropped' = [r \in Requests |-> FALSE]
    /\ UNCHANGED <<cursor, size, blind>>

CoordinatorRestarts ==
    /\ Fault /\ Stop
    /\ UNCHANGED <<log, proj, workerVars>>

\* The operator brings both databases back to an earlier day.
RestoreBackup ==
    /\ Fault /\ Stop
    /\ \E n \in 0 .. Len(log) - 1 :
           log' = SubSeq(log, 1, n) /\ proj' = Replay(n)
    /\ UNCHANGED workerVars

-----------------------------------------------------------------------------

Init ==
    /\ log = <<>> /\ tx = [r \in Requests |-> None]
    /\ proj = [w \in Workers |-> None] /\ registry = [w \in Workers |-> None]
    /\ req = [r \in Requests |-> "none"] /\ payload = [r \in Requests |-> 0]
    /\ worker = [w \in Workers |-> "down"] /\ life = [w \in Workers |-> 0]
    /\ snap = [w \in Workers |-> None]
    /\ stream = [r \in Requests |-> "none"]
    /\ cursor = [r \in Requests |-> [seq |-> 0, hash |-> <<>>]]
    /\ chan = [r \in Requests |-> <<>>] /\ size = [r \in Requests |-> 0]
    /\ got = [r \in Requests |-> <<>>] /\ dropped = [r \in Requests |-> FALSE]
    /\ blind = [r \in Requests |-> FALSE] /\ faults = 0

HandlerStep(r) == BeginAppend(r) \/ CommitAppend(r) \/ AppendFails(r)
                  \/ Project(r) \/ ProjectFails(r) \/ RegisterNode(r)
WorkerStep(w) == StartWorker(w) \/ JoinAnswered(w) \/ JoinTimesOut(w) \/ SnapshotHead(w)
                 \/ SnapshotState(w) \/ CatchUpFails(w) \/ HeartbeatNotFound(w) \/ WorkerDies(w)
StreamStep(r) == AnchorAccepted(r) \/ AnchorRefused(r) \/ Subscribe(r) \/ Deliver(r) \/ StreamCut(r)

Next ==
    \/ \E r \in Requests : HandlerStep(r) \/ StreamStep(r)
    \/ \E w \in Workers : WorkerStep(w)
    \/ CoordinatorRestarts \/ RestoreBackup

Spec == Init /\ [][Next]_vars

\* A handler and a stream run on, a worker goes on with its catch-up and its
\* heartbeat ticker keeps ticking; nothing makes anyone start a worker.
Fairness ==
    /\ \A r \in Requests :
           /\ WF_vars(BeginAppend(r)) /\ WF_vars(CommitAppend(r))
           /\ WF_vars(Project(r)) /\ WF_vars(RegisterNode(r))
           /\ WF_vars(AnchorAccepted(r)) /\ WF_vars(AnchorRefused(r))
           /\ WF_vars(Subscribe(r)) /\ WF_vars(Deliver(r))
    /\ \A w \in Workers :
           WF_vars(JoinAnswered(w)) /\ WF_vars(SnapshotHead(w)) /\ WF_vars(SnapshotState(w))
           /\ WF_vars(HeartbeatNotFound(w))

FairSpec == Spec /\ Fairness

-----------------------------------------------------------------------------
(* Properties.                                                             *)

Rows == [Workers -> Nat \cup {None}]
Snapshots == [seq : Nat, hash : Seq(Requests), state : Rows \cup {None}]
Events == [id : Requests, seq : Nat, payload : Nat, prev : Seq(Requests), hash : Seq(Requests)]

\* Type invariant.
TypeOK ==
    /\ log \in Seq(Events)
    /\ proj \in Rows /\ registry \in Rows
    /\ tx \in [Requests -> Seq(Requests) \cup {None}]
    /\ req \in [Requests -> {"none", "append", "insert", "project", "register", "ok", "failed"}]
    /\ payload \in [Requests -> Nat] /\ life \in [Workers -> Nat]
    /\ worker \in [Workers -> {"down", "joining", "rejoining", "head", "state", "up"}]
    /\ snap \in [Workers -> Snapshots \cup {None}]
    /\ stream \in [Requests -> {"none", "anchor", "subscribe", "open", "closed"}]
    /\ cursor \in [Requests -> [seq : Nat, hash : Seq(Requests)]]
    /\ chan \in [Requests -> Seq(Events)] /\ got \in [Requests -> Seq(Events)]
    /\ size \in [Requests -> Nat] /\ dropped \in [Requests -> BOOLEAN]
    /\ blind \in [Requests -> BOOLEAN] /\ faults \in 0 .. MaxFaults

\* J2 of RFC-003: the log is one linear chain whatever joins race, and none of
\* them is refused because of another: a join fails only by a disturbance.
\* "JoinLog FIRST, Registry SECOND" (handlers.go:410): a node of the registry is
\* in that chain with the very payload it is registered with, and is projected.
JoinsSerialize ==
    /\ VerifyChain(log)
    /\ faults = 0 => \A r \in Requests : req[r] # "failed"
    /\ \A w \in Workers : registry[w] # None =>
           /\ \E i \in 1 .. Len(log) : log[i].id[1] = w /\ log[i].payload = registry[w]
           /\ proj[w] # None

\* A stream never goes on from the history of another chain: what follows the
\* cursor of a worker is linked to the event the worker named, provided the
\* log still had an event at that position when the anchor was checked.
AnchorContinuity ==
    \A r \in Requests :
        LET seen == got[r] \o chan[r]
        IN  stream[r] = "open" /\ ~blind[r] /\ seen # <<>> /\ cursor[r].seq > 0 /\ seen[1].seq = cursor[r].seq + 1
                => seen[1].prev = cursor[r].hash

\* The abstract feed: what is in a worker's hands or in its channel.
FeedView == [r \in Requests |-> got[r] \o chan[r]]
FeedMode == [r \in Requests |->
    CASE stream[r] = "open" -> IF dropped[r] THEN "lossy" ELSE "on"
      [] stream[r] = "closed" -> "gone"
      [] OTHER -> "off"]
Feed == INSTANCE EventFeed WITH Readers <- Requests, view <- FeedView, mode <- FeedMode,
                                from <- [r \in Requests |-> cursor[r].seq]

\* J4 of RFC-003 as far as it holds: the subscriptions implement the abstract
\* feed, which loses an event only of a channel that was full.
FeedSpec == Feed!Spec

\* A worker the coordinator forgot is registered again, by its own heartbeats,
\* once nothing disturbs it any more.
Rejoins ==
    \A w \in Workers :
        worker[w] = "up" /\ registry[w] = None /\ Sent(w) < MaxJoins[w] /\ faults = MaxFaults
            ~> registry[w] # None \/ worker[w] = "down"
=============================================================================
