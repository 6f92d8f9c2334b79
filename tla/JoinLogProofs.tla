---------------------------- MODULE JoinLogProofs ----------------------------
(***************************************************************************)
(* Theorems about JoinLog, for any workers, numbers of joins, capacities   *)
(* and disturbances, and that its subscriptions implement EventFeed.       *)
(***************************************************************************)
EXTENDS JoinLog, SequenceTheorems, FiniteSetTheorems, TLAPS

-----------------------------------------------------------------------------
(* The inductive invariant.                                                *)

\* The log is a chain, and a hash commits to as many events as its position says.
\* A prefix of it is one, too.
Linked(l) ==
    \A i \in 1 .. Len(l) :
        /\ l[i].seq = i /\ Len(l[i].prev) = i - 1 /\ Len(l[i].hash) = i
        /\ l[i].hash = Append(l[i].prev, l[i].id)
        /\ i = 1 => l[i].prev = <<>>
        /\ i > 1 => l[i].prev = l[i - 1].hash

HeadHash(l) == IF l = <<>> THEN <<>> ELSE l[Len(l)].hash

\* Log.mu and BEGIN IMMEDIATE: the one who has read the head is alone and the
\* head stays what it was.
Exclusive ==
    /\ \A r \in Requests : tx[r] # None => req[r] = "insert" /\ tx[r] = HeadHash(log)
    /\ \A r \in Requests : req[r] = "insert" => tx[r] # None
    /\ \A r, s \in Requests : tx[r] # None /\ tx[s] # None => r = s

\* The event of a request, or one of a worker with a payload, is in the log.
Logged(l, r, p) == \E i \in 1 .. Len(l) : l[i].id = r /\ l[i].payload = p
Known(l, w, p) == \E i \in 1 .. Len(l) : l[i].id[1] = w /\ l[i].payload = p

\* A handler is past the log only with its event in it, past the projection only
\* with a row in it, and fails only by a disturbance.
Handles(r) ==
    /\ req[r] \in {"project", "register"} => Logged(log, r, payload[r])
    /\ req[r] = "register" => proj[r[1]] # None
    /\ req[r] = "failed" => faults # 0

Registers(w) == registry[w] # None => Known(log, w, registry[w]) /\ proj[w] # None

\* A worker's requests are numbered without a gap, none of them has a stream before
\* it is sent, and the last one has none before the worker has caught up.
Counted(w, n) ==
    /\ \A k \in 1 .. MaxJoins[w] : req[<<w, k>>] # "none" <=> k <= n
    /\ \A k \in 1 .. MaxJoins[w] : k > n => stream[<<w, k>>] = "none"
    /\ worker[w] \in {"joining", "rejoining", "head", "state"} => n >= 1 /\ stream[<<w, n>>] = "none"
Numbered(w) == (\E n \in 0 .. MaxJoins[w] : Counted(w, n)) /\ (worker[w] = "state" => snap[w] \in Snapshots)

\* A stream holds nothing but events of the log, and nothing before it is open; the
\* position it was accepted at is in the log unless nobody could compare it.
Holds(s, l) == \A i \in 1 .. Len(s) : s[i].seq \in 1 .. Len(l) /\ s[i] = l[s[i].seq]
Streams(r) ==
    /\ stream[r] # "open" => got[r] = <<>> /\ chan[r] = <<>> /\ ~dropped[r]
    /\ stream[r] = "open" => Holds(got[r], log) /\ Holds(chan[r], log)
    /\ stream[r] \in {"subscribe", "open"} /\ ~blind[r] /\ cursor[r].seq > 0 =>
           cursor[r].seq <= Len(log) /\ log[cursor[r].seq].hash = cursor[r].hash

JoinInv ==
    /\ TypeOK /\ Linked(log) /\ Exclusive
    /\ \A r \in Requests : Handles(r) /\ Streams(r)
    /\ \A w \in Workers : Registers(w) /\ Numbered(w)

-----------------------------------------------------------------------------
(* Requests, the head of the log and what Append does.                     *)

LEMMA RequestIs ==
    /\ \A r \in Requests : r[1] \in Workers /\ r[2] \in 1 .. MaxJoins[r[1]] /\ r = <<r[1], r[2]>>
    /\ \A w \in Workers : \A k \in 1 .. MaxJoins[w] : <<w, k>> \in Requests /\ <<w, k>>[1] = w
<1>1. ASSUME NEW r \in Requests PROVE r[1] \in Workers /\ r[2] \in 1 .. MaxJoins[r[1]] /\ r = <<r[1], r[2]>>
  <2>1. PICK w \in Workers : r \in {w} \X (1 .. MaxJoins[w])
    BY DEF Requests
  <2> QED BY <2>1
<1>2. ASSUME NEW w \in Workers, NEW k \in 1 .. MaxJoins[w] PROVE <<w, k>> \in Requests /\ <<w, k>>[1] = w
  <2>1. <<w, k>> \in {w} \X (1 .. MaxJoins[w])
    OBVIOUS
  <2> QED BY <2>1 DEF Requests
<1> QED BY <1>1, <1>2

LEMMA EventIs ==
    ASSUME TypeOK, NEW i \in 1 .. Len(log)
    PROVE  /\ log[i] \in Events /\ log[i].id \in Requests /\ log[i].seq \in Nat /\ log[i].payload \in Nat
           /\ log[i].prev \in Seq(Requests) /\ log[i].hash \in Seq(Requests)
<1>1. log \in Seq(Events)
  BY DEF TypeOK
<1>2. log[i] \in Events
  BY <1>1, ElementOfSeq
<1> QED BY <1>2 DEF Events

LEMMA HeadIs ==
    ASSUME TypeOK
    PROVE  /\ HeadPosition.seq = Len(log) /\ HeadPosition.hash = HeadHash(log)
           /\ Len(log) \in Nat /\ HeadHash(log) \in Seq(Requests)
           /\ Linked(log) => Len(HeadHash(log)) = Len(log)
<1>1. log \in Seq(Events) /\ Len(log) \in Nat
  BY DEF TypeOK
<1>2. CASE log = <<>>
  BY <1>1, <1>2 DEF HeadPosition, HeadHash
<1>3. CASE log # <<>>
  <2>1. Len(log) \in 1 .. Len(log)
    BY <1>1, <1>3
  <2>2. HeadPosition.seq = Len(log) /\ HeadPosition.hash = HeadHash(log) /\ HeadHash(log) = log[Len(log)].hash
    BY <1>3 DEF HeadPosition, HeadHash, Last
  <2>3. log[Len(log)].hash \in Seq(Requests)
    BY <2>1, EventIs
  <2>4. Linked(log) => Len(log[Len(log)].hash) = Len(log)
    BY <2>1 DEF Linked
  <2> QED BY <1>1, <2>2, <2>3, <2>4
<1> QED BY <1>2, <1>3

\* The safeguard behind the locks is never needed.
LEMMA LinkFree ==
    ASSUME TypeOK, Linked(log), Exclusive, NEW r \in Requests, req[r] = "insert"
    PROVE  tx[r] = HeadHash(log) /\ ~LinkTaken(tx[r])
<1>1. tx[r] = HeadHash(log) /\ Len(HeadHash(log)) = Len(log) /\ Len(log) \in Nat
  BY HeadIs DEF Exclusive
<1>2. ASSUME NEW i \in 1 .. Len(log), log[i].prev = tx[r] PROVE FALSE
  <2>1. Len(log[i].prev) = i - 1
    BY DEF Linked
  <2>2. Len(log[i].prev) = Len(log)
    BY <1>1, <1>2
  <2> QED BY <1>1, <2>1, <2>2
<1> QED BY <1>1, <1>2 DEF LinkTaken

\* The event that CommitAppend appends.
NewEvent(r) == [id |-> r, seq |-> Len(log) + 1, payload |-> payload[r],
                prev |-> HeadHash(log), hash |-> Append(HeadHash(log), r)]

LEMMA CommitIs ==
    ASSUME TypeOK, Linked(log), Exclusive, NEW r \in Requests, CommitAppend(r)
    PROVE  /\ req[r] = "insert" /\ req' = [req EXCEPT ![r] = "project"] /\ tx' = [tx EXCEPT ![r] = None]
           /\ NewEvent(r) \in Events /\ log' = Append(log, NewEvent(r)) /\ Broadcast(NewEvent(r))
           /\ UNCHANGED <<proj, registry, workerVars, stream, cursor, size, got, blind, faults>>
<1>1. req[r] = "insert"
  BY DEF CommitAppend
<1>2. tx[r] = HeadHash(log) /\ ~LinkTaken(tx[r])
  BY <1>1, LinkFree
<1>3. NewEvent(r) \in Events
  <2>1. HeadHash(log) \in Seq(Requests) /\ Len(log) + 1 \in Nat /\ payload[r] \in Nat
    BY HeadIs, SMTT(30) DEF TypeOK
  <2>2. Append(HeadHash(log), r) \in Seq(Requests)
    BY <2>1
  <2> QED BY <2>1, <2>2 DEF NewEvent, Events
<1>4. NewEvent(r) = [id |-> r, seq |-> Len(log) + 1, payload |-> payload[r],
                     prev |-> tx[r], hash |-> ComputeEventHash(r, tx[r])]
  BY <1>2 DEF NewEvent, ComputeEventHash
<1> QED BY <1>1, <1>2, <1>3, <1>4 DEF CommitAppend, Progress

LEMMA AppendIs ==
    ASSUME TypeOK, NEW e \in Events
    PROVE  /\ Append(log, e) \in Seq(Events) /\ Len(Append(log, e)) = Len(log) + 1 /\ Len(log) \in Nat
           /\ Append(log, e)[Len(log) + 1] = e /\ \A i \in 1 .. Len(log) : Append(log, e)[i] = log[i]
           /\ \A i \in 1 .. Len(log) + 1 : i \in 1 .. Len(log) \/ i = Len(log) + 1
           /\ \A i \in 1 .. Len(log) : i \in 1 .. Len(log) + 1
<1>1. log \in Seq(Events) /\ Len(log) \in Nat
  BY DEF TypeOK
<1>2. /\ Append(log, e) \in Seq(Events) /\ Len(Append(log, e)) = Len(log) + 1
      /\ Append(log, e)[Len(log) + 1] = e /\ \A i \in 1 .. Len(log) : Append(log, e)[i] = log[i]
  BY <1>1, AppendProperties
<1> QED BY <1>1, <1>2

LEMMA PrefixIs ==
    ASSUME TypeOK, NEW n \in 0 .. Len(log)
    PROVE  /\ SubSeq(log, 1, n) \in Seq(Events) /\ Len(SubSeq(log, 1, n)) = n /\ n \in Nat
           /\ \A i \in 1 .. n : SubSeq(log, 1, n)[i] = log[i] /\ i \in 1 .. Len(log)
<1>1. log \in Seq(Events) /\ Len(log) \in Nat /\ n \in Nat
  BY DEF TypeOK
<1>2. \A i \in 1 .. n : i \in 1 .. Len(log) /\ log[i] \in Events
  BY <1>1
<1>3. /\ SubSeq(log, 1, n) \in Seq(Events) /\ Len(SubSeq(log, 1, n)) = (IF 1 <= n THEN n - 1 + 1 ELSE 0)
      /\ \A i \in 1 .. n - 1 + 1 : SubSeq(log, 1, n)[i] = log[1 + i - 1]
  BY <1>1, <1>2, SubSeqProperties
<1>4. (IF 1 <= n THEN n - 1 + 1 ELSE 0) = n /\ n - 1 + 1 = n /\ \A i \in 1 .. n : 1 + i - 1 = i
  BY <1>1
<1> QED BY <1>1, <1>2, <1>3, <1>4

\* What is left of the log after a step: more, the same, or a prefix after a restart.
Restored(n) == n \in 0 .. Len(log) /\ log' = SubSeq(log, 1, n) /\ proj' = Replay(n) /\ Stop

LEMMA BackupIs ==
    ASSUME TypeOK, RestoreBackup
    PROVE  \E n \in 0 .. Len(log) : Restored(n)
<1>1. PICK n \in 0 .. Len(log) - 1 : log' = SubSeq(log, 1, n) /\ proj' = Replay(n)
  BY DEF RestoreBackup
<1>2. Len(log) \in Nat
  BY DEF TypeOK
<1>3. n \in 0 .. Len(log)
  BY <1>2
<1> QED BY <1>1, <1>3 DEF RestoreBackup, Restored

-----------------------------------------------------------------------------
(* What the steps do to the server's side.                                 *)

LEMMA SentIs ==
    ASSUME TypeOK, NEW w \in Workers, NEW n \in 0 .. MaxJoins[w], Counted(w, n)
    PROVE  Sent(w) = n
<1>0. MaxJoins[w] \in Nat /\ n \in Nat /\ n <= MaxJoins[w]
  BY JoinLogAssumption
<1>1. {k \in 1 .. MaxJoins[w] : req[<<w, k>>] # "none"} = 1 .. n
  BY <1>0 DEF Counted
<1>2. Cardinality(1 .. n) = IF 1 > n THEN 0 ELSE n - 1 + 1
  BY <1>0, FS_Interval
<1>3. (IF 1 > n THEN 0 ELSE n - 1 + 1) = n
  BY <1>0
<1> QED BY <1>1, <1>2, <1>3 DEF Sent

Sends(w) == StartWorker(w) \/ HeartbeatNotFound(w)

\* The next request of a worker is one that was never sent.
LEMMA SendIs ==
    ASSUME TypeOK, NEW w \in Workers, Numbered(w), Sends(w)
    PROVE  \E n \in 0 .. MaxJoins[w] :
               /\ Counted(w, n) /\ n + 1 \in 1 .. MaxJoins[w] /\ <<w, n + 1>> \in Requests
               /\ req[<<w, n + 1>>] = "none" /\ stream[<<w, n + 1>>] = "none"
               /\ req' = [req EXCEPT ![<<w, n + 1>>] = "append"]
               /\ \E inc \in Nat : payload' = [payload EXCEPT ![<<w, n + 1>>] = inc]
               /\ \E at \in {"joining", "rejoining"} : worker' = [worker EXCEPT ![w] = at]
               /\ life' \in [Workers -> Nat]
               /\ UNCHANGED <<log, proj, registry, tx, snap, streamVars, faults>>
<1>1. PICK n \in 0 .. MaxJoins[w] : Counted(w, n)
  BY DEF Numbered
<1>2. Sent(w) = n /\ MaxJoins[w] \in Nat /\ n \in Nat
  BY <1>1, SentIs, JoinLogAssumption
<1>3. \E inc \in Nat : SendJoin(w, inc)
  <2>1. life[w] \in Nat /\ life[w] + 1 \in Nat
    BY DEF TypeOK
  <2> QED BY <2>1 DEF Sends, StartWorker, HeartbeatNotFound
<1>4. PICK inc \in Nat : SendJoin(w, inc)
  BY <1>3
<1>5. /\ n < MaxJoins[w] /\ req' = [req EXCEPT ![<<w, n + 1>>] = "append"]
      /\ payload' = [payload EXCEPT ![<<w, n + 1>>] = inc]
  BY <1>2, <1>4 DEF SendJoin
<1>6. n + 1 \in 1 .. MaxJoins[w] /\ ~(n + 1 <= n) /\ n + 1 > n
  BY <1>2, <1>5
<1>7. <<w, n + 1>> \in Requests /\ req[<<w, n + 1>>] = "none" /\ stream[<<w, n + 1>>] = "none"
  BY <1>1, <1>6, RequestIs DEF Counted
<1>8. \E at \in {"joining", "rejoining"} : worker' = [worker EXCEPT ![w] = at]
  BY DEF Sends, StartWorker, HeartbeatNotFound, Goto
<1>9. life' \in [Workers -> Nat]
  <2>1. life \in [Workers -> Nat]
    BY DEF TypeOK
  <2>2. life' = life \/ life' = [life EXCEPT ![w] = life[w] + 1]
    BY DEF Sends, StartWorker, HeartbeatNotFound
  <2> QED BY <2>1, <2>2
<1>10. UNCHANGED <<log, proj, registry, tx, snap, streamVars, faults>>
  BY DEF Sends, StartWorker, HeartbeatNotFound
<1> QED BY <1>1, <1>5, <1>6, <1>7, <1>8, <1>9, <1>10

\* The steps of a worker that send nothing.
Local(w) == JoinAnswered(w) \/ JoinTimesOut(w) \/ SnapshotHead(w) \/ SnapshotState(w) \/ CatchUpFails(w) \/ WorkerDies(w)

LEMMA LocalIs ==
    ASSUME NEW w \in Workers, Local(w)
    PROVE  UNCHANGED <<serverVars, payload, life>>
  BY DEF Local, JoinAnswered, JoinTimesOut, SnapshotHead, SnapshotState, CatchUpFails, WorkerDies

LEMMA StreamStepIs ==
    ASSUME NEW r \in Requests, StreamStep(r)
    PROVE  UNCHANGED <<serverVars, payload, life, snap>>
  BY DEF StreamStep, AnchorAccepted, AnchorRefused, Subscribe, Deliver, StreamCut, workerVars

LEMMA ServerMoves ==
    ASSUME [Next]_vars
    PROVE  \/ UNCHANGED <<serverVars, payload, life>>
           \/ \E r \in Requests : HandlerStep(r)
           \/ \E w \in Workers : Sends(w)
           \/ CoordinatorRestarts \/ RestoreBackup
<1>1. CASE UNCHANGED vars
  BY <1>1 DEF vars, serverVars
<1>2. CASE \E r \in Requests : StreamStep(r)
  BY <1>2, StreamStepIs
<1>3. CASE \E w \in Workers : WorkerStep(w)
  <2>1. PICK w \in Workers : WorkerStep(w)
    BY <1>3
  <2>2. Local(w) \/ Sends(w)
    BY <2>1 DEF WorkerStep, Local, Sends
  <2> QED BY <2>2, LocalIs
<1> QED BY <1>1, <1>2, <1>3 DEF Next

-----------------------------------------------------------------------------
(* Types.                                                                  *)

ReqPlaces == {"none", "append", "insert", "project", "register", "ok", "failed"}
WorkerPlaces == {"down", "joining", "rejoining", "head", "state", "up"}
StreamPlaces == {"none", "anchor", "subscribe", "open", "closed"}

LEMMA ReplayType ==
    ASSUME TypeOK, NEW n \in 0 .. Len(log)
    PROVE  Replay(n) \in Rows
<1>1. ASSUME NEW w \in Workers, LastJoin(w, n) # {} PROVE log[CHOOSE i \in LastJoin(w, n) : TRUE].payload \in Nat
  <2>1. PICK k : k = (CHOOSE i \in LastJoin(w, n) : TRUE)
    OBVIOUS
  <2>2. k \in LastJoin(w, n)
    BY <1>1, <2>1
  <2>3. k \in 1 .. n
    BY <2>2 DEF LastJoin
  <2>4. k \in 1 .. Len(log)
    BY <2>3, PrefixIs
  <2>5. log[k].payload \in Nat
    BY <2>4, EventIs
  <2> QED BY <2>1, <2>5
<1> QED BY <1>1 DEF Replay, Rows

LEMMA FaultStep ==
    ASSUME TypeOK, [Next]_vars
    PROVE  faults' \in 0 .. MaxFaults /\ faults' >= faults /\ faults \in Nat /\ faults' \in Nat
<1>1. faults' = faults \/ Fault
  <2>1. ASSUME NEW r \in Requests, HandlerStep(r) \/ StreamStep(r) PROVE faults' = faults \/ Fault
    BY <2>1 DEF HandlerStep, BeginAppend, CommitAppend, AppendFails, Project, ProjectFails, RegisterNode,
                StreamStep, AnchorAccepted, AnchorRefused, Subscribe, Deliver, StreamCut
  <2>2. ASSUME NEW w \in Workers, WorkerStep(w) PROVE faults' = faults \/ Fault
    BY <2>2 DEF WorkerStep, StartWorker, JoinAnswered, JoinTimesOut, SnapshotHead, SnapshotState, CatchUpFails,
                HeartbeatNotFound, WorkerDies
  <2>3. ASSUME CoordinatorRestarts \/ RestoreBackup \/ UNCHANGED vars PROVE faults' = faults \/ Fault
    BY <2>3 DEF CoordinatorRestarts, RestoreBackup, vars
  <2> QED BY <2>1, <2>2, <2>3 DEF Next
<1>2. faults \in 0 .. MaxFaults /\ MaxFaults \in Nat
  BY JoinLogAssumption DEF TypeOK
<1> QED BY <1>1, <1>2 DEF Fault

LEMMA ServerTypes ==
    ASSUME TypeOK, Linked(log), Exclusive, \A w \in Workers : Numbered(w), [Next]_vars
    PROVE  /\ log' \in Seq(Events) /\ proj' \in Rows /\ registry' \in Rows
           /\ tx' \in [Requests -> Seq(Requests) \cup {None}] /\ req' \in [Requests -> ReqPlaces]
           /\ payload' \in [Requests -> Nat] /\ life' \in [Workers -> Nat]
<1>0. /\ log \in Seq(Events) /\ proj \in Rows /\ registry \in Rows
      /\ tx \in [Requests -> Seq(Requests) \cup {None}] /\ req \in [Requests -> ReqPlaces]
      /\ payload \in [Requests -> Nat] /\ life \in [Workers -> Nat]
  BY DEF TypeOK, ReqPlaces
<1>1. CASE UNCHANGED <<serverVars, payload, life>>
  BY <1>0, <1>1 DEF serverVars
<1>2. ASSUME NEW r \in Requests, BeginAppend(r) \/ AppendFails(r)
      PROVE  /\ UNCHANGED <<log, proj, registry, payload, life>> /\ req' \in [Requests -> ReqPlaces]
             /\ tx' \in [Requests -> Seq(Requests) \cup {None}]
  BY <1>0, <1>2, HeadIs DEF BeginAppend, AppendFails, Progress, ReqPlaces, workerVars
<1>3. ASSUME NEW r \in Requests, CommitAppend(r)
      PROVE  /\ UNCHANGED <<proj, registry, payload, life>> /\ req' \in [Requests -> ReqPlaces]
             /\ log' \in Seq(Events) /\ tx' \in [Requests -> Seq(Requests) \cup {None}]
  <2>1. /\ req' = [req EXCEPT ![r] = "project"] /\ tx' = [tx EXCEPT ![r] = None] /\ log' = Append(log, NewEvent(r))
        /\ NewEvent(r) \in Events /\ UNCHANGED <<proj, registry, workerVars>>
    BY <1>3, CommitIs
  <2>2. log' \in Seq(Events)
    BY <2>1, AppendIs
  <2>3. req' \in [Requests -> ReqPlaces] /\ tx' \in [Requests -> Seq(Requests) \cup {None}]
    BY <1>0, <2>1 DEF ReqPlaces
  <2> QED BY <2>1, <2>2, <2>3 DEF workerVars
<1>4. ASSUME NEW r \in Requests, Project(r) \/ ProjectFails(r) \/ RegisterNode(r)
      PROVE  /\ UNCHANGED <<log, tx, payload, life>> /\ req' \in [Requests -> ReqPlaces]
             /\ proj' \in Rows /\ registry' \in Rows
  <2>1. req' \in [Requests -> ReqPlaces] /\ UNCHANGED <<log, tx, payload, life>>
    BY <1>0, <1>4 DEF Project, ProjectFails, RegisterNode, Progress, ReqPlaces, workerVars
  <2>2. r[1] \in Workers /\ payload[r] \in Nat
    BY <1>0, RequestIs
  <2>3. proj' = proj \/ proj' = [proj EXCEPT ![r[1]] = payload[r]]
    BY <1>4 DEF Project, ProjectFails, RegisterNode, ProjectEvent
  <2>4. registry' = registry \/ registry' = [registry EXCEPT ![r[1]] = payload[r]]
    BY <1>4 DEF Project, ProjectFails, RegisterNode
  <2> QED BY <1>0, <2>1, <2>2, <2>3, <2>4 DEF Rows
<1>5. ASSUME NEW w \in Workers, Sends(w)
      PROVE  /\ UNCHANGED <<log, proj, registry, tx>> /\ req' \in [Requests -> ReqPlaces]
             /\ payload' \in [Requests -> Nat] /\ life' \in [Workers -> Nat]
  <2>1. PICK n \in 0 .. MaxJoins[w] :
               /\ req' = [req EXCEPT ![<<w, n + 1>>] = "append"] /\ <<w, n + 1>> \in Requests
               /\ \E inc \in Nat : payload' = [payload EXCEPT ![<<w, n + 1>>] = inc]
               /\ life' \in [Workers -> Nat] /\ UNCHANGED <<log, proj, registry, tx>>
    BY <1>5, SendIs
  <2> QED BY <1>0, <2>1 DEF ReqPlaces
<1>6. ASSUME Stop
      PROVE  /\ tx' \in [Requests -> Seq(Requests) \cup {None}] /\ req' \in [Requests -> ReqPlaces] /\ registry' \in Rows
  BY <1>0, <1>6 DEF Stop, ReqPlaces, Rows
<1>7. CASE CoordinatorRestarts
  BY <1>0, <1>6, <1>7 DEF CoordinatorRestarts, workerVars
<1>8. CASE RestoreBackup
  <2>1. PICK n \in 0 .. Len(log) : Restored(n)
    BY <1>8, BackupIs
  <2>2. log' \in Seq(Events) /\ proj' \in Rows
    BY <2>1, PrefixIs, ReplayType DEF Restored
  <2> QED BY <1>0, <1>6, <1>8, <2>1, <2>2 DEF RestoreBackup, Restored, workerVars
<1> QED BY <1>0, <1>1, <1>2, <1>3, <1>4, <1>5, <1>7, <1>8, ServerMoves DEF HandlerStep

\* What the steps do to the streams.
LEMMA CloseIs ==
    ASSUME TypeOK, NEW R \in SUBSET Requests, Close(R)
    PROVE  /\ stream' \in [Requests -> StreamPlaces] /\ chan' \in [Requests -> Seq(Events)]
           /\ got' \in [Requests -> Seq(Events)] /\ dropped' \in [Requests -> BOOLEAN]
           /\ UNCHANGED <<cursor, size, blind>>
<1>0. /\ stream \in [Requests -> StreamPlaces] /\ chan \in [Requests -> Seq(Events)]
      /\ got \in [Requests -> Seq(Events)] /\ dropped \in [Requests -> BOOLEAN]
  BY DEF TypeOK, StreamPlaces
<1>1. stream' \in [Requests -> StreamPlaces]
  BY <1>0 DEF Close, StreamPlaces
<1>2. <<>> \in Seq(Events)
  OBVIOUS
<1>3. chan' \in [Requests -> Seq(Events)] /\ got' \in [Requests -> Seq(Events)]
  BY <1>0, <1>2 DEF Close
<1>4. dropped' \in [Requests -> BOOLEAN]
  <2>1. \A r \in Requests : (dropped[r] /\ r \notin R) \in BOOLEAN
    OBVIOUS
  <2>2. dropped' = [r \in Requests |-> dropped[r] /\ r \notin R]
    BY DEF Close
  <2> QED BY <2>1, <2>2
<1> QED BY <1>1, <1>3, <1>4 DEF Close

LEMMA BroadcastIs ==
    ASSUME TypeOK, NEW e \in Events, Broadcast(e)
    PROVE  /\ chan' \in [Requests -> Seq(Events)] /\ dropped' \in [Requests -> BOOLEAN]
           /\ \A r \in Requests : stream[r] # "open" => chan'[r] = chan[r] /\ dropped'[r] = dropped[r]
           /\ \A r \in Requests : stream[r] = "open" =>
                  \/ chan'[r] = Append(chan[r], e) /\ dropped'[r] = dropped[r]
                  \/ chan'[r] = chan[r] /\ dropped'[r]
<1>0. chan \in [Requests -> Seq(Events)] /\ dropped \in [Requests -> BOOLEAN]
  BY DEF TypeOK
<1>1. PICK fits \in SUBSET Requests :
          /\ chan' = [r \in Requests |-> IF stream[r] = "open" /\ r \in fits THEN Append(chan[r], e) ELSE chan[r]]
          /\ dropped' = [r \in Requests |-> dropped[r] \/ (stream[r] = "open" /\ r \notin fits)]
  <2> DEFINE F == {r \in Requests : Len(chan[r]) < size[r]}
  <2>1. /\ chan' = [r \in Requests |-> IF stream[r] = "open" /\ r \in F THEN Append(chan[r], e) ELSE chan[r]]
        /\ dropped' = [r \in Requests |-> dropped[r] \/ (stream[r] = "open" /\ r \notin F)]
    BY DEF Broadcast
  <2> QED BY <2>1
<1>2. ASSUME NEW r \in Requests
      PROVE  /\ chan'[r] \in Seq(Events)
             /\ stream[r] # "open" => chan'[r] = chan[r]
             /\ stream[r] = "open" => chan'[r] = IF r \in fits THEN Append(chan[r], e) ELSE chan[r]
  <2>1. chan[r] \in Seq(Events) /\ Append(chan[r], e) \in Seq(Events)
    BY <1>0
  <2>2. chan'[r] = IF stream[r] = "open" /\ r \in fits THEN Append(chan[r], e) ELSE chan[r]
    BY <1>1
  <2> QED BY <2>1, <2>2
<1>3. ASSUME NEW r \in Requests
      PROVE  /\ dropped'[r] \in BOOLEAN
             /\ stream[r] # "open" \/ r \in fits => dropped'[r] = dropped[r]
             /\ stream[r] = "open" /\ r \notin fits => dropped'[r]
  <2>1. dropped'[r] = (dropped[r] \/ (stream[r] = "open" /\ r \notin fits)) /\ dropped[r] \in BOOLEAN
    BY <1>0, <1>1
  <2> QED BY <2>1
<1>4. chan' \in [Requests -> Seq(Events)]
  BY <1>1, <1>2
<1>5. dropped' \in [Requests -> BOOLEAN]
  <2>1. dropped' = [r \in Requests |-> dropped'[r]]
    BY <1>1
  <2> QED BY <1>3, <2>1
<1>6. ASSUME NEW r \in Requests
      PROVE  /\ stream[r] # "open" => chan'[r] = chan[r] /\ dropped'[r] = dropped[r]
             /\ stream[r] = "open" => \/ chan'[r] = Append(chan[r], e) /\ dropped'[r] = dropped[r]
                                      \/ chan'[r] = chan[r] /\ dropped'[r]
  <2>1. CASE r \in fits
    BY <1>2, <1>3, <2>1, Zenon
  <2>2. CASE r \notin fits
    BY <1>2, <1>3, <2>2, Zenon
  <2> QED BY <2>1, <2>2
<1> QED BY <1>4, <1>5, <1>6

\* The streams after Stop, and after a disconnection of R.
Same(r) == stream'[r] = stream[r] /\ cursor'[r] = cursor[r] /\ chan'[r] = chan[r] /\ got'[r] = got[r]
           /\ dropped'[r] = dropped[r] /\ blind'[r] = blind[r]

LEMMA HistoryType ==
    ASSUME TypeOK, NEW k \in Nat
    PROVE  /\ EventsSince(k) \in Seq(Events) /\ Len(EventsSince(k)) \in Nat
           /\ Linked(log) => Holds(EventsSince(k), log)
<1>1. log \in Seq(Events) /\ Len(log) \in Nat /\ k + 1 \in Int
  BY DEF TypeOK
<1>2. \A i \in k + 1 .. Len(log) : i \in 1 .. Len(log) /\ log[i] \in Events
  BY <1>1
<1>3. /\ EventsSince(k) \in Seq(Events)
      /\ Len(EventsSince(k)) = (IF k + 1 <= Len(log) THEN Len(log) - (k + 1) + 1 ELSE 0)
      /\ \A i \in 1 .. Len(log) - (k + 1) + 1 : EventsSince(k)[i] = log[k + 1 + i - 1]
  BY <1>1, <1>2, SubSeqProperties DEF EventsSince
<1>4. PICK m \in Nat : m = Len(EventsSince(k)) /\ \A i \in 1 .. m : i \in 1 .. Len(log) - (k + 1) + 1 /\ k + 1 + i - 1 \in 1 .. Len(log)
  <2>1. \A i \in 1 .. (IF k + 1 <= Len(log) THEN Len(log) - (k + 1) + 1 ELSE 0) :
            i \in 1 .. Len(log) - (k + 1) + 1 /\ k + 1 + i - 1 \in 1 .. Len(log)
    BY <1>1
  <2>2. (IF k + 1 <= Len(log) THEN Len(log) - (k + 1) + 1 ELSE 0) \in Nat
    BY <1>1
  <2> QED BY <1>3, <2>1, <2>2
<1>5. ASSUME Linked(log), NEW i \in 1 .. m
      PROVE  EventsSince(k)[i].seq \in 1 .. Len(log) /\ EventsSince(k)[i] = log[EventsSince(k)[i].seq]
  <2>1. PICK j \in 1 .. Len(log) : EventsSince(k)[i] = log[j]
    BY <1>3, <1>4
  <2>2. log[j].seq = j
    BY <1>5 DEF Linked
  <2> QED BY <2>1, <2>2
<1> QED BY <1>3, <1>4, <1>5 DEF Holds

LEMMA StreamTypes ==
    ASSUME TypeOK, Linked(log), Exclusive, \A w \in Workers : Numbered(w), [Next]_vars
    PROVE  /\ stream' \in [Requests -> StreamPlaces] /\ cursor' \in [Requests -> [seq : Nat, hash : Seq(Requests)]]
           /\ chan' \in [Requests -> Seq(Events)] /\ got' \in [Requests -> Seq(Events)]
           /\ size' \in [Requests -> Nat] /\ dropped' \in [Requests -> BOOLEAN] /\ blind' \in [Requests -> BOOLEAN]
<1> DEFINE Goal == /\ stream' \in [Requests -> StreamPlaces] /\ cursor' \in [Requests -> [seq : Nat, hash : Seq(Requests)]]
                   /\ chan' \in [Requests -> Seq(Events)] /\ got' \in [Requests -> Seq(Events)]
                   /\ size' \in [Requests -> Nat] /\ dropped' \in [Requests -> BOOLEAN] /\ blind' \in [Requests -> BOOLEAN]
<1>0. /\ stream \in [Requests -> StreamPlaces] /\ cursor \in [Requests -> [seq : Nat, hash : Seq(Requests)]]
      /\ chan \in [Requests -> Seq(Events)] /\ got \in [Requests -> Seq(Events)]
      /\ size \in [Requests -> Nat] /\ dropped \in [Requests -> BOOLEAN] /\ blind \in [Requests -> BOOLEAN]
  BY DEF TypeOK, StreamPlaces
<1>1. ASSUME UNCHANGED streamVars PROVE Goal
  BY <1>0, <1>1 DEF streamVars
<1>2. ASSUME NEW R \in SUBSET Requests, Close(R) PROVE Goal
  BY <1>0, <1>2, CloseIs
<1>3. ASSUME NEW r \in Requests, HandlerStep(r) PROVE Goal
  <2>1. CASE CommitAppend(r)
    <3>1. NewEvent(r) \in Events /\ Broadcast(NewEvent(r)) /\ UNCHANGED <<stream, cursor, size, got, blind>>
      BY <2>1, CommitIs
    <3> QED BY <1>0, <3>1, BroadcastIs
  <2>2. CASE ~CommitAppend(r)
    <3>1. UNCHANGED streamVars
      BY <1>3, <2>2 DEF HandlerStep, BeginAppend, AppendFails, Project, ProjectFails, RegisterNode
    <3> QED BY <1>1, <3>1
  <2> QED BY <2>1, <2>2
<1>4. ASSUME NEW w \in Workers, WorkerStep(w) PROVE Goal
  <2>1. CASE SnapshotState(w)
    <3>1. PICK n \in 0 .. MaxJoins[w] : Counted(w, n)
      BY DEF Numbered
    <3>2. n >= 1 /\ Current(w) = <<w, n>> /\ snap[w] \in Snapshots
      BY <2>1, <3>1, SentIs DEF SnapshotState, Counted, Current, Numbered, TypeOK
    <3>3. Current(w) \in Requests
      BY <3>2, RequestIs, JoinLogAssumption
    <3>4. snap[w].seq \in Nat /\ snap[w].hash \in Seq(Requests)
      BY <3>2 DEF Snapshots
    <3>5. /\ stream' = [stream EXCEPT ![Current(w)] = "anchor"]
          /\ cursor' = [cursor EXCEPT ![Current(w)] = [seq |-> snap[w].seq, hash |-> snap[w].hash]]
          /\ UNCHANGED <<chan, size, got, dropped, blind>>
      BY <2>1 DEF SnapshotState
    <3>6. stream' \in [Requests -> StreamPlaces]
      BY <1>0, <3>3, <3>5 DEF StreamPlaces
    <3>7. cursor' \in [Requests -> [seq : Nat, hash : Seq(Requests)]]
      BY <1>0, <3>3, <3>4, <3>5
    <3> QED BY <1>0, <3>5, <3>6, <3>7
  <2>2. CASE WorkerDies(w)
    <3>1. StreamsOf(w) \in SUBSET Requests /\ Close(StreamsOf(w))
      BY <2>2 DEF WorkerDies, StreamsOf
    <3> QED BY <1>2, <3>1
  <2>3. CASE ~SnapshotState(w) /\ ~WorkerDies(w)
    <3>1. UNCHANGED streamVars
      BY <1>4, <2>3 DEF WorkerStep, StartWorker, JoinAnswered, JoinTimesOut, SnapshotHead, CatchUpFails, HeartbeatNotFound
    <3> QED BY <1>1, <3>1
  <2> QED BY <2>1, <2>2, <2>3
<1>5. ASSUME NEW r \in Requests, StreamStep(r) PROVE Goal
  <2>1. CASE AnchorAccepted(r)
    <3>1. stream' \in [Requests -> StreamPlaces]
      BY <1>0, <2>1 DEF AnchorAccepted, StreamPlaces
    <3>2. blind' \in [Requests -> BOOLEAN]
      <4>1. (cursor[r].seq > Len(log)) \in BOOLEAN
        OBVIOUS
      <4> QED BY <1>0, <2>1, <4>1 DEF AnchorAccepted
    <3> QED BY <1>0, <2>1, <3>1, <3>2 DEF AnchorAccepted
  <2>2. CASE AnchorRefused(r)
    <3>1. StreamsOf(r[1]) \in SUBSET Requests /\ Close(StreamsOf(r[1]))
      BY <2>2 DEF AnchorRefused, StreamsOf
    <3> QED BY <1>2, <3>1
  <2>3. CASE Subscribe(r)
    <3>1. PICK h \in Seq(Events), m \in Nat : h = EventsSince(cursor[r].seq) /\ m = Len(h)
      <4>1. cursor[r].seq \in Nat
        BY <1>0
      <4> QED BY <4>1, HistoryType
    <3>2. /\ stream' = [stream EXCEPT ![r] = "open"] /\ chan' = [chan EXCEPT ![r] = h]
          /\ size' = [size EXCEPT ![r] = IF m + BufExtra > BufMin THEN m + BufExtra ELSE BufMin]
          /\ UNCHANGED <<cursor, got, dropped, blind>>
      BY <2>3, <3>1 DEF Subscribe
    <3>3. (IF m + BufExtra > BufMin THEN m + BufExtra ELSE BufMin) \in Nat
      BY JoinLogAssumption
    <3>4. stream' \in [Requests -> StreamPlaces]
      BY <1>0, <3>2 DEF StreamPlaces
    <3>5. chan' \in [Requests -> Seq(Events)]
      BY <1>0, <3>1, <3>2
    <3>6. size' \in [Requests -> Nat]
      BY <1>0, <3>2, <3>3
    <3> QED BY <1>0, <3>2, <3>4, <3>5, <3>6
  <2>4. CASE Deliver(r)
    <3>1. chan[r] \in Seq(Events) /\ chan[r] # <<>> /\ got[r] \in Seq(Events)
      BY <1>0, <2>4 DEF Deliver
    <3>2. Tail(chan[r]) \in Seq(Events) /\ Append(got[r], Head(chan[r])) \in Seq(Events)
      <4>1. Tail(chan[r]) \in Seq(Events) /\ Head(chan[r]) \in Events
        BY <3>1, HeadTailProperties
      <4> QED BY <3>1, <4>1
    <3>3. chan' \in [Requests -> Seq(Events)] /\ got' \in [Requests -> Seq(Events)]
      BY <1>0, <2>4, <3>2 DEF Deliver
    <3> QED BY <1>0, <2>4, <3>3 DEF Deliver
  <2>5. CASE StreamCut(r)
    <3>1. {r} \in SUBSET Requests /\ Close({r})
      BY <2>5 DEF StreamCut
    <3> QED BY <1>2, <3>1
  <2> QED BY <1>5, <2>1, <2>2, <2>3, <2>4, <2>5 DEF StreamStep
<1>6. ASSUME Stop PROVE Goal
  <2>1. stream' \in [Requests -> StreamPlaces]
    BY <1>0, <1>6 DEF Stop, StreamPlaces
  <2>2. chan' \in [Requests -> Seq(Events)] /\ got' \in [Requests -> Seq(Events)] /\ dropped' \in [Requests -> BOOLEAN]
    BY <1>6 DEF Stop
  <2> QED BY <1>0, <1>6, <2>1, <2>2 DEF Stop
<1>7. ASSUME UNCHANGED vars PROVE Goal
  BY <1>0, <1>7 DEF vars
<1> HIDE DEF Goal
<1>8. Goal
  BY <1>3, <1>4, <1>5, <1>6, <1>7 DEF Next, CoordinatorRestarts, RestoreBackup
<1> QED BY <1>8 DEF Goal

LEMMA WorkerTypes ==
    ASSUME TypeOK, \A w \in Workers : Numbered(w), [Next]_vars
    PROVE  worker' \in [Workers -> WorkerPlaces] /\ snap' \in [Workers -> Snapshots \cup {None}]
<1>0. worker \in [Workers -> WorkerPlaces] /\ snap \in [Workers -> Snapshots \cup {None}] /\ proj \in Rows
  BY DEF TypeOK, WorkerPlaces
<1>1. ASSUME NEW w \in Workers, WorkerStep(w)
      PROVE  worker' \in [Workers -> WorkerPlaces] /\ snap' \in [Workers -> Snapshots \cup {None}]
  <2>1. worker' \in [Workers -> WorkerPlaces]
    BY <1>0, <1>1 DEF WorkerStep, StartWorker, JoinAnswered, JoinTimesOut, Unanswered, SnapshotHead, SnapshotState,
                      CatchUpFails, HeartbeatNotFound, WorkerDies, Goto, WorkerPlaces
  <2>2. CASE SnapshotHead(w)
    <3>1. [seq |-> HeadPosition.seq, hash |-> HeadPosition.hash, state |-> None] \in Snapshots
      BY HeadIs DEF Snapshots
    <3> QED BY <1>0, <2>1, <2>2, <3>1 DEF SnapshotHead
  <2>3. CASE SnapshotState(w)
    <3>1. snap[w] \in Snapshots
      BY <1>0, <2>3 DEF SnapshotState, Numbered
    <3>2. [snap[w] EXCEPT !.state = proj] \in Snapshots
      BY <1>0, <3>1 DEF Snapshots
    <3>3. snap' = [snap EXCEPT ![w] = [snap[w] EXCEPT !.state = proj]]
      BY <1>0, <2>3 DEF SnapshotState
    <3> QED BY <1>0, <2>1, <3>2, <3>3
  <2>4. CASE ~SnapshotHead(w) /\ ~SnapshotState(w)
    <3>1. snap' = snap
      BY <1>1, <2>4 DEF WorkerStep, StartWorker, JoinAnswered, JoinTimesOut, CatchUpFails, HeartbeatNotFound, WorkerDies
    <3> QED BY <1>0, <2>1, <3>1
  <2> QED BY <2>2, <2>3, <2>4
<1>2. ASSUME NEW r \in Requests, AnchorRefused(r)
      PROVE  worker' \in [Workers -> WorkerPlaces] /\ snap' = snap
  BY <1>0, <1>2, RequestIs DEF AnchorRefused, Goto, WorkerPlaces
<1>3. ASSUME NEW r \in Requests, HandlerStep(r) \/ (StreamStep(r) /\ ~AnchorRefused(r)) PROVE UNCHANGED <<worker, snap>>
  BY <1>3 DEF HandlerStep, BeginAppend, CommitAppend, AppendFails, Project, ProjectFails, RegisterNode,
              StreamStep, AnchorAccepted, Subscribe, Deliver, StreamCut, workerVars
<1>4. ASSUME CoordinatorRestarts \/ RestoreBackup \/ UNCHANGED vars PROVE UNCHANGED <<worker, snap>>
  BY <1>4 DEF CoordinatorRestarts, RestoreBackup, vars, workerVars
<1>5. ASSUME UNCHANGED <<worker, snap>>
      PROVE  worker' \in [Workers -> WorkerPlaces] /\ snap' \in [Workers -> Snapshots \cup {None}]
  BY <1>0, <1>5
<1> QED BY <1>0, <1>1, <1>2, <1>3, <1>4, <1>5 DEF Next

LEMMA TypeStep ==
    ASSUME TypeOK, Linked(log), Exclusive, \A w \in Workers : Numbered(w), [Next]_vars
    PROVE  TypeOK'
  BY ServerTypes, StreamTypes, WorkerTypes, FaultStep DEF TypeOK, ReqPlaces, WorkerPlaces, StreamPlaces

-----------------------------------------------------------------------------
(* The log.                                                                *)

LEMMA LogMoves ==
    ASSUME [Next]_vars
    PROVE  log' = log \/ (\E r \in Requests : CommitAppend(r)) \/ RestoreBackup
<1>1. ASSUME NEW r \in Requests, HandlerStep(r), ~CommitAppend(r) PROVE log' = log
  BY <1>1 DEF HandlerStep, BeginAppend, AppendFails, Project, ProjectFails, RegisterNode
<1>2. ASSUME NEW w \in Workers, Sends(w) PROVE log' = log
  BY <1>2 DEF Sends, StartWorker, HeartbeatNotFound
<1>3. CoordinatorRestarts => log' = log
  BY DEF CoordinatorRestarts
<1> QED BY <1>1, <1>2, <1>3, ServerMoves DEF serverVars

\* l has everything that the log has.
Extended(l) == Len(log) <= Len(l) /\ Len(l) \in Nat /\ Len(log) \in Nat /\ \A i \in 1 .. Len(log) : i \in 1 .. Len(l) /\ l[i] = log[i]

LEMMA LogGrows ==
    ASSUME TypeOK, Linked(log), Exclusive, [Next]_vars, ~RestoreBackup
    PROVE  Extended(log')
<1>0. log \in Seq(Events) /\ Len(log) \in Nat
  BY DEF TypeOK
<1>1. CASE log' = log
  BY <1>0, <1>1 DEF Extended
<1>2. ASSUME NEW r \in Requests, CommitAppend(r) PROVE Extended(log')
  <2>1. log' = Append(log, NewEvent(r)) /\ NewEvent(r) \in Events
    BY <1>2, CommitIs
  <2>2. /\ Len(Append(log, NewEvent(r))) = Len(log) + 1 /\ \A i \in 1 .. Len(log) : Append(log, NewEvent(r))[i] = log[i]
    BY <2>1, AppendIs
  <2>3. Len(log) + 1 \in Nat /\ Len(log) <= Len(log) + 1 /\ \A i \in 1 .. Len(log) : i \in 1 .. Len(log) + 1
    BY <1>0
  <2> QED BY <1>0, <2>1, <2>2, <2>3 DEF Extended
<1> QED BY <1>1, <1>2, LogMoves

LEMMA ExtendedKeeps ==
    ASSUME NEW l, Extended(l)
    PROVE  /\ \A r, p : Logged(log, r, p) => Logged(l, r, p)
           /\ \A w, p : Known(log, w, p) => Known(l, w, p)
           /\ \A s : Holds(s, log) => Holds(s, l)
<1>1. \A r, p : Logged(log, r, p) => Logged(l, r, p)
  BY DEF Logged, Extended
<1>2. \A w, p : Known(log, w, p) => Known(l, w, p)
  BY DEF Known, Extended
<1>3. ASSUME NEW s, Holds(s, log) PROVE Holds(s, l)
  BY <1>3 DEF Holds, Extended
<1> QED BY <1>1, <1>2, <1>3

LEMMA LinkedAppend ==
    ASSUME TypeOK, Linked(log), NEW r \in Requests, NewEvent(r) \in Events
    PROVE  Linked(Append(log, NewEvent(r)))
<1> DEFINE e == NewEvent(r)
           l == Append(log, e)
<1>1. /\ Len(l) = Len(log) + 1 /\ Len(log) \in Nat /\ l[Len(log) + 1] = e /\ \A i \in 1 .. Len(log) : l[i] = log[i]
      /\ \A i \in 1 .. Len(log) + 1 : i \in 1 .. Len(log) \/ i = Len(log) + 1
  BY AppendIs
<1>2. /\ e.id = r /\ e.seq = Len(log) + 1 /\ e.prev = HeadHash(log) /\ e.hash = Append(HeadHash(log), r)
  BY DEF NewEvent
<1>3. HeadHash(log) \in Seq(Requests) /\ Len(HeadHash(log)) = Len(log)
  BY HeadIs
<1>4. Len(e.prev) = Len(log) /\ Len(e.hash) = Len(log) + 1
  <2>1. Len(Append(HeadHash(log), r)) = Len(HeadHash(log)) + 1
    BY <1>3, AppendProperties
  <2> QED BY <1>2, <1>3, <2>1
<1> HIDE DEF l, e
<1>5. PICK m \in Nat : m = Len(log)
  BY <1>1
<1>6. ASSUME NEW i \in 1 .. m
      PROVE  /\ l[i].seq = i /\ Len(l[i].prev) = i - 1 /\ Len(l[i].hash) = i
             /\ l[i].hash = Append(l[i].prev, l[i].id)
             /\ i = 1 => l[i].prev = <<>>
             /\ i > 1 => l[i].prev = l[i - 1].hash
  <2>1. l[i] = log[i] /\ (i > 1 => l[i - 1] = log[i - 1])
    <3>1. i > 1 => i - 1 \in 1 .. m
      BY <1>5
    <3> QED BY <1>1, <1>5, <1>6, <3>1
  <2> QED BY <1>5, <1>6, <2>1 DEF Linked
<1>7. ASSUME NEW i, i = m + 1
      PROVE  /\ l[i].seq = i /\ Len(l[i].prev) = i - 1 /\ Len(l[i].hash) = i
             /\ l[i].hash = Append(l[i].prev, l[i].id)
             /\ i = 1 => l[i].prev = <<>>
             /\ i > 1 => l[i].prev = l[i - 1].hash
  <2>1. l[i] = e /\ i - 1 = m
    BY <1>1, <1>5, <1>7
  <2>2. l[i].seq = i /\ Len(l[i].prev) = i - 1 /\ Len(l[i].hash) = i /\ l[i].hash = Append(l[i].prev, l[i].id)
    BY <1>2, <1>4, <1>5, <1>7, <2>1, Zenon
  <2>3. i = 1 => l[i].prev = <<>>
    <3>1. i = 1 => log = <<>>
      <4>1. i = 1 => Len(log) = 0
        BY <1>5, <1>7
      <4>2. log \in Seq(Events)
        BY DEF TypeOK
      <4> QED BY <4>1, <4>2
    <3> QED BY <1>2, <2>1, <3>1 DEF HeadHash
  <2>4. i > 1 => l[i].prev = l[i - 1].hash
    <3>1. i > 1 => m \in 1 .. m
      BY <1>5, <1>7
    <3>2. i > 1 => l[m] = log[m]
      BY <1>1, <1>5, <3>1
    <3>3. i > 1 => log # <<>>
      <4>1. i > 1 => Len(log) # 0
        BY <1>5, <1>7
      <4> QED BY <4>1
    <3> QED BY <1>2, <1>5, <2>1, <3>2, <3>3 DEF HeadHash
  <2> QED BY <2>2, <2>3, <2>4
<1>8. Linked(l)
  BY <1>1, <1>5, <1>6, <1>7 DEF Linked
<1> QED BY <1>8 DEF l, e

LEMMA LinkedPrefix ==
    ASSUME TypeOK, Linked(log), NEW n \in 0 .. Len(log)
    PROVE  Linked(SubSeq(log, 1, n))
<1> DEFINE l == SubSeq(log, 1, n)
<1>1. Len(l) = n /\ n \in Nat /\ \A i \in 1 .. n : l[i] = log[i] /\ i \in 1 .. Len(log)
  BY PrefixIs
<1> HIDE DEF l
<1>2. \A i \in 1 .. n : i > 1 => i - 1 \in 1 .. n
  BY <1>1
<1>3. Linked(l)
  BY <1>1, <1>2 DEF Linked
<1> QED BY <1>3 DEF l

LEMMA LinkedStep ==
    ASSUME TypeOK, Linked(log), Exclusive, [Next]_vars
    PROVE  Linked(log')
<1>1. ASSUME NEW r \in Requests, CommitAppend(r) PROVE Linked(log')
  BY <1>1, CommitIs, LinkedAppend
<1>2. RestoreBackup => Linked(log')
  BY BackupIs, LinkedPrefix DEF Restored
<1> QED BY <1>1, <1>2, LogMoves

LEMMA ExclusiveStep ==
    ASSUME TypeOK, Linked(log), Exclusive, \A w \in Workers : Numbered(w), [Next]_vars
    PROVE  Exclusive'
<1>0. tx \in [Requests -> Seq(Requests) \cup {None}] /\ req \in [Requests -> ReqPlaces]
  BY DEF TypeOK, ReqPlaces
<1>1. CASE UNCHANGED <<serverVars, payload, life>>
  BY <1>1 DEF Exclusive, serverVars
<1>2. ASSUME NEW r \in Requests, BeginAppend(r) PROVE Exclusive'
  <2>1. /\ tx' = [tx EXCEPT ![r] = HeadHash(log)] /\ req' = [req EXCEPT ![r] = "insert"] /\ log' = log
        /\ \A s \in Requests : tx[s] = None
    BY <1>2, HeadIs DEF BeginAppend, Progress, MuFree
  <2>2. HeadHash(log) # None
    BY HeadIs, JoinLogAssumption
  <2> QED BY <1>0, <2>1, <2>2 DEF Exclusive
<1>3. ASSUME NEW r \in Requests, CommitAppend(r) PROVE Exclusive'
  <2>1. req[r] = "insert" /\ req' = [req EXCEPT ![r] = "project"] /\ tx' = [tx EXCEPT ![r] = None]
    BY <1>3, CommitIs
  <2>2. \A s \in Requests : s # r => tx[s] = None
    BY <2>1 DEF Exclusive
  <2>3. \A s \in Requests : tx'[s] = None /\ (req'[s] = "insert" => req[s] = "insert" /\ s # r)
    BY <1>0, <2>1, <2>2
  <2> QED BY <2>2, <2>3 DEF Exclusive
<1>4. ASSUME NEW r \in Requests, AppendFails(r) PROVE Exclusive'
  <2>1. tx' = [tx EXCEPT ![r] = None] /\ req' = [req EXCEPT ![r] = "failed"] /\ log' = log
    BY <1>4 DEF AppendFails, Progress
  <2> QED BY <1>0, <2>1 DEF Exclusive
<1>5. ASSUME NEW r \in Requests, Project(r) \/ ProjectFails(r) \/ RegisterNode(r) PROVE Exclusive'
  <2>1. PICK at \in {"register", "failed", "ok"} : req' = [req EXCEPT ![r] = at] /\ req[r] # "insert" /\ UNCHANGED <<log, tx>>
    BY <1>5 DEF Project, ProjectFails, RegisterNode, Progress
  <2> QED BY <1>0, <2>1 DEF Exclusive
<1>6. ASSUME NEW w \in Workers, Sends(w) PROVE Exclusive'
  <2>1. PICK n \in 0 .. MaxJoins[w] :
               /\ req' = [req EXCEPT ![<<w, n + 1>>] = "append"] /\ <<w, n + 1>> \in Requests
               /\ req[<<w, n + 1>>] = "none" /\ UNCHANGED <<log, tx>>
    BY <1>6, SendIs
  <2> QED BY <1>0, <2>1 DEF Exclusive
<1>7. ASSUME Stop PROVE Exclusive'
  <2>1. \A s \in Requests : tx'[s] = None /\ req'[s] # "insert"
    BY <1>7 DEF Stop
  <2> QED BY <2>1 DEF Exclusive
<1> QED BY <1>1, <1>2, <1>3, <1>4, <1>5, <1>6, <1>7, ServerMoves DEF HandlerStep, CoordinatorRestarts, RestoreBackup

-----------------------------------------------------------------------------
(* The handlers and the registry.                                          *)

LEMMA RowsKept ==
    ASSUME TypeOK, [Next]_vars, ~RestoreBackup, NEW w \in Workers, proj[w] # None
    PROVE  proj'[w] # None
<1>0. proj \in Rows /\ payload \in [Requests -> Nat] /\ None \notin Nat
  BY JoinLogAssumption DEF TypeOK
<1>1. ASSUME NEW r \in Requests, Project(r) PROVE proj'[w] # None
  <2>1. proj' = [proj EXCEPT ![r[1]] = payload[r]] /\ payload[r] # None /\ r[1] \in Workers
    BY <1>0, <1>1, RequestIs DEF Project, ProjectEvent
  <2> QED BY <1>0, <2>1 DEF Rows
<1>2. ASSUME NEW r \in Requests, HandlerStep(r), ~Project(r) PROVE proj' = proj
  BY <1>2 DEF HandlerStep, BeginAppend, CommitAppend, AppendFails, ProjectFails, RegisterNode
<1>3. ASSUME NEW v \in Workers, Sends(v) PROVE proj' = proj
  BY <1>3 DEF Sends, StartWorker, HeartbeatNotFound
<1>4. CoordinatorRestarts => proj' = proj
  BY DEF CoordinatorRestarts
<1> QED BY <1>1, <1>2, <1>3, <1>4, ServerMoves DEF serverVars

LEMMA HandlesStep ==
    ASSUME TypeOK, Linked(log), Exclusive, \A w \in Workers : Numbered(w), [Next]_vars,
           NEW u \in Requests, Handles(u)
    PROVE  Handles(u)'
<1>0. /\ req \in [Requests -> ReqPlaces] /\ payload \in [Requests -> Nat] /\ u[1] \in Workers
      /\ faults \in Nat /\ faults' \in Nat /\ faults' >= faults /\ None \notin Nat
  BY RequestIs, FaultStep, JoinLogAssumption DEF TypeOK, ReqPlaces
<1>1. Fault => faults' # 0
  BY <1>0 DEF Fault
<1>2. ASSUME ~RestoreBackup, req'[u] = req[u], payload'[u] = payload[u] PROVE Handles(u)'
  <2>1. Logged(log, u, payload[u]) => Logged(log', u, payload[u])
    BY <1>2, LogGrows, ExtendedKeeps
  <2>2. proj[u[1]] # None => proj'[u[1]] # None
    BY <1>0, <1>2, RowsKept
  <2>3. faults # 0 => faults' # 0
    BY <1>0
  <2> QED BY <1>2, <2>1, <2>2, <2>3 DEF Handles
<1>3. ASSUME req'[u] \in {"none", "append", "insert", "ok"} \/ (req'[u] = "failed" /\ Fault) PROVE Handles(u)'
  BY <1>1, <1>3 DEF Handles
<1>4. ASSUME NEW r \in Requests, HandlerStep(r), ~RestoreBackup PROVE Handles(u)'
  <2>0. payload' = payload
    BY <1>4 DEF HandlerStep, BeginAppend, CommitAppend, AppendFails, Project, ProjectFails, RegisterNode, workerVars
  <2>1. CASE u # r
    <3>1. req'[u] = req[u]
      BY <1>0, <1>4, <2>1 DEF HandlerStep, BeginAppend, CommitAppend, AppendFails, Project, ProjectFails, RegisterNode, Progress
    <3> QED BY <1>2, <1>4, <2>0, <3>1
  <2>2. CASE u = r /\ (BeginAppend(r) \/ AppendFails(r) \/ ProjectFails(r) \/ RegisterNode(r))
    <3>1. req'[u] \in {"none", "append", "insert", "ok"} \/ (req'[u] = "failed" /\ Fault)
      BY <1>0, <2>2 DEF BeginAppend, AppendFails, ProjectFails, RegisterNode, Progress
    <3> QED BY <1>3, <3>1
  <2>3. CASE u = r /\ CommitAppend(r)
    <3>1. log' = Append(log, NewEvent(u)) /\ NewEvent(u) \in Events /\ req' = [req EXCEPT ![u] = "project"]
      BY <2>3, CommitIs
    <3>2. Len(log') = Len(log) + 1 /\ log'[Len(log) + 1] = NewEvent(u) /\ Len(log) \in Nat
      BY <3>1, AppendIs
    <3>3. Len(log) + 1 \in 1 .. Len(log')
      BY <3>2
    <3>4. NewEvent(u).id = u /\ NewEvent(u).payload = payload[u]
      BY DEF NewEvent
    <3>5. Logged(log', u, payload[u])
      BY <3>2, <3>3, <3>4 DEF Logged
    <3> QED BY <1>0, <2>0, <3>1, <3>5 DEF Handles
  <2>4. CASE u = r /\ Project(r)
    <3>1. req' = [req EXCEPT ![u] = "register"] /\ req[u] = "project" /\ proj' = [proj EXCEPT ![u[1]] = payload[u]] /\ log' = log
      BY <2>4 DEF Project, Progress, ProjectEvent
    <3>2. proj'[u[1]] # None
      BY <1>0, <3>1, SMTT(30) DEF TypeOK, Rows
    <3> QED BY <1>0, <2>0, <3>1, <3>2 DEF Handles
  <2> QED BY <1>4, <2>1, <2>2, <2>3, <2>4 DEF HandlerStep
<1>5. ASSUME NEW w \in Workers, Sends(w), ~RestoreBackup PROVE Handles(u)'
  <2>1. PICK n \in 0 .. MaxJoins[w] :
               /\ req' = [req EXCEPT ![<<w, n + 1>>] = "append"] /\ <<w, n + 1>> \in Requests
               /\ \E inc \in Nat : payload' = [payload EXCEPT ![<<w, n + 1>>] = inc]
    BY <1>5, SendIs
  <2>2. CASE u = <<w, n + 1>>
    BY <1>0, <1>3, <2>1, <2>2
  <2>3. CASE u # <<w, n + 1>>
    BY <1>0, <1>2, <1>5, <2>1, <2>3
  <2> QED BY <2>2, <2>3
<1>6. ASSUME Stop, Fault PROVE Handles(u)'
  <2>1. req'[u] \in {"none", "append", "insert", "ok"} \/ (req'[u] = "failed" /\ Fault)
    BY <1>6 DEF Stop
  <2> QED BY <1>3, <2>1
<1>7. ASSUME UNCHANGED <<serverVars, payload, life>>, ~RestoreBackup PROVE Handles(u)'
  BY <1>2, <1>7 DEF serverVars
<1> QED BY <1>4, <1>5, <1>6, <1>7, ServerMoves DEF CoordinatorRestarts, RestoreBackup

LEMMA RegistersStep ==
    ASSUME TypeOK, Linked(log), Exclusive, \A r \in Requests : Handles(r), [Next]_vars,
           NEW w \in Workers, Registers(w)
    PROVE  Registers(w)'
<1>0. registry \in Rows
  BY DEF TypeOK
<1>1. ASSUME ~RestoreBackup, registry'[w] = registry[w] PROVE Registers(w)'
  <2>1. Known(log, w, registry[w]) => Known(log', w, registry[w])
    BY <1>1, LogGrows, ExtendedKeeps
  <2>2. proj[w] # None => proj'[w] # None
    BY <1>1, RowsKept
  <2> QED BY <1>1, <2>1, <2>2 DEF Registers
<1>2. ASSUME NEW r \in Requests, RegisterNode(r), ~RestoreBackup PROVE Registers(w)'
  <2>1. registry' = [registry EXCEPT ![r[1]] = payload[r]] /\ UNCHANGED <<log, proj>> /\ req[r] = "register" /\ r[1] \in Workers
    BY <1>2, RequestIs DEF RegisterNode
  <2>2. CASE r[1] # w
    BY <1>0, <1>1, <1>2, <2>1, <2>2 DEF Rows
  <2>3. CASE r[1] = w
    <3>1. Logged(log, r, payload[r]) /\ proj[w] # None
      BY <2>1, <2>3 DEF Handles
    <3>2. Known(log, w, payload[r])
      BY <2>3, <3>1 DEF Logged, Known
    <3> QED BY <1>0, <2>1, <2>3, <3>1, <3>2 DEF Registers, Rows
  <2> QED BY <2>2, <2>3
<1>3. ASSUME NEW r \in Requests, HandlerStep(r), ~RegisterNode(r) PROVE registry' = registry
  BY <1>3 DEF HandlerStep, BeginAppend, CommitAppend, AppendFails, Project, ProjectFails
<1>4. ASSUME NEW v \in Workers, Sends(v) PROVE registry' = registry
  BY <1>4 DEF Sends, StartWorker, HeartbeatNotFound
<1>5. ASSUME Stop PROVE Registers(w)'
  <2>1. registry'[w] = None
    BY <1>5 DEF Stop
  <2> QED BY <2>1 DEF Registers
<1> QED BY <1>1, <1>2, <1>3, <1>4, <1>5, ServerMoves DEF serverVars, CoordinatorRestarts, RestoreBackup

-----------------------------------------------------------------------------
(* The numbering of the requests.                                          *)

Busy == {"joining", "rejoining", "head", "state"}

LEMMA NumberedStep ==
    ASSUME TypeOK, Linked(log), Exclusive, \A w \in Workers : Numbered(w), [Next]_vars, NEW u \in Workers
    PROVE  Numbered(u)'
<1>0. /\ req \in [Requests -> ReqPlaces] /\ stream \in [Requests -> StreamPlaces] /\ worker \in [Workers -> WorkerPlaces]
      /\ snap \in [Workers -> Snapshots \cup {None}] /\ MaxJoins[u] \in Nat
  BY JoinLogAssumption DEF TypeOK, ReqPlaces, StreamPlaces, WorkerPlaces
<1>1. PICK n \in 0 .. MaxJoins[u] : Counted(u, n)
  BY DEF Numbered
<1>2. ASSUME \A r \in Requests : req'[r] # "none" <=> req[r] # "none",
             \A r \in Requests : stream[r] = "none" => stream'[r] = "none",
             worker'[u] \in Busy => worker[u] \in Busy, worker'[u] = "state" => snap'[u] \in Snapshots
      PROVE  Numbered(u)'
  <2>1. ASSUME NEW k \in 1 .. MaxJoins[u]
        PROVE  (req'[<<u, k>>] # "none" <=> req[<<u, k>>] # "none") /\ (stream[<<u, k>>] = "none" => stream'[<<u, k>>] = "none")
    BY <1>2, RequestIs
  <2>2. n >= 1 => n \in 1 .. MaxJoins[u]
    BY <1>0
  <2>3. Counted(u, n)'
    BY <1>1, <1>2, <2>1, <2>2 DEF Counted, Busy
  <2> QED BY <1>2, <2>3 DEF Numbered
<1>3. ASSUME NEW R \in SUBSET Requests, Close(R) PROVE \A r \in Requests : stream[r] = "none" => stream'[r] = "none"
  BY <1>3 DEF Close
<1>4. ASSUME NEW r \in Requests, HandlerStep(r) PROVE Numbered(u)'
  <2>1. UNCHANGED <<worker, snap, stream>>
    BY <1>4 DEF HandlerStep, BeginAppend, CommitAppend, AppendFails, Project, ProjectFails, RegisterNode, workerVars, streamVars
  <2>2. \A s \in Requests : req'[s] # "none" <=> req[s] # "none"
    BY <1>0, <1>4 DEF HandlerStep, BeginAppend, CommitAppend, AppendFails, Project, ProjectFails, RegisterNode, Progress
  <2>3. worker[u] = "state" => snap[u] \in Snapshots
    BY DEF Numbered
  <2> QED BY <1>2, <2>1, <2>2, <2>3
<1>5. ASSUME NEW r \in Requests, StreamStep(r) PROVE Numbered(u)'
  <2>1. UNCHANGED <<req, snap>>
    BY <1>5, StreamStepIs DEF serverVars
  <2>2. worker'[u] = worker[u] \/ worker'[u] = "down"
    BY <1>0, <1>5, RequestIs
       DEF StreamStep, AnchorAccepted, AnchorRefused, Subscribe, Deliver, StreamCut, workerVars, Goto
  <2>3. \A s \in Requests : stream[s] = "none" => stream'[s] = "none"
    <3>1. CASE AnchorAccepted(r) \/ Subscribe(r) \/ Deliver(r)
      BY <1>0, <3>1 DEF AnchorAccepted, Subscribe, Deliver
    <3>2. CASE AnchorRefused(r)
      BY <1>3, <3>2 DEF AnchorRefused, StreamsOf
    <3>3. CASE StreamCut(r)
      BY <1>3, <3>3 DEF StreamCut
    <3> QED BY <1>5, <3>1, <3>2, <3>3 DEF StreamStep
  <2>4. worker[u] = "state" => snap[u] \in Snapshots
    BY DEF Numbered
  <2> QED BY <1>2, <2>1, <2>2, <2>3, <2>4 DEF Busy
<1>6. ASSUME NEW w \in Workers, Sends(w) PROVE Numbered(u)'
  <2>1. PICK m \in 0 .. MaxJoins[w] :
               /\ Counted(w, m) /\ m + 1 \in 1 .. MaxJoins[w] /\ <<w, m + 1>> \in Requests
               /\ stream[<<w, m + 1>>] = "none" /\ req' = [req EXCEPT ![<<w, m + 1>>] = "append"]
               /\ \E at \in {"joining", "rejoining"} : worker' = [worker EXCEPT ![w] = at]
               /\ UNCHANGED <<snap, streamVars>>
    BY <1>6, SendIs
  <2>2. stream' = stream
    BY <2>1 DEF streamVars
  <2>3. CASE w = u
    <3>1. m + 1 \in 0 .. MaxJoins[u] /\ m \in Nat
      BY <1>0, <2>1, <2>3
    <3>2. worker'[u] \in {"joining", "rejoining"}
      BY <1>0, <2>1, <2>3
    <3>3. \A k \in 1 .. MaxJoins[u] : <<u, k>> \in Requests /\ (<<u, k>> = <<u, m + 1>> <=> k = m + 1)
      BY RequestIs
    <3>4. \A k \in 1 .. MaxJoins[u] : req'[<<u, k>>] # "none" <=> k <= m + 1
      <4>1. ASSUME NEW k \in 1 .. MaxJoins[u] PROVE req'[<<u, k>>] # "none" <=> k = m + 1 \/ req[<<u, k>>] # "none"
        BY <1>0, <2>1, <2>3, <3>3
      <4>2. ASSUME NEW k \in 1 .. MaxJoins[u] PROVE req[<<u, k>>] # "none" <=> k <= m
        BY <2>1, <2>3 DEF Counted
      <4>3. \A k \in 1 .. MaxJoins[u] : k <= m + 1 <=> k = m + 1 \/ k <= m
        BY <1>0, <3>1
      <4> QED BY <4>1, <4>2, <4>3
    <3>5. \A k \in 1 .. MaxJoins[u] : k > m + 1 => stream[<<u, k>>] = "none"
      <4>1. \A k \in 1 .. MaxJoins[u] : k > m + 1 => k > m
        BY <1>0, <3>1
      <4> QED BY <2>1, <2>3, <4>1 DEF Counted
    <3>6. m + 1 >= 1
      BY <3>1
    <3>7. Counted(u, m + 1)'
      BY <2>1, <2>2, <2>3, <3>4, <3>5, <3>6 DEF Counted
    <3> QED BY <3>1, <3>2, <3>7 DEF Numbered
  <2>4. CASE w # u
    <3>1. worker'[u] = worker[u] /\ snap' = snap
      BY <1>0, <2>1, <2>4
    <3>2. \A k \in 1 .. MaxJoins[u] : req'[<<u, k>>] = req[<<u, k>>]
      <4>1. \A k \in 1 .. MaxJoins[u] : <<u, k>> \in Requests /\ <<u, k>> # <<w, m + 1>>
        BY <2>4, RequestIs
      <4> QED BY <1>0, <2>1, <4>1
    <3>3. Counted(u, n)'
      BY <1>1, <2>2, <3>1, <3>2 DEF Counted
    <3> QED BY <3>1, <3>3 DEF Numbered
  <2> QED BY <2>3, <2>4
<1>7. ASSUME NEW w \in Workers, Local(w) PROVE Numbered(u)'
  <2>1. req' = req
    BY <1>7, LocalIs DEF serverVars
  <2>2. CASE SnapshotState(w)
    <3>1. PICK m \in 0 .. MaxJoins[w] : Counted(w, m)
      BY DEF Numbered
    <3>2. /\ Current(w) = <<w, m>> /\ m >= 1 /\ stream' = [stream EXCEPT ![<<w, m>>] = "anchor"]
          /\ worker' = [worker EXCEPT ![w] = "up"]
      BY <2>2, <3>1, SentIs DEF SnapshotState, Counted, Current, Goto
    <3>3. \A k \in 1 .. MaxJoins[u] : stream'[<<u, k>>] # stream[<<u, k>>] => w = u /\ k = m
      <4>1. \A k \in 1 .. MaxJoins[u] : <<u, k>> \in Requests /\ (<<u, k>> = <<w, m>> => u = w /\ k = m)
        BY RequestIs
      <4> QED BY <1>0, <3>2, <4>1
    <3>4. CASE w = u
      <4>1. \A k \in 1 .. MaxJoins[u] : k > m => stream'[<<u, k>>] = "none"
        <5>1. \A k \in 1 .. MaxJoins[u] : k > m => k # m
          BY <1>0, <3>1, <3>4
        <5> QED BY <3>1, <3>3, <3>4, <5>1 DEF Counted
      <4>2. worker'[u] = "up"
        BY <1>0, <3>2, <3>4
      <4>3. Counted(u, m)'
        BY <2>1, <3>1, <3>4, <4>1, <4>2 DEF Counted
      <4> QED BY <3>1, <3>4, <4>2, <4>3 DEF Numbered
    <3>5. CASE w # u
      <4>1. worker'[u] = worker[u] /\ snap'[u] = snap[u]
        BY <1>0, <2>2, <3>2, <3>5 DEF SnapshotState
      <4>2. n >= 1 => n \in 1 .. MaxJoins[u]
        BY <1>0
      <4>3. Counted(u, n)'
        BY <1>1, <2>1, <3>3, <3>5, <4>1, <4>2 DEF Counted
      <4> QED BY <4>1, <4>3 DEF Numbered
    <3> QED BY <3>4, <3>5
  <2>3. CASE ~SnapshotState(w)
    <3>1. \A s \in Requests : stream[s] = "none" => stream'[s] = "none"
      <4>1. CASE WorkerDies(w)
        BY <1>3, <4>1 DEF WorkerDies, StreamsOf
      <4>2. CASE ~WorkerDies(w)
        BY <1>7, <2>3, <4>2 DEF Local, JoinAnswered, JoinTimesOut, SnapshotHead, CatchUpFails, streamVars
      <4> QED BY <4>1, <4>2
    <3>2. worker'[u] \in Busy => worker[u] \in Busy
      BY <1>0, <1>7, <2>3 DEF Local, JoinAnswered, JoinTimesOut, Unanswered, SnapshotHead, CatchUpFails, WorkerDies, Goto, Busy
    <3>3. worker'[u] = "state" => snap'[u] \in Snapshots
      <4>1. CASE SnapshotHead(w)
        <5>1. /\ snap' = [snap EXCEPT ![w] = [seq |-> HeadPosition.seq, hash |-> HeadPosition.hash, state |-> None]]
              /\ worker' = [worker EXCEPT ![w] = "state"]
          BY <4>1 DEF SnapshotHead, Goto
        <5>2. [seq |-> HeadPosition.seq, hash |-> HeadPosition.hash, state |-> None] \in Snapshots
          BY HeadIs DEF Snapshots
        <5> QED BY <1>0, <5>1, <5>2 DEF Numbered
      <4>2. CASE ~SnapshotHead(w)
        BY <1>0, <1>7, <2>3, <4>2 DEF Local, JoinAnswered, JoinTimesOut, Unanswered, CatchUpFails, WorkerDies, Goto, Numbered
      <4> QED BY <4>1, <4>2
    <3> QED BY <1>2, <2>1, <3>1, <3>2, <3>3
  <2> QED BY <2>2, <2>3
<1>8. ASSUME Stop, UNCHANGED workerVars PROVE Numbered(u)'
  <2>1. /\ \A r \in Requests : req'[r] # "none" <=> req[r] # "none"
        /\ \A r \in Requests : stream[r] = "none" => stream'[r] = "none"
    BY <1>8 DEF Stop
  <2>2. worker'[u] = worker[u] /\ snap'[u] = snap[u]
    BY <1>8 DEF workerVars
  <2> QED BY <1>2, <2>1, <2>2 DEF Numbered
<1>9. ASSUME UNCHANGED vars PROVE Numbered(u)'
  BY <1>9 DEF vars, Numbered, Counted
<1> QED BY <1>4, <1>5, <1>6, <1>7, <1>8, <1>9 DEF Next, WorkerStep, Sends, Local, CoordinatorRestarts, RestoreBackup

-----------------------------------------------------------------------------
(* The streams.                                                            *)

LEMMA HoldsAppend ==
    ASSUME NEW l, NEW s \in Seq(Events), NEW e \in Events, Holds(s, l), e.seq \in 1 .. Len(l), e = l[e.seq]
    PROVE  Holds(Append(s, e), l)
<1>1. /\ Len(Append(s, e)) = Len(s) + 1 /\ Append(s, e)[Len(s) + 1] = e /\ \A i \in 1 .. Len(s) : Append(s, e)[i] = s[i]
      /\ Len(s) \in Nat
  BY AppendProperties
<1>2. \A i \in 1 .. Len(s) + 1 : i \in 1 .. Len(s) \/ i = Len(s) + 1
  BY <1>1
<1> QED BY <1>1, <1>2 DEF Holds

LEMMA HoldsTail ==
    ASSUME NEW l, NEW s \in Seq(Events), s # <<>>, Holds(s, l)
    PROVE  Holds(Tail(s), l) /\ Head(s) \in Events /\ Head(s).seq \in 1 .. Len(l) /\ Head(s) = l[Head(s).seq]
<1>1. /\ Tail(s) \in Seq(Events) /\ Head(s) \in Events /\ Head(s) = s[1] /\ Len(Tail(s)) = Len(s) - 1 /\ Len(s) \in Nat \ {0}
      /\ \A i \in 1 .. Len(Tail(s)) : Tail(s)[i] = s[i + 1]
  BY HeadTailProperties
<1>2. 1 \in 1 .. Len(s) /\ \A i \in 1 .. Len(s) - 1 : i + 1 \in 1 .. Len(s)
  BY <1>1
<1> QED BY <1>1, <1>2 DEF Holds

\* A step closes the streams R, whether or not they were open.
LEMMA ClosedStreams ==
    ASSUME TypeOK, NEW u \in Requests, Streams(u), NEW R \in SUBSET Requests, Close(R)
    PROVE  /\ u \notin R => Same(u)
           /\ u \in R => /\ got'[u] = <<>> /\ chan'[u] = <<>> /\ ~dropped'[u]
                         /\ stream'[u] = IF stream[u] = "none" THEN "none" ELSE "closed"
<1>1. u \in R => /\ got'[u] = <<>> /\ chan'[u] = <<>> /\ ~dropped'[u]
                 /\ stream'[u] = IF stream[u] = "none" THEN "none" ELSE "closed"
  BY DEF Close
<1>2. ASSUME u \notin R PROVE Same(u)
  <2>1. dropped'[u] = (dropped[u] /\ u \notin R) /\ dropped[u] \in BOOLEAN
    BY DEF Close, TypeOK
  <2>2. dropped'[u] = dropped[u]
    BY <1>2, <2>1
  <2>3. /\ stream'[u] = stream[u] /\ cursor'[u] = cursor[u] /\ chan'[u] = chan[u] /\ got'[u] = got[u] /\ blind'[u] = blind[u]
    BY <1>2 DEF Close
  <2> QED BY <2>2, <2>3 DEF Same
<1> QED BY <1>1, <1>2

\* What a step does to a stream, seen from that stream.
Moved(u) ==
    \/ Same(u)
    \/ (\E r \in Requests : CommitAppend(r)) /\ UNCHANGED <<stream, cursor, got, blind>>
    \/ stream[u] = "none" /\ stream'[u] = "anchor" /\ UNCHANGED <<chan, got, dropped>>
    \/ AnchorAccepted(u) \/ Subscribe(u) \/ Deliver(u)
    \/ stream'[u] \in {"none", "closed", "anchor"} /\ got'[u] = <<>> /\ chan'[u] = <<>> /\ ~dropped'[u]

LEMMA StreamMoves ==
    ASSUME TypeOK, \A w \in Workers : Numbered(w), [Next]_vars, NEW u \in Requests, Streams(u)
    PROVE  Moved(u) /\ (RestoreBackup => stream'[u] \notin {"subscribe", "open"} /\ got'[u] = <<>> /\ chan'[u] = <<>> /\ ~dropped'[u])
<1>0. /\ stream \in [Requests -> StreamPlaces] /\ cursor \in [Requests -> [seq : Nat, hash : Seq(Requests)]]
      /\ chan \in [Requests -> Seq(Events)] /\ got \in [Requests -> Seq(Events)]
      /\ dropped \in [Requests -> BOOLEAN] /\ blind \in [Requests -> BOOLEAN]
  BY DEF TypeOK, StreamPlaces
<1>1. ASSUME UNCHANGED streamVars PROVE Moved(u)
  BY <1>1 DEF Moved, Same, streamVars
<1>2. ASSUME NEW R \in SUBSET Requests, Close(R) PROVE Moved(u)
  BY <1>2, ClosedStreams DEF Moved
<1>3. ASSUME NEW r \in Requests, HandlerStep(r) PROVE Moved(u)
  <2>1. CASE CommitAppend(r)
    BY <2>1 DEF Moved, CommitAppend
  <2>2. CASE ~CommitAppend(r)
    <3>1. UNCHANGED streamVars
      BY <1>3, <2>2 DEF HandlerStep, BeginAppend, AppendFails, Project, ProjectFails, RegisterNode
    <3> QED BY <1>1, <3>1
  <2> QED BY <2>1, <2>2
<1>4. ASSUME NEW w \in Workers, WorkerStep(w) PROVE Moved(u)
  <2>1. CASE SnapshotState(w)
    <3>1. PICK n \in 0 .. MaxJoins[w] : Counted(w, n)
      BY DEF Numbered
    <3>2. /\ Current(w) = <<w, n>> /\ stream[<<w, n>>] = "none" /\ stream' = [stream EXCEPT ![<<w, n>>] = "anchor"]
          /\ cursor' = [cursor EXCEPT ![<<w, n>>] = [seq |-> snap[w].seq, hash |-> snap[w].hash]]
          /\ UNCHANGED <<chan, got, dropped, blind>>
      BY <2>1, <3>1, SentIs DEF SnapshotState, Counted, Current
    <3>3. CASE u = <<w, n>>
      BY <1>0, <3>2, <3>3 DEF Moved
    <3>4. CASE u # <<w, n>>
      BY <1>0, <3>2, <3>4 DEF Moved, Same
    <3> QED BY <3>3, <3>4
  <2>2. CASE WorkerDies(w)
    BY <1>2, <2>2 DEF WorkerDies, StreamsOf
  <2>3. CASE ~SnapshotState(w) /\ ~WorkerDies(w)
    <3>1. UNCHANGED streamVars
      BY <1>4, <2>3 DEF WorkerStep, StartWorker, JoinAnswered, JoinTimesOut, SnapshotHead, CatchUpFails, HeartbeatNotFound
    <3> QED BY <1>1, <3>1
  <2> QED BY <2>1, <2>2, <2>3
<1>5. ASSUME NEW r \in Requests, StreamStep(r) PROVE Moved(u)
  <2>1. CASE u = r /\ (AnchorAccepted(r) \/ Subscribe(r) \/ Deliver(r))
    BY <2>1 DEF Moved
  <2>2. CASE u # r /\ (AnchorAccepted(r) \/ Subscribe(r) \/ Deliver(r))
    <3>1. Same(u)
      BY <1>0, <2>2 DEF AnchorAccepted, Subscribe, Deliver, Same
    <3> QED BY <3>1 DEF Moved
  <2>3. CASE AnchorRefused(r)
    BY <1>2, <2>3 DEF AnchorRefused, StreamsOf
  <2>4. CASE StreamCut(r)
    BY <1>2, <2>4 DEF StreamCut
  <2> QED BY <1>5, <2>1, <2>2, <2>3, <2>4 DEF StreamStep
<1>6. ASSUME Stop
      PROVE  Moved(u) /\ stream'[u] \notin {"subscribe", "open"} /\ got'[u] = <<>> /\ chan'[u] = <<>> /\ ~dropped'[u]
  <2>1. stream'[u] \in {"none", "closed", "anchor"} /\ got'[u] = <<>> /\ chan'[u] = <<>> /\ ~dropped'[u]
    BY <1>0, <1>6 DEF Stop, StreamPlaces
  <2> QED BY <2>1 DEF Moved
<1>7. UNCHANGED vars => Moved(u)
  BY DEF vars, Moved, Same
<1> QED BY <1>3, <1>4, <1>5, <1>6, <1>7 DEF Next, CoordinatorRestarts, RestoreBackup

LEMMA StreamsStep ==
    ASSUME TypeOK, Linked(log), Exclusive, \A w \in Workers : Numbered(w), [Next]_vars, NEW u \in Requests, Streams(u)
    PROVE  Streams(u)'
<1>0. /\ stream \in [Requests -> StreamPlaces] /\ cursor \in [Requests -> [seq : Nat, hash : Seq(Requests)]]
      /\ chan \in [Requests -> Seq(Events)] /\ got \in [Requests -> Seq(Events)] /\ log \in Seq(Events)
      /\ dropped \in [Requests -> BOOLEAN] /\ blind \in [Requests -> BOOLEAN]
      /\ chan[u] \in Seq(Events) /\ got[u] \in Seq(Events) /\ cursor[u].seq \in Nat /\ Len(log) \in Nat
  BY DEF TypeOK, StreamPlaces
<1>1. CASE stream'[u] \in {"none", "closed", "anchor"} /\ got'[u] = <<>> /\ chan'[u] = <<>> /\ ~dropped'[u]
  BY <1>1 DEF Streams
<1>2. CASE RestoreBackup
  <2>1. stream'[u] \notin {"subscribe", "open"} /\ got'[u] = <<>> /\ chan'[u] = <<>> /\ ~dropped'[u]
    BY <1>2, StreamMoves
  <2> QED BY <2>1 DEF Streams
<1>3. CASE ~RestoreBackup
  <2>1. Extended(log')
    BY <1>3, LogGrows
  <2>2. \A s : Holds(s, log) => Holds(s, log')
    BY <2>1, ExtendedKeeps
  <2>3. ASSUME cursor[u].seq > 0, cursor[u].seq <= Len(log), log[cursor[u].seq].hash = cursor[u].hash
        PROVE  cursor[u].seq <= Len(log') /\ log'[cursor[u].seq].hash = cursor[u].hash
    <3>1. cursor[u].seq \in 1 .. Len(log)
      BY <1>0, <2>3
    <3> QED BY <2>1, <2>3, <3>1 DEF Extended
  <2>4. CASE Same(u)
    BY <2>2, <2>3, <2>4 DEF Same, Streams
  <2>5. ASSUME NEW r \in Requests, CommitAppend(r), UNCHANGED <<stream, cursor, got, blind>> PROVE Streams(u)'
    <3>1. log' = Append(log, NewEvent(r)) /\ NewEvent(r) \in Events /\ Broadcast(NewEvent(r))
      BY <2>5, CommitIs
    <3>2. NewEvent(r).seq \in 1 .. Len(log') /\ NewEvent(r) = log'[NewEvent(r).seq]
      <4>1. NewEvent(r).seq = Len(log) + 1
        BY DEF NewEvent
      <4>2. Len(log') = Len(log) + 1 /\ log'[Len(log) + 1] = NewEvent(r)
        BY <3>1, AppendIs
      <4>3. Len(log) + 1 \in 1 .. Len(log) + 1
        BY <1>0
      <4> QED BY <4>1, <4>2, <4>3
    <3>3. CASE stream[u] # "open"
      <4>1. chan'[u] = chan[u] /\ dropped'[u] = dropped[u]
        BY <3>1, <3>3, BroadcastIs
      <4> QED BY <2>3, <2>5, <3>3, <4>1 DEF Streams
    <3>4. CASE stream[u] = "open"
      <4>1. chan'[u] = Append(chan[u], NewEvent(r)) \/ chan'[u] = chan[u]
        BY <3>1, <3>4, BroadcastIs
      <4>2. Holds(chan[u], log') /\ Holds(got[u], log')
        BY <2>2, <3>4 DEF Streams
      <4>3. Holds(chan'[u], log')
        BY <1>0, <3>1, <3>2, <4>1, <4>2, HoldsAppend
      <4> QED BY <2>3, <2>5, <3>4, <4>2, <4>3 DEF Streams
    <3> QED BY <3>3, <3>4
  <2>6. CASE stream[u] = "none" /\ stream'[u] = "anchor" /\ UNCHANGED <<chan, got, dropped>>
    BY <2>6 DEF Streams
  <2>7. CASE AnchorAccepted(u)
    <3>1. /\ stream[u] = "anchor" /\ stream'[u] = "subscribe" /\ ~Diverges(cursor[u])
          /\ UNCHANGED <<log, cursor, chan, got, dropped>>
      BY <1>0, <2>7 DEF AnchorAccepted, serverVars
    <3>2. blind'[u] = (cursor[u].seq > Len(log))
      BY <1>0, <2>7 DEF AnchorAccepted
    <3>3. ~blind'[u] /\ cursor[u].seq > 0 => cursor[u].seq <= Len(log) /\ log[cursor[u].seq].hash = cursor[u].hash
      <4>0. PICK k \in Nat, m \in Nat : k = cursor[u].seq /\ m = Len(log)
        BY <1>0
      <4>a. blind'[u] = (k > m)
        BY <3>2, <4>0, Zenon
      <4>b. ~blind'[u] => ~(k > m)
        BY <4>a, Zenon
      <4>c. ~(k > m) /\ k > 0 => k <= m /\ k \in 1 .. m
        BY <4>0
      <4>1. ~blind'[u] /\ cursor[u].seq > 0 => cursor[u].seq <= Len(log) /\ cursor[u].seq \in 1 .. Len(log)
        BY <4>0, <4>b, <4>c, Zenon
      <4> QED BY <3>1, <4>1 DEF Diverges
    <3> QED BY <3>1, <3>3 DEF Streams
  <2>8. CASE Subscribe(u)
    <3>1. /\ stream[u] = "subscribe" /\ stream'[u] = "open" /\ chan'[u] = EventsSince(cursor[u].seq)
          /\ UNCHANGED <<log, cursor, got, dropped, blind>>
      BY <1>0, <2>8 DEF Subscribe, serverVars
    <3>2. Holds(EventsSince(cursor[u].seq), log)
      BY <1>0, HistoryType
    <3>3. Holds(got[u], log)
      BY <3>1 DEF Streams, Holds
    <3> QED BY <3>1, <3>2, <3>3 DEF Streams
  <2>9. CASE Deliver(u)
    <3>1. /\ stream[u] = "open" /\ chan[u] # <<>> /\ got'[u] = Append(got[u], Head(chan[u])) /\ chan'[u] = Tail(chan[u])
          /\ UNCHANGED <<log, stream, cursor, dropped, blind>>
      BY <1>0, <2>9 DEF Deliver, serverVars
    <3>2. Holds(got[u], log) /\ Holds(chan[u], log)
      BY <3>1 DEF Streams
    <3>3. Holds(Tail(chan[u]), log) /\ Head(chan[u]) \in Events /\ Head(chan[u]).seq \in 1 .. Len(log) /\ Head(chan[u]) = log[Head(chan[u]).seq]
      BY <1>0, <3>1, <3>2, HoldsTail
    <3>4. Holds(Append(got[u], Head(chan[u])), log)
      BY <1>0, <3>2, <3>3, HoldsAppend
    <3> QED BY <3>1, <3>3, <3>4 DEF Streams
  <2> QED BY <1>1, <2>4, <2>5, <2>6, <2>7, <2>8, <2>9, StreamMoves DEF Moved
<1> QED BY <1>2, <1>3

-----------------------------------------------------------------------------
(* The invariants.                                                         *)

LEMMA JoinInit == Init => JoinInv
<1> SUFFICES ASSUME Init PROVE JoinInv
  OBVIOUS
<1>1. TypeOK
  <2>1. /\ log \in Seq(Events) /\ proj \in Rows /\ registry \in Rows
        /\ tx \in [Requests -> Seq(Requests) \cup {None}]
        /\ req \in [Requests -> {"none", "append", "insert", "project", "register", "ok", "failed"}]
    BY DEF Init, Rows
  <2>2. /\ payload \in [Requests -> Nat] /\ life \in [Workers -> Nat]
        /\ worker \in [Workers -> {"down", "joining", "rejoining", "head", "state", "up"}]
        /\ snap \in [Workers -> Snapshots \cup {None}]
        /\ stream \in [Requests -> {"none", "anchor", "subscribe", "open", "closed"}]
    BY DEF Init
  <2>3. <<>> \in Seq(Requests) /\ <<>> \in Seq(Events) /\ 0 \in Nat
    OBVIOUS
  <2>4. cursor \in [Requests -> [seq : Nat, hash : Seq(Requests)]]
    BY <2>3 DEF Init
  <2>5. chan \in [Requests -> Seq(Events)] /\ got \in [Requests -> Seq(Events)] /\ size \in [Requests -> Nat]
    BY <2>3 DEF Init
  <2>6. dropped \in [Requests -> BOOLEAN] /\ blind \in [Requests -> BOOLEAN]
    BY DEF Init
  <2>7. faults \in 0 .. MaxFaults
    BY JoinLogAssumption DEF Init
  <2> QED BY <2>1, <2>2, <2>4, <2>5, <2>6, <2>7 DEF TypeOK
<1>2. Linked(log) /\ Exclusive
  BY DEF Init, Linked, Exclusive
<1>3. ASSUME NEW r \in Requests PROVE Handles(r) /\ Streams(r)
  BY DEF Init, Handles, Streams
<1>4. ASSUME NEW w \in Workers PROVE Registers(w) /\ Numbered(w)
  <2>1. Registers(w) /\ worker[w] = "down"
    BY DEF Init, Registers
  <2>2. \A k \in 1 .. MaxJoins[w] : req[<<w, k>>] = "none" /\ stream[<<w, k>>] = "none" /\ ~(k <= 0)
    BY RequestIs DEF Init
  <2>3. Counted(w, 0) /\ 0 \in 0 .. MaxJoins[w]
    BY <2>1, <2>2, JoinLogAssumption DEF Counted
  <2> QED BY <2>1, <2>3 DEF Numbered
<1> QED BY <1>1, <1>2, <1>3, <1>4 DEF JoinInv

LEMMA JoinStep == JoinInv /\ [Next]_vars => JoinInv'
<1> SUFFICES ASSUME JoinInv, [Next]_vars PROVE JoinInv'
  OBVIOUS
<1>0. /\ TypeOK /\ Linked(log) /\ Exclusive
      /\ \A r \in Requests : Handles(r) /\ Streams(r)
      /\ \A w \in Workers : Registers(w) /\ Numbered(w)
  BY DEF JoinInv
<1>1. TypeOK' /\ Linked(log)' /\ Exclusive'
  BY <1>0, TypeStep, LinkedStep, ExclusiveStep
<1>2. \A r \in Requests : Handles(r)' /\ Streams(r)'
  BY <1>0, HandlesStep, StreamsStep
<1>3. \A w \in Workers : Registers(w)' /\ Numbered(w)'
  BY <1>0, RegistersStep, NumberedStep
<1> QED BY <1>1, <1>2, <1>3 DEF JoinInv

LEMMA JoinInvariant == Spec => []JoinInv
<1> QED BY JoinInit, JoinStep, PTL DEF Spec

\* The types of the log, the tables, the handlers, the workers and the streams, for
\* any workers, numbers of joins, capacities and disturbances.
THEOREM JoinTypeCorrect == Spec => []TypeOK
<1>1. JoinInv => TypeOK
  BY DEF JoinInv
<1> QED BY <1>1, JoinInvariant, PTL

\* Append under Log.mu and BEGIN IMMEDIATE: the log is one chain whatever joins race,
\* the UNIQUE constraint behind the locks never refuses one of them, and the registry
\* never runs ahead of the log and the projection, for any number of workers.
THEOREM JoinSerialized == Spec => []JoinsSerialize
<1>1. JoinInv => JoinsSerialize
  <2> SUFFICES ASSUME JoinInv PROVE JoinsSerialize
    OBVIOUS
  <2>0. TypeOK /\ Linked(log) /\ (\A r \in Requests : Handles(r)) /\ (\A w \in Workers : Registers(w))
    BY DEF JoinInv
  <2>1. VerifyChain(log)
    <3>1. ASSUME NEW i \in 1 .. Len(log)
          PROVE  /\ log[i].prev = (IF i = 1 THEN <<>> ELSE log[i - 1].hash)
                 /\ log[i].hash = ComputeEventHash(log[i].id, log[i].prev)
      <4>1. i # 1 => i > 1
        OBVIOUS
      <4> QED BY <2>0, <4>1 DEF Linked, ComputeEventHash
    <3> QED BY <3>1 DEF VerifyChain
  <2>2. faults = 0 => \A r \in Requests : req[r] # "failed"
    BY <2>0 DEF Handles
  <2>3. \A w \in Workers : registry[w] # None =>
           /\ \E i \in 1 .. Len(log) : log[i].id[1] = w /\ log[i].payload = registry[w]
           /\ proj[w] # None
    BY <2>0 DEF Registers, Known
  <2> QED BY <2>1, <2>2, <2>3 DEF JoinsSerialize
<1> QED BY <1>1, JoinInvariant, PTL

\* HandleEvents' comparison of Last-Event-ID: what a worker is sent is linked to the
\* event it named, although the log may have been replaced between the two.
THEOREM JoinAnchored == Spec => []AnchorContinuity
<1>1. JoinInv => AnchorContinuity
  <2> SUFFICES ASSUME JoinInv, NEW r \in Requests, stream[r] = "open", ~blind[r], got[r] \o chan[r] # <<>>,
                      cursor[r].seq > 0, (got[r] \o chan[r])[1].seq = cursor[r].seq + 1
               PROVE  (got[r] \o chan[r])[1].prev = cursor[r].hash
    BY DEF AnchorContinuity
  <2>0. /\ TypeOK /\ Linked(log) /\ Streams(r) /\ got[r] \in Seq(Events) /\ chan[r] \in Seq(Events) /\ cursor[r].seq \in Nat
    BY DEF JoinInv, TypeOK
  <2>1. cursor[r].seq <= Len(log) /\ log[cursor[r].seq].hash = cursor[r].hash /\ Holds(got[r], log) /\ Holds(chan[r], log)
    BY <2>0 DEF Streams
  <2>2. PICK e : e = (got[r] \o chan[r])[1] /\ e.seq \in 1 .. Len(log) /\ e = log[e.seq]
    <3>1. CASE got[r] = <<>>
      <4>1. got[r] \o chan[r] = chan[r]
        BY <2>0, <3>1, ConcatEmptySeq
      <4>2. 1 \in 1 .. Len(chan[r])
        BY <2>0, <4>1
      <4> QED BY <2>1, <4>1, <4>2 DEF Holds
    <3>2. CASE got[r] # <<>>
      <4>1. 1 \in 1 .. Len(got[r]) /\ 1 \in 1 .. Len(got[r]) + Len(chan[r]) /\ 1 <= Len(got[r])
        <5>1. PICK k \in Nat \ {0}, m \in Nat : k = Len(got[r]) /\ m = Len(chan[r])
          BY <2>0, <3>2
        <5>a. k \in Nat \ {0} /\ m \in Nat
          BY <5>1
        <5>2. 1 \in 1 .. k /\ 1 \in 1 .. k + m /\ 1 <= k
          BY <5>a
        <5> QED BY <5>1, <5>2, Zenon
      <4>2. (got[r] \o chan[r])[1] = got[r][1]
        BY <2>0, <4>1, ConcatProperties
      <4> QED BY <2>1, <4>1, <4>2 DEF Holds
    <3> QED BY <3>1, <3>2
  <2>3. PICK k \in Nat : k = cursor[r].seq
    BY <2>0
  <2>4. e.seq = k + 1 /\ e.seq > 1 /\ e.seq - 1 = k
    <3>1. e.seq = k + 1 /\ k > 0
      BY <2>2, <2>3, Zenon
    <3>2. k + 1 > 1 /\ k + 1 - 1 = k
      BY <2>3, <3>1
    <3> QED BY <3>1, <3>2
  <2>5. log[e.seq].prev = log[e.seq - 1].hash
    BY <2>0, <2>2, <2>4 DEF Linked
  <2> QED BY <2>1, <2>2, <2>3, <2>4, <2>5
<1> QED BY <1>1, JoinInvariant, PTL

-----------------------------------------------------------------------------
(* JoinLog implements EventFeed.                                           *)

LEMMA ConcatAppend ==
    ASSUME NEW S, NEW s \in Seq(S), NEW t \in Seq(S), NEW e \in S
    PROVE  s \o Append(t, e) = Append(s \o t, e)
<1>1. <<e>> \in Seq(S) /\ s \o t \in Seq(S)
  BY ConcatProperties
<1>2. Append(t, e) = t \o <<e>> /\ Append(s \o t, e) = (s \o t) \o <<e>>
  BY <1>1, AppendIsConcat
<1>3. (s \o t) \o <<e>> = s \o (t \o <<e>>)
  BY <1>1, ConcatAssociative
<1> QED BY <1>2, <1>3, Zenon

LEMMA ConcatShift ==
    ASSUME NEW S, NEW s \in Seq(S), NEW t \in Seq(S), t # <<>>
    PROVE  Append(s, Head(t)) \o Tail(t) = s \o t
<1>1. Head(t) \in S /\ Tail(t) \in Seq(S) /\ Head(t) = t[1] /\ Len(t) \in Nat \ {0}
  BY HeadTailProperties
<1>2. <<Head(t)>> \in Seq(S) /\ 1 \in 1 .. Len(t) /\ Len(t) \in 1 .. Len(t)
  BY <1>1
<1>3. Append(s, Head(t)) = s \o <<Head(t)>>
  BY <1>1, AppendIsConcat
<1>4. <<Head(t)>> \o Tail(t) = t
  <2>1. SubSeq(t, 1, Len(t)) = <<t[1]>> \o SubSeq(t, 1 + 1, Len(t))
    BY <1>2, SubSeqRecursiveFirst
  <2>2. SubSeq(t, 1, Len(t)) = t /\ Tail(t) = SubSeq(t, 2, Len(t))
    BY SubSeqFull, TailIsSubSeq
  <2> QED BY <1>1, <2>1, <2>2
<1>5. (s \o <<Head(t)>>) \o Tail(t) = s \o (<<Head(t)>> \o Tail(t))
  BY <1>1, <1>2, ConcatAssociative
<1> QED BY <1>3, <1>4, <1>5, Zenon

ModeOf(st, d) == IF st = "open" THEN IF d THEN "lossy" ELSE "on"
                 ELSE IF st = "closed" THEN "gone" ELSE "off"
Position == [r \in Requests |-> cursor[r].seq]

LEMMA FeedIs ==
    /\ FeedMode = [r \in Requests |-> ModeOf(stream[r], dropped[r])]
    /\ FeedMode' = [r \in Requests |-> ModeOf(stream'[r], dropped'[r])]
    /\ FeedView = [r \in Requests |-> got[r] \o chan[r]]
    /\ FeedView' = [r \in Requests |-> got'[r] \o chan'[r]]
  BY DEF FeedMode, FeedView, ModeOf

LEMMA FeedInit == Init => Feed!Init
<1> SUFFICES ASSUME Init PROVE Feed!Init
  OBVIOUS
<1>1. FeedMode = [r \in Requests |-> "off"]
  BY FeedIs DEF Init, ModeOf
<1>2. FeedView = [r \in Requests |-> <<>>]
  <2>1. <<>> \o <<>> = <<>>
    BY ConcatEmptySeq, EmptySeq
  <2> QED BY <2>1, FeedIs DEF Init
<1>3. Position = [r \in Requests |-> 0]
  BY DEF Init, Position
<1> QED BY <1>1, <1>2, <1>3 DEF Init, Feed!Init, Position

\* A step that the feed does not see.
Unseen == UNCHANGED <<log, Position, FeedView, FeedMode>>

LEMMA UnseenIs == Unseen => UNCHANGED Feed!vars
  BY DEF Unseen, Feed!vars, Position

LEMMA FeedPublish ==
    ASSUME JoinInv, NEW r \in Requests, CommitAppend(r)
    PROVE  Feed!Publish
<1> DEFINE e == NewEvent(r)
<1>0. /\ TypeOK /\ Linked(log) /\ Exclusive /\ \A u \in Requests : got[u] \in Seq(Events) /\ chan[u] \in Seq(Events)
  BY DEF JoinInv, TypeOK
<1>1. /\ e \in Events /\ log' = Append(log, e) /\ Broadcast(e) /\ UNCHANGED <<stream, cursor, got>>
  BY <1>0, CommitIs
<1>2. Len(log') = Len(log) + 1 /\ log'[Len(log) + 1] = e /\ Len(log) \in Nat /\ \A i \in 1 .. Len(log) : log'[i] = log[i]
  BY <1>0, <1>1, AppendIs
<1>3. SubSeq(log', 1, Len(log)) = log
  <2>1. log \in Seq(Events) /\ \A i \in 1 .. Len(log) : log'[i] \in Events
    BY <1>0, <1>2, EventIs DEF TypeOK
  <2>2. /\ SubSeq(log', 1, Len(log)) \in Seq(Events)
        /\ Len(SubSeq(log', 1, Len(log))) = (IF 1 <= Len(log) THEN Len(log) - 1 + 1 ELSE 0)
        /\ \A i \in 1 .. Len(log) - 1 + 1 : SubSeq(log', 1, Len(log))[i] = log'[1 + i - 1]
    BY <1>2, <2>1, SubSeqProperties
  <2>3. /\ (IF 1 <= Len(log) THEN Len(log) - 1 + 1 ELSE 0) = Len(log) /\ Len(log) - 1 + 1 = Len(log)
        /\ \A i \in 1 .. Len(log) : 1 + i - 1 = i
    BY <1>2
  <2>4. Len(SubSeq(log', 1, Len(log))) = Len(log) /\ \A i \in 1 .. Len(log) : SubSeq(log', 1, Len(log))[i] = log[i]
    BY <1>2, <2>2, <2>3
  <2> QED BY <2>1, <2>2, <2>4, SeqEqual
<1> HIDE DEF e
<1>4. ASSUME NEW u \in Requests
      PROVE  \/ FeedMode[u] \in {"on", "lossy"} /\ FeedView'[u] = Append(FeedView[u], e) /\ FeedMode'[u] = FeedMode[u]
             \/ FeedMode[u] \in {"on", "lossy"} /\ FeedView'[u] = FeedView[u] /\ FeedMode'[u] = "lossy"
             \/ FeedMode[u] \in {"off", "gone"} /\ FeedView'[u] = FeedView[u] /\ FeedMode'[u] = FeedMode[u]
  <2>0. /\ FeedMode[u] = ModeOf(stream[u], dropped[u]) /\ FeedMode'[u] = ModeOf(stream[u], dropped'[u])
        /\ FeedView[u] = got[u] \o chan[u] /\ FeedView'[u] = got[u] \o chan'[u]
    BY <1>1, FeedIs
  <2>1. CASE stream[u] # "open"
    <3>1. chan'[u] = chan[u] /\ dropped'[u] = dropped[u]
      BY <1>0, <1>1, <2>1, BroadcastIs
    <3> QED BY <2>0, <2>1, <3>1 DEF ModeOf
  <2>2. CASE stream[u] = "open" /\ chan'[u] = Append(chan[u], e) /\ dropped'[u] = dropped[u]
    <3>1. got[u] \o Append(chan[u], e) = Append(got[u] \o chan[u], e)
      <4>1. PICK g \in Seq(Events), c \in Seq(Events), x \in Events : g = got[u] /\ c = chan[u] /\ x = e
        BY <1>0, <1>1
      <4>2. g \o Append(c, x) = Append(g \o c, x)
        BY ConcatAppend
      <4> QED BY <4>1, <4>2, Zenon
    <3> QED BY <2>0, <2>2, <3>1 DEF ModeOf
  <2>3. CASE stream[u] = "open" /\ chan'[u] = chan[u] /\ dropped'[u]
    BY <2>0, <2>3 DEF ModeOf
  <2> QED BY <1>0, <1>1, <2>1, <2>2, <2>3, BroadcastIs
<1>5. DOMAIN FeedView' = Requests /\ DOMAIN FeedMode' = Requests
  BY FeedIs
<1>6. Position' = Position
  BY <1>1 DEF Position
<1>7. log'[Len(log')] = e
  BY <1>2
<1> QED BY <1>2, <1>3, <1>4, <1>5, <1>6, <1>7 DEF Feed!Publish, Feed!Given, Position

\* A step after which a stream has the same view and mode.
LEMMA FeedSame ==
    ASSUME NEW u \in Requests, Same(u)
    PROVE  FeedView'[u] = FeedView[u] /\ FeedMode'[u] = FeedMode[u]
  BY FeedIs DEF Same

LEMMA FeedStutters ==
    ASSUME log' = log, Position' = Position,
           \A u \in Requests : FeedView'[u] = FeedView[u] /\ FeedMode'[u] = FeedMode[u]
    PROVE  UNCHANGED Feed!vars
<1>1. FeedView' = FeedView /\ FeedMode' = FeedMode
  BY FeedIs
<1> QED BY <1>1, UnseenIs DEF Unseen

\* The readers R leave, and the log stays or, when all of them leave, is cut.
LEMMA FeedDetach ==
    ASSUME NEW R \in SUBSET Requests, cursor' = cursor,
           \A u \in R : FeedMode'[u] = "gone" /\ FeedView'[u] = <<>>,
           \A u \in Requests \ R : FeedMode'[u] = FeedMode[u] /\ FeedView'[u] = FeedView[u],
           \/ log' = log
           \/ /\ \A u \in Requests \ R : FeedMode[u] \in {"off", "gone"}
              /\ \E n \in 0 .. Len(log) : log' = SubSeq(log, 1, n)
    PROVE  Feed!Next
<1>1. FeedMode' = [u \in Requests |-> IF u \in R THEN "gone" ELSE FeedMode[u]]
  <2>1. FeedMode' = [u \in Requests |-> FeedMode'[u]]
    BY FeedIs
  <2> QED BY <2>1
<1>2. FeedView' = [u \in Requests |-> IF u \in R THEN <<>> ELSE FeedView[u]]
  <2>1. FeedView' = [u \in Requests |-> FeedView'[u]]
    BY FeedIs
  <2> QED BY <2>1
<1>3. Feed!Detach(R)
  BY <1>1, <1>2 DEF Feed!Detach
<1> QED BY <1>3 DEF Feed!Next

LEMMA FeedClose ==
    ASSUME JoinInv, NEW R \in SUBSET Requests, Close(R), log' = log
    PROVE  Feed!Next
<1> DEFINE Q == {u \in R : stream[u] # "none"}
<1>0. TypeOK /\ (\A u \in Requests : Streams(u)) /\ <<>> \o <<>> = <<>>
  BY ConcatEmptySeq, EmptySeq DEF JoinInv
<1>1. ASSUME NEW u \in Q PROVE FeedMode'[u] = "gone" /\ FeedView'[u] = <<>>
  <2>1. got'[u] = <<>> /\ chan'[u] = <<>> /\ stream'[u] = "closed"
    BY <1>0, ClosedStreams
  <2> QED BY <1>0, <2>1, FeedIs DEF ModeOf
<1>2. ASSUME NEW u \in Requests \ Q PROVE FeedMode'[u] = FeedMode[u] /\ FeedView'[u] = FeedView[u]
  <2>1. CASE u \notin R
    BY <1>0, <2>1, ClosedStreams, FeedSame
  <2>2. CASE u \in R /\ stream[u] = "none"
    <3>1. /\ got'[u] = <<>> /\ chan'[u] = <<>> /\ stream'[u] = "none"
          /\ got[u] = <<>> /\ chan[u] = <<>>
      BY <1>0, <2>2, ClosedStreams DEF Streams
    <3> QED BY <2>2, <3>1, FeedIs DEF ModeOf
  <2> QED BY <1>2, <2>1, <2>2
<1>3. cursor' = cursor /\ Q \in SUBSET Requests
  BY DEF Close
<1> HIDE DEF Q
<1> QED BY <1>1, <1>2, <1>3, FeedDetach

LEMMA FeedStop ==
    ASSUME JoinInv, Stop, log' = log \/ \E n \in 0 .. Len(log) : log' = SubSeq(log, 1, n)
    PROVE  Feed!Next
<1> DEFINE Q == {u \in Requests : stream[u] \in {"subscribe", "open"}}
<1>0. (\A u \in Requests : Streams(u)) /\ <<>> \o <<>> = <<>>
  BY ConcatEmptySeq, EmptySeq DEF JoinInv
<1>1. ASSUME NEW u \in Requests
      PROVE  /\ got'[u] = <<>> /\ chan'[u] = <<>>
             /\ stream'[u] = IF stream[u] \in {"subscribe", "open"} THEN "closed" ELSE stream[u]
  BY DEF Stop
<1>2. ASSUME NEW u \in Q PROVE FeedMode'[u] = "gone" /\ FeedView'[u] = <<>>
  BY <1>0, <1>1, FeedIs DEF ModeOf
<1>3. ASSUME NEW u \in Requests \ Q
      PROVE  FeedMode'[u] = FeedMode[u] /\ FeedView'[u] = FeedView[u] /\ FeedMode[u] \in {"off", "gone"}
  <2>1. stream[u] \notin {"subscribe", "open"} /\ got[u] = <<>> /\ chan[u] = <<>> /\ stream'[u] = stream[u]
    BY <1>0, <1>1 DEF Streams
  <2> QED BY <1>1, <2>1, FeedIs DEF ModeOf
<1>4. cursor' = cursor /\ Q \in SUBSET Requests
  BY DEF Stop
<1> HIDE DEF Q
<1> QED BY <1>2, <1>3, <1>4, FeedDetach

LEMMA FeedChoose ==
    ASSUME JoinInv, NEW w \in Workers, SnapshotState(w)
    PROVE  Feed!Next
<1>0. /\ TypeOK /\ Numbered(w) /\ stream \in [Requests -> StreamPlaces]
      /\ cursor \in [Requests -> [seq : Nat, hash : Seq(Requests)]]
  BY DEF JoinInv, TypeOK, StreamPlaces
<1>1. PICK n \in 0 .. MaxJoins[w] : Counted(w, n)
  BY <1>0 DEF Numbered
<1>2. /\ Current(w) = <<w, n>> /\ n >= 1 /\ stream[<<w, n>>] = "none" /\ stream' = [stream EXCEPT ![<<w, n>>] = "anchor"]
      /\ cursor' = [cursor EXCEPT ![<<w, n>>] = [seq |-> snap[w].seq, hash |-> snap[w].hash]]
      /\ UNCHANGED <<log, chan, got, dropped>>
  BY <1>0, <1>1, SentIs DEF SnapshotState, Counted, Current, serverVars
<1>3. PICK c \in Requests : c = <<w, n>>
  BY <1>1, <1>2, RequestIs, JoinLogAssumption
<1>4. FeedView' = FeedView /\ FeedMode' = FeedMode /\ FeedMode[c] = "off"
  BY <1>0, <1>2, <1>3, FeedIs DEF ModeOf
<1>5. Position' = [Position EXCEPT ![c] = Position'[c]]
  BY <1>0, <1>2, <1>3 DEF Position
<1>6. Feed!Choose(c)
  BY <1>2, <1>4, <1>5 DEF Feed!Choose, Position
<1> QED BY <1>6 DEF Feed!Next

LEMMA FeedAttach ==
    ASSUME JoinInv, NEW r \in Requests, Subscribe(r)
    PROVE  Feed!Next
<1>0. /\ TypeOK /\ Streams(r) /\ stream \in [Requests -> StreamPlaces] /\ cursor[r].seq \in Nat
      /\ chan \in [Requests -> Seq(Events)]
  BY DEF JoinInv, TypeOK, StreamPlaces
<1>1. /\ stream[r] = "subscribe" /\ stream' = [stream EXCEPT ![r] = "open"]
      /\ chan' = [chan EXCEPT ![r] = EventsSince(cursor[r].seq)] /\ UNCHANGED <<log, cursor, got, dropped>>
  BY DEF Subscribe, serverVars
<1>2. got[r] = <<>> /\ ~dropped[r]
  BY <1>0, <1>1 DEF Streams
<1>3. <<>> \o EventsSince(cursor[r].seq) = EventsSince(cursor[r].seq)
  <2>1. EventsSince(cursor[r].seq) \in Seq(Events)
    BY <1>0, HistoryType
  <2> QED BY <2>1, ConcatEmptySeq
<1>4. FeedView' = [FeedView EXCEPT ![r] = SubSeq(log, Position[r] + 1, Len(log))]
  <2>1. EventsSince(cursor[r].seq) = SubSeq(log, Position[r] + 1, Len(log))
    BY DEF EventsSince, Position
  <2> QED BY <1>0, <1>1, <1>2, <1>3, <2>1, FeedIs
<1>5. FeedMode[r] = "off" /\ FeedMode' = [FeedMode EXCEPT ![r] = "on"]
  BY <1>0, <1>1, <1>2, FeedIs DEF ModeOf
<1>6. Feed!Attach(r)
  BY <1>1, <1>4, <1>5 DEF Feed!Attach, Position
<1> QED BY <1>6 DEF Feed!Next

LEMMA FeedStep ==
    ASSUME JoinInv, [Next]_vars
    PROVE  [Feed!Next]_(Feed!vars)
<1>0. /\ TypeOK /\ (\A u \in Requests : Streams(u)) /\ stream \in [Requests -> StreamPlaces]
      /\ chan \in [Requests -> Seq(Events)] /\ got \in [Requests -> Seq(Events)]
  BY DEF JoinInv, TypeOK, StreamPlaces
<1>1. ASSUME UNCHANGED <<log, cursor, stream, chan, got, dropped>> PROVE UNCHANGED Feed!vars
  BY <1>1, FeedIs, UnseenIs DEF Unseen, Position
<1>2. ASSUME NEW r \in Requests, HandlerStep(r) PROVE [Feed!Next]_(Feed!vars)
  <2>1. CASE CommitAppend(r)
    BY <2>1, FeedPublish DEF Feed!Next
  <2>2. CASE ~CommitAppend(r)
    <3>1. UNCHANGED <<log, cursor, stream, chan, got, dropped>>
      BY <1>2, <2>2 DEF HandlerStep, BeginAppend, AppendFails, Project, ProjectFails, RegisterNode, streamVars
    <3> QED BY <1>1, <3>1
  <2> QED BY <2>1, <2>2
<1>3. ASSUME NEW w \in Workers, WorkerStep(w) PROVE [Feed!Next]_(Feed!vars)
  <2>1. CASE SnapshotState(w)
    BY <2>1, FeedChoose
  <2>2. CASE WorkerDies(w)
    BY <2>2, FeedClose DEF WorkerDies, StreamsOf, serverVars
  <2>3. CASE ~SnapshotState(w) /\ ~WorkerDies(w)
    <3>1. UNCHANGED <<log, cursor, stream, chan, got, dropped>>
      BY <1>3, <2>3 DEF WorkerStep, StartWorker, JoinAnswered, JoinTimesOut, SnapshotHead, CatchUpFails, HeartbeatNotFound,
                        streamVars, serverVars
    <3> QED BY <1>1, <3>1
  <2> QED BY <2>1, <2>2, <2>3
<1>4. ASSUME NEW r \in Requests, StreamStep(r) PROVE [Feed!Next]_(Feed!vars)
  <2>1. CASE AnchorAccepted(r)
    <3>1. /\ stream[r] = "anchor" /\ stream' = [stream EXCEPT ![r] = "subscribe"] /\ UNCHANGED <<log, cursor, chan, got, dropped>>
      BY <2>1 DEF AnchorAccepted, serverVars
    <3>2. \A u \in Requests : FeedView'[u] = FeedView[u] /\ FeedMode'[u] = FeedMode[u]
      BY <1>0, <3>1, FeedIs DEF ModeOf
    <3>3. Position' = Position
      BY <3>1 DEF Position
    <3> QED BY <3>1, <3>2, <3>3, FeedStutters
  <2>2. CASE Deliver(r)
    <3>1. /\ chan[r] # <<>> /\ got' = [got EXCEPT ![r] = Append(got[r], Head(chan[r]))]
          /\ chan' = [chan EXCEPT ![r] = Tail(chan[r])] /\ UNCHANGED <<log, stream, cursor, dropped>>
      BY <2>2 DEF Deliver, serverVars
    <3>2. Append(got[r], Head(chan[r])) \o Tail(chan[r]) = got[r] \o chan[r]
      <4>1. got[r] \in Seq(Events) /\ chan[r] \in Seq(Events)
        BY <1>0
      <4> QED BY <3>1, <4>1, ConcatShift
    <3>3. \A u \in Requests : got'[u] \o chan'[u] = got[u] \o chan[u]
      <4>1. ASSUME NEW u \in Requests, u # r PROVE got'[u] = got[u] /\ chan'[u] = chan[u]
        BY <1>0, <3>1, <4>1
      <4>2. got'[r] = Append(got[r], Head(chan[r])) /\ chan'[r] = Tail(chan[r])
        BY <1>0, <3>1
      <4> QED BY <3>2, <4>1, <4>2, Zenon
    <3>4. \A u \in Requests : FeedView'[u] = FeedView[u] /\ FeedMode'[u] = FeedMode[u]
      BY <3>1, <3>3, FeedIs
    <3>5. Position' = Position
      BY <3>1 DEF Position
    <3> QED BY <3>1, <3>4, <3>5, FeedStutters
  <2>3. CASE Subscribe(r)
    BY <2>3, FeedAttach
  <2>4. CASE AnchorRefused(r)
    BY <2>4, FeedClose DEF AnchorRefused, StreamsOf, serverVars
  <2>5. CASE StreamCut(r)
    BY <2>5, FeedClose DEF StreamCut, serverVars
  <2> QED BY <1>4, <2>1, <2>2, <2>3, <2>4, <2>5 DEF StreamStep
<1>5. CASE CoordinatorRestarts
  BY <1>5, FeedStop DEF CoordinatorRestarts
<1>6. CASE RestoreBackup
  BY <1>0, <1>6, BackupIs, FeedStop DEF Restored
<1>7. CASE UNCHANGED vars
  BY <1>1, <1>7 DEF vars
<1> QED BY <1>2, <1>3, <1>4, <1>5, <1>6, <1>7 DEF Next

\* Subscribe, Append's broadcast and HandleEvents implement the abstract feed: from
\* the position a reader names its view is the log, event by event, until a full
\* channel makes it lossy or it is detached, whatever joins, restarts or is restored.
THEOREM JoinImplementsFeed == Spec => FeedSpec
<1>1. JoinInv /\ [Next]_vars => [Feed!Next]_(Feed!vars)
  BY FeedStep
<1>2. Spec => Feed!Spec
  BY <1>1, FeedInit, JoinInvariant, PTL DEF Spec, Feed!Spec
<1> QED BY <1>2 DEF FeedSpec

=============================================================================
