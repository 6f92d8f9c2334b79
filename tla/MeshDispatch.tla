---------------------------- MODULE MeshDispatch ----------------------------
(***************************************************************************)
(* How a task reaches a worker node: the node registry with its dispatch   *)
(* reservations (pkg/server/registry/registry.go), the MeshRunner and the  *)
(* RemoteRunner (pkg/server/runner/mesh.go, remote.go), the retries of the *)
(* scheduler around them, and the admission of the worker daemon           *)
(* (pkg/server/worker/server.go).                                          *)
(*                                                                         *)
(* One Run of the MeshRunner offers the task to up to meshDispatchAttempts *)
(* nodes; the scheduler may call Run again.  Every offer is a call with an *)
(* HTTP exchange of its own: what the worker has written and the           *)
(* coordinator has not read yet is on the wire, and can be lost.  A worker *)
(* goes on with a call whose connection is gone until it notices.          *)
(***************************************************************************)
EXTENDS Integers, FiniteSets, Sequences

CONSTANTS
    Tasks,
    Nodes,                  \* numbered in the order of their NodeIDs
    Supports,               \* <<task, node>>: the node has the agent and tags
    MaxConcurrency,         \* what each node declares when it joins
    Concurrency,            \* execution slots of each worker daemon
    QueueSize,              \* queue places of each worker daemon
    meshDispatchAttempts,
    MaxRetries,             \* TaskRequest.MaxRetries of each task
    Deadlines,              \* the tasks that have a timeout
    Fallback,               \* a local fallback runner is configured
    MaxFaults,              \* bound: disturbances from outside, see Fault
    None

ASSUME NodesAssumption == Nodes \subseteq Nat /\ None \notin Nodes /\ IsFiniteSet(Tasks)

ASSUME BoundsAssumption ==
    meshDispatchAttempts \in Nat \ {0} /\ MaxFaults \in Nat

ASSUME WorkerAssumption ==
    /\ MaxConcurrency \in [Nodes -> Int]
    /\ Concurrency \in [Nodes -> Nat \ {0}] /\ QueueSize \in [Nodes -> Nat \ {0}]
    /\ MaxRetries \in [Tasks -> Nat] /\ Deadlines \subseteq Tasks /\ Fallback \in BOOLEAN

\* Call <<t, r, i>> is offer number i of the Run after r retries of task t.
Calls == UNION {{t} \X (0 .. MaxRetries[t]) \X (1 .. meshDispatchAttempts) : t \in Tasks}

VARIABLES
    status,     \* NodeInfo.Status ("absent": not in the registry)
    beat,       \* age of NodeInfo.LastHeartbeat: fresh, late (1.5x), dead (3x)
    active,     \* NodeInfo.ActiveTasks, as last reported
    inFlight,   \* Registry.inFlight
    older,      \* <<m, n>>: Registry.lastSelected of m is before that of n
    doomed,     \* nodes whose tasks FailTasksOfNode is about to fail
    outcome,    \* ManagedTask.Status, from running on
    node,       \* ManagedTask.NodeID
    retries,    \* ManagedTask.retryAttempts
    pc,         \* where the runner goroutine of the task is
    attempt,    \* dispatchToMesh's attempt
    target,     \* the node of that attempt
    saw,        \* RemoteRunner.Run's sawEvent
    alive,      \* the worker daemon runs
    sem,        \* length of Server.sem
    queueSem,   \* length of Server.queueSem
    job,        \* what the worker does with each call
    at,         \* the node each call was sent to
    link,       \* the connection of the call is open
    wire,       \* written by the worker, not yet read by the coordinator
    faults,     \* how many disturbances there have been
    sinkFault   \* one of them: an event the coordinator could not log

regVars == <<status, beat, active, inFlight, older, doomed>>
runVars == <<outcome, node, retries, pc, attempt, target, saw>>
workVars == <<alive, sem, queueSem, job, at, link, wire>>
bounds == <<faults, sinkFault>>
vars == <<status, beat, active, inFlight, older, doomed, outcome, node, retries,
          pc, attempt, target, saw, alive, sem, queueSem, job, at, link, wire,
          faults, sinkFault>>

\* A worker dies, a dial or a connection fails, a credential is refused, a
\* heartbeat does not come, a node is revoked, an event cannot be logged, a
\* client cancels: what may happen at any time, MaxFaults times in all.
Fault == faults < MaxFaults /\ faults' = faults + 1

-----------------------------------------------------------------------------
(* Node selection.                                                         *)

Matching(t) == {n \in Nodes : status[n] = "online" /\ beat[n] = "fresh" /\ <<t, n>> \in Supports}

EffectiveLoad(n) == IF active[n] > inFlight[n] THEN active[n] ELSE inFlight[n]
EffectiveCapacity(n) == IF MaxConcurrency[n] <= 0 THEN 1 ELSE MaxConcurrency[n]

\* The soft cap: when every matching node is full they are all candidates.
Candidates(t) ==
    LET free == {n \in Matching(t) : EffectiveLoad(n) < EffectiveCapacity(n)}
    IN  IF free = {} THEN Matching(t) ELSE free

SelectedBefore(a, b) == <<a, b>> \in older

\* Load ratio, then load, then the least recently selected, then the NodeID.
PreferOver(a, b) ==
    LET ra == EffectiveLoad(a) * EffectiveCapacity(b)
        rb == EffectiveLoad(b) * EffectiveCapacity(a)
    IN  \/ ra < rb
        \/ ra = rb /\ EffectiveLoad(a) < EffectiveLoad(b)
        \/ /\ ra = rb /\ EffectiveLoad(a) = EffectiveLoad(b)
           /\ \/ SelectedBefore(a, b)
              \/ ~SelectedBefore(b, a) /\ a < b

\* Mutant: the slot is not given back.
ReleaseForgotten(t) == UNCHANGED inFlight
\* runOnNode's deferred Release.
Release(t) ==
    inFlight' = IF inFlight[target[t]] > 0 THEN [inFlight EXCEPT ![target[t]] = @ - 1] ELSE inFlight

-----------------------------------------------------------------------------
(* The end of a Run.                                                       *)

Running(t) == outcome[t] = "running"
Call(t) == <<t, retries[t], attempt[t]>>
Goto(t, where) == pc' = [pc EXCEPT ![t] = where]
Settle(t, o) == outcome' = [outcome EXCEPT ![t] = o]

\* Mutant: one retry too many.
RunErrorOffByOne(t, retryable) ==
    \/ ~Running(t) /\ Goto(t, "done") /\ UNCHANGED <<outcome, retries>>
    \/ /\ Running(t) /\ retryable /\ retries[t] <= MaxRetries[t]
       /\ retries' = [retries EXCEPT ![t] = @ + 1]
       /\ Goto(t, "backoff") /\ UNCHANGED outcome
    \/ /\ Running(t) /\ ~(retryable /\ retries[t] <= MaxRetries[t])
       /\ Settle(t, "failed")
       /\ Goto(t, "done") /\ UNCHANGED retries

\* Run returned an error: a finished task stays as it is, DISPATCH_FAILED is
\* retried within the budget, and any other cause fails the task.
RunError(t, retryable) ==
    \/ ~Running(t) /\ Goto(t, "done") /\ UNCHANGED <<outcome, retries>>
    \/ /\ Running(t) /\ retryable /\ retries[t] < MaxRetries[t]
       /\ retries' = [retries EXCEPT ![t] = @ + 1]
       /\ Goto(t, "backoff") /\ UNCHANGED outcome
    \/ /\ Running(t) /\ ~(retryable /\ retries[t] < MaxRetries[t])
       /\ Settle(t, "failed")
       /\ Goto(t, "done") /\ UNCHANGED retries

\* Another node, or the last dispatch error once the attempts are used up.
NextAttempt(t) ==
    IF attempt[t] < meshDispatchAttempts
    THEN /\ attempt' = [attempt EXCEPT ![t] = @ + 1]
         /\ Goto(t, "select") /\ UNCHANGED <<outcome, retries>>
    ELSE RunError(t, TRUE) /\ UNCHANGED attempt

-----------------------------------------------------------------------------
(* MeshRunner.                                                             *)

\* Run is called once the task is dispatched, and again after the backoff.
\* A task that ended meanwhile may still be run: select picks either case.
StartRun(t) ==
    /\ pc[t] \in {"idle", "backoff"}
    /\ Goto(t, "select") /\ attempt' = [attempt EXCEPT ![t] = 1]
    /\ UNCHANGED <<regVars, outcome, node, retries, target, saw, workVars, bounds>>

BackoffAborted(t) ==
    /\ pc[t] = "backoff"
    /\ \/ ~Running(t) /\ UNCHANGED outcome
       \/ Running(t) /\ t \in Deadlines /\ Settle(t, "failed")
    /\ Goto(t, "done")
    /\ UNCHANGED <<regVars, node, retries, attempt, target, saw, workVars, bounds>>

SelectAndReserve(t) ==
    /\ pc[t] = "select"
    /\ \E n \in Candidates(t) :
          /\ \A m \in Candidates(t) \ {n} : PreferOver(n, m)
          /\ inFlight' = [inFlight EXCEPT ![n] = @ + 1]
          /\ older' = {p \in older : p[1] # n} \cup {<<m, n>> : m \in Nodes \ {n}}
          /\ target' = [target EXCEPT ![t] = n]
    /\ Goto(t, "dial")
    /\ UNCHANGED <<status, beat, active, doomed, outcome, node, retries, attempt, saw,
                   workVars, bounds>>

\* No node matches: the local fallback answers if nothing was dispatched.
NoNode(t) ==
    /\ pc[t] = "select" /\ Matching(t) = {}
    /\ \/ attempt[t] = 1 /\ Fallback /\ Goto(t, "local") /\ UNCHANGED <<outcome, retries>>
       \/ (attempt[t] > 1 \/ ~Fallback) /\ RunError(t, TRUE)
    /\ UNCHANGED <<regVars, node, attempt, target, saw, workVars, bounds>>

LocalRun(t) ==
    /\ pc[t] = "local"
    /\ \/ Running(t) /\ Goto(t, "done") /\ UNCHANGED retries
          /\ \E o \in {"completed", "failed"} : Settle(t, o)
       \/ RunError(t, TRUE)
    /\ UNCHANGED <<regVars, node, attempt, target, saw, workVars, bounds>>

\* Connection refused, no route, DNS: the node never saw the task.
DialFails(t) ==
    /\ pc[t] = "dial"
    /\ (~alive[target[t]] /\ UNCHANGED faults) \/ Fault
    /\ Release(t)
    /\ Goto(t, "unreachable")
    /\ UNCHANGED <<status, beat, active, older, doomed, outcome, node, retries, attempt,
                   target, saw, workVars, sinkFault>>

MarkNodeUnreachable(t) ==
    /\ pc[t] = "unreachable"
    /\ status' = [status EXCEPT ![target[t]] = IF @ = "absent" THEN @ ELSE "degraded"]
    /\ NextAttempt(t)
    /\ UNCHANGED <<beat, active, inFlight, older, doomed, node, target, saw, workVars, bounds>>

DialSucceeds(t) ==
    /\ pc[t] = "dial" /\ Running(t) /\ alive[target[t]]
    /\ job' = [job EXCEPT ![Call(t)] = "arrived"]
    /\ at' = [at EXCEPT ![Call(t)] = target[t]]
    /\ link' = [link EXCEPT ![Call(t)] = TRUE]
    /\ saw' = [saw EXCEPT ![t] = FALSE]
    /\ Goto(t, "sent")
    /\ UNCHANGED <<regVars, outcome, node, retries, attempt, target, alive, sem, queueSem,
                   wire, bounds>>

-----------------------------------------------------------------------------
(* RemoteRunner.                                                           *)

Next1(t) == Head(wire[Call(t)])
Pop(t) == wire' = [wire EXCEPT ![Call(t)] = Tail(@)]
\* Run returns and closes the response body.
Hangup(t) == /\ link' = [link EXCEPT ![Call(t)] = FALSE]
             /\ wire' = [wire EXCEPT ![Call(t)] = <<>>]

ReadResponse(t) ==
    /\ pc[t] = "sent" /\ wire[Call(t)] # <<>>
    /\ \/ /\ Next1(t) = "200"
          /\ Pop(t) /\ Goto(t, "stream")
          /\ UNCHANGED <<inFlight, outcome, retries, attempt, link>>
       \/ /\ Next1(t) = "429"
          /\ Release(t) /\ Hangup(t) /\ NextAttempt(t)
       \/ /\ Next1(t) = "401"
          /\ Release(t) /\ Hangup(t) /\ RunError(t, TRUE) /\ UNCHANGED attempt
    /\ UNCHANGED <<status, beat, active, older, doomed, node, target, saw, alive, sem,
                   queueSem, job, at, bounds>>

\* nodeAttributionSink and AttributeNode: the first node is kept.
AttributeNode(t) == node' = [node EXCEPT ![t] = IF @ = None THEN target[t] ELSE @]

ReadEvent(t) ==
    /\ pc[t] = "stream" /\ Running(t) /\ wire[Call(t)] # <<>>
    /\ \/ /\ Next1(t) = "status"
          /\ AttributeNode(t) /\ saw' = [saw EXCEPT ![t] = TRUE] /\ Pop(t)
          /\ UNCHANGED <<inFlight, outcome, retries, pc, link, bounds>>
       \/ \* the event cannot be logged: processBlock's error is no ErrNodeLost
          /\ Next1(t) = "status" /\ Fault /\ sinkFault' = TRUE
          /\ AttributeNode(t) /\ Release(t) /\ Hangup(t) /\ RunError(t, TRUE)
          /\ UNCHANGED saw
       \/ /\ Next1(t) \in {"completed", "failed"}
          /\ AttributeNode(t) /\ Release(t) /\ Hangup(t)
          /\ Settle(t, Next1(t)) /\ Goto(t, "done")
          /\ UNCHANGED <<retries, saw, bounds>>
       \/ /\ Next1(t) = "eof"
          /\ Release(t) /\ Hangup(t) /\ RunError(t, FALSE)
          /\ UNCHANGED <<node, saw, bounds>>
    /\ UNCHANGED <<status, beat, active, older, doomed, attempt, target, alive, sem,
                   queueSem, job, at>>

\* Mutant: any broken exchange is taken for a dial failure.
ReadBrokenRedials(t) ==
    /\ pc[t] \in {"sent", "stream"} /\ wire[Call(t)] = <<>> /\ ~link[Call(t)]
    /\ Release(t) /\ NextAttempt(t)
    /\ UNCHANGED <<status, beat, active, older, doomed, node, target, saw,
                   workVars, bounds>>

\* Mutant: a reset before the first event is read over and over again.
ReadBrokenWaits(t) ==
    /\ pc[t] \in {"sent", "stream"} /\ wire[Call(t)] = <<>> /\ ~link[Call(t)]
    /\ saw[t]
    /\ Release(t)
    /\ RunError(t, ~(pc[t] = "stream" /\ saw[t]))
    /\ UNCHANGED <<status, beat, active, older, doomed, node, attempt, target, saw,
                   workVars, bounds>>

\* The connection is reset: a lost node if it had sent an event, else an
\* error that isPreAcceptanceTransportError does not recognize.
ReadBroken(t) ==
    /\ pc[t] \in {"sent", "stream"} /\ wire[Call(t)] = <<>> /\ ~link[Call(t)]
    /\ Release(t)
    /\ RunError(t, ~(pc[t] = "stream" /\ saw[t]))
    /\ UNCHANGED <<status, beat, active, older, doomed, node, attempt, target, saw,
                   workVars, bounds>>

\* The task's context ends: canceled, failed by another thread, timed out.
ContextDone(t) ==
    /\ pc[t] \in {"dial", "sent", "stream"}
    /\ \/ ~Running(t) /\ UNCHANGED outcome
       \/ Running(t) /\ t \in Deadlines /\ Settle(t, "failed")
    /\ Release(t) /\ Hangup(t) /\ Goto(t, "done")
    /\ UNCHANGED <<status, beat, active, older, doomed, node, retries, attempt, target, saw,
                   alive, sem, queueSem, job, at, bounds>>

CancelTask(t) ==
    /\ Running(t) /\ pc[t] # "idle" /\ Fault
    /\ Settle(t, "canceled")
    /\ UNCHANGED <<regVars, node, retries, pc, attempt, target, saw, workVars, sinkFault>>

-----------------------------------------------------------------------------
(* The worker daemon: handleExecute.                                       *)

Become(c, s) == job' = [job EXCEPT ![c] = s]
\* What is written to a connection that is gone is lost.
Send(c, items) == wire' = [wire EXCEPT ![c] = IF link[c] THEN @ \o items ELSE @]

Admit(c) ==
    /\ job[c] = "arrived"
    /\ \/ /\ sem[at[c]] < Concurrency[at[c]]
          /\ sem' = [sem EXCEPT ![at[c]] = @ + 1]
          /\ Become(c, "executing") /\ Send(c, <<"200", "status">>)
          /\ UNCHANGED <<queueSem, faults>>
       \/ /\ sem[at[c]] >= Concurrency[at[c]] /\ queueSem[at[c]] < QueueSize[at[c]]
          /\ queueSem' = [queueSem EXCEPT ![at[c]] = @ + 1]
          /\ Become(c, "queued") /\ Send(c, <<"200", "status">>)
          /\ UNCHANGED <<sem, faults>>
       \/ /\ sem[at[c]] >= Concurrency[at[c]] /\ queueSem[at[c]] >= QueueSize[at[c]]
          /\ Become(c, "refused") /\ Send(c, <<"429">>)
          /\ UNCHANGED <<sem, queueSem, faults>>
       \/ \* a credential the worker does not accept
          /\ Fault /\ Become(c, "refused") /\ Send(c, <<"401">>)
          /\ UNCHANGED <<sem, queueSem>>
    /\ UNCHANGED <<regVars, runVars, alive, at, link, sinkFault>>

LeaveQueue(c) == queueSem' = [queueSem EXCEPT ![at[c]] = @ - 1]

TakeSlot(c) ==
    /\ job[c] = "queued" /\ sem[at[c]] < Concurrency[at[c]]
    /\ sem' = [sem EXCEPT ![at[c]] = @ + 1] /\ LeaveQueue(c)
    /\ Become(c, "executing")
    /\ UNCHANGED <<regVars, runVars, alive, at, link, wire, bounds>>

QueueTimeout(c) ==
    /\ job[c] = "queued"
    /\ LeaveQueue(c) /\ Become(c, "expired") /\ Send(c, <<"failed">>)
    /\ UNCHANGED <<regVars, runVars, alive, sem, at, link, bounds>>

QueueAborted(c) ==
    /\ job[c] = "queued" /\ ~link[c]
    /\ LeaveQueue(c) /\ Become(c, "expired")
    /\ UNCHANGED <<regVars, runVars, alive, sem, at, link, wire, bounds>>

\* The agent ends with a result, or the runner returns without one.
Finish(c) ==
    /\ job[c] = "executing"
    /\ sem' = [sem EXCEPT ![at[c]] = @ - 1]
    /\ Become(c, "ended")
    /\ \E result \in {"completed", "failed", "eof"} : Send(c, <<result>>)
    /\ UNCHANGED <<regVars, runVars, alive, queueSem, at, link, bounds>>

WorkerDies(n) ==
    /\ alive[n] /\ Fault
    /\ alive' = [alive EXCEPT ![n] = FALSE]
    /\ sem' = [sem EXCEPT ![n] = 0] /\ queueSem' = [queueSem EXCEPT ![n] = 0]
    /\ job' = [c \in Calls |->
                  IF at[c] # n THEN job[c]
                  ELSE CASE job[c] = "executing" -> "killed"
                         [] job[c] = "queued" -> "lost"
                         [] job[c] = "arrived" -> "dropped"
                         [] OTHER -> job[c]]
    /\ UNCHANGED <<regVars, runVars, at, link, wire, sinkFault>>

WorkerRestarts(n) ==
    /\ ~alive[n]
    /\ alive' = [alive EXCEPT ![n] = TRUE]
    /\ UNCHANGED <<regVars, runVars, sem, queueSem, job, at, link, wire, bounds>>

-----------------------------------------------------------------------------
(* The network.  What was on the wire may still arrive or not.             *)

Break(c) ==
    /\ link[c] /\ link' = [link EXCEPT ![c] = FALSE]
    /\ UNCHANGED wire \/ wire' = [wire EXCEPT ![c] = <<>>]
    /\ UNCHANGED <<regVars, runVars, alive, sem, queueSem, job, at, sinkFault>>

\* The connections of a dead worker are reset, or TCP keepalive gives up.
LinkDies(c) == job[c] \in {"killed", "lost", "dropped"} /\ Break(c) /\ UNCHANGED faults

LinkCut(c) == Fault /\ Break(c)

-----------------------------------------------------------------------------
(* The registry.                                                           *)

RegisterNode(n) ==
    /\ alive[n]
    /\ status' = [status EXCEPT ![n] = "online"] /\ beat' = [beat EXCEPT ![n] = "fresh"]
    /\ active' = [active EXCEPT ![n] = IF status[n] = "absent" THEN 0 ELSE @]
    /\ UNCHANGED <<inFlight, older, doomed, runVars, workVars, bounds>>

Heartbeat(n) ==
    /\ alive[n] /\ status[n] # "absent"
    /\ status' = [status EXCEPT ![n] = "online"] /\ beat' = [beat EXCEPT ![n] = "fresh"]
    /\ active' = [active EXCEPT ![n] = sem[n]]
    /\ UNCHANGED <<inFlight, older, doomed, runVars, workVars, bounds>>

TimePasses(n) ==
    /\ status[n] # "absent"
    /\ \/ beat[n] = "fresh" /\ Fault /\ beat' = [beat EXCEPT ![n] = "late"]
       \/ beat[n] = "late" /\ UNCHANGED faults /\ beat' = [beat EXCEPT ![n] = "dead"]
    /\ UNCHANGED <<status, active, inFlight, older, doomed, runVars, workVars, sinkFault>>

PruneStaleNodes ==
    /\ status' = [n \in Nodes |->
                     CASE status[n] # "absent" /\ beat[n] = "dead" -> "offline"
                       [] status[n] # "absent" /\ beat[n] = "late" -> "degraded"
                       [] OTHER -> status[n]]
    /\ UNCHANGED <<beat, active, inFlight, older, doomed, runVars, workVars, bounds>>

\* FailTasksOfOfflineNodes lists the nodes first.
ListOfflineNodes ==
    /\ doomed' = doomed \cup {n \in Nodes : status[n] = "offline"}
    /\ UNCHANGED <<status, beat, active, inFlight, older, runVars, workVars, bounds>>

\* RevokeCertWithCount.
RevokeNode(n) ==
    /\ status[n] # "absent" /\ Fault
    /\ status' = [status EXCEPT ![n] = "absent"]
    /\ doomed' = doomed \cup {n}
    /\ UNCHANGED <<beat, active, inFlight, older, runVars, workVars, sinkFault>>

FailTasksOfNode(n) ==
    /\ n \in doomed
    /\ doomed' = doomed \ {n}
    /\ outcome' = [t \in Tasks |->
                      IF node[t] = n /\ Running(t) THEN "failed" ELSE outcome[t]]
    /\ UNCHANGED <<status, beat, active, inFlight, older, node, retries, pc, attempt, target,
                   saw, workVars, bounds>>

-----------------------------------------------------------------------------
Init ==
    /\ status = [n \in Nodes |-> "online"] /\ beat = [n \in Nodes |-> "fresh"]
    /\ active = [n \in Nodes |-> 0] /\ inFlight = [n \in Nodes |-> 0]
    /\ older = {} /\ doomed = {}
    /\ outcome = [t \in Tasks |-> "running"] /\ node = [t \in Tasks |-> None]
    /\ retries = [t \in Tasks |-> 0] /\ pc = [t \in Tasks |-> "idle"]
    /\ attempt = [t \in Tasks |-> 1] /\ target = [t \in Tasks |-> None]
    /\ saw = [t \in Tasks |-> FALSE]
    /\ alive = [n \in Nodes |-> TRUE]
    /\ sem = [n \in Nodes |-> 0] /\ queueSem = [n \in Nodes |-> 0]
    /\ job = [c \in Calls |-> "none"] /\ at = [c \in Calls |-> None]
    /\ link = [c \in Calls |-> FALSE] /\ wire = [c \in Calls |-> <<>>]
    /\ faults = 0 /\ sinkFault = FALSE

RunnerStep(t) ==
    \/ StartRun(t) \/ BackoffAborted(t) \/ SelectAndReserve(t) \/ NoNode(t) \/ LocalRun(t)
    \/ DialFails(t) \/ DialSucceeds(t) \/ MarkNodeUnreachable(t)
    \/ ReadResponse(t) \/ ReadEvent(t) \/ ReadBroken(t) \/ ContextDone(t)

WorkerStep(c) == Admit(c) \/ TakeSlot(c) \/ QueueTimeout(c) \/ QueueAborted(c) \/ Finish(c)

RegistryStep ==
    \/ \E n \in Nodes : \/ RegisterNode(n) \/ Heartbeat(n) \/ TimePasses(n)
                        \/ RevokeNode(n) \/ FailTasksOfNode(n)
    \/ PruneStaleNodes \/ ListOfflineNodes

Next ==
    \/ \E t \in Tasks : RunnerStep(t) \/ CancelTask(t)
    \/ \E c \in Calls : WorkerStep(c) \/ LinkDies(c) \/ LinkCut(c)
    \/ \E n \in Nodes : WorkerDies(n) \/ WorkerRestarts(n)
    \/ RegistryStep

Spec == Init /\ [][Next]_vars

(***************************************************************************)
(* Goroutines of the coordinator and of a live worker are scheduled, an    *)
(* agent ends in the end, and the connection to a dead worker is given up. *)
(* Nothing is assumed of heartbeats, pruning, clients or restarts.         *)
(***************************************************************************)
Fairness ==
    /\ \A t \in Tasks : WF_vars(RunnerStep(t))
    /\ \A c \in Calls : WF_vars(WorkerStep(c)) /\ WF_vars(LinkDies(c))

FairSpec == Spec /\ Fairness

-----------------------------------------------------------------------------
(* Properties.                                                             *)

InExchange(t) == pc[t] \in {"dial", "sent", "stream"}
Executed(c) == job[c] \in {"executing", "ended", "killed"}
Accepted(c) == Executed(c) \/ job[c] \in {"queued", "expired", "lost"}

\* Every variable has its type.
TypeOK ==
    /\ status \in [Nodes -> {"absent", "online", "degraded", "offline"}]
    /\ beat \in [Nodes -> {"fresh", "late", "dead"}]
    /\ active \in [Nodes -> Nat] /\ inFlight \in [Nodes -> Nat]
    /\ older \subseteq Nodes \X Nodes /\ doomed \in SUBSET Nodes
    /\ outcome \in [Tasks -> {"running", "completed", "failed", "canceled"}]
    /\ node \in [Tasks -> Nodes \cup {None}]
    /\ retries \in [Tasks -> Nat] /\ \A t \in Tasks : retries[t] <= MaxRetries[t]
    /\ pc \in [Tasks -> {"idle", "select", "local", "dial", "unreachable", "sent", "stream",
                         "backoff", "done"}]
    /\ attempt \in [Tasks -> 1 .. meshDispatchAttempts]
    /\ target \in [Tasks -> Nodes \cup {None}] /\ saw \in [Tasks -> BOOLEAN]
    /\ alive \in [Nodes -> BOOLEAN]
    /\ sem \in [Nodes -> Nat] /\ queueSem \in [Nodes -> Nat]
    /\ job \in [Calls -> {"none", "arrived", "queued", "executing", "refused", "expired",
                          "ended", "killed", "lost", "dropped"}]
    /\ at \in [Calls -> Nodes \cup {None}] /\ link \in [Calls -> BOOLEAN]
    /\ wire \in [Calls -> Seq({"200", "429", "401", "status", "completed", "failed", "eof"})]
    /\ faults \in 0 .. MaxFaults /\ sinkFault \in BOOLEAN

\* Nothing is leaked and nothing is freed twice, on either side: the load the
\* router sees is exactly the dispatches under way (SelectAndReserve and the
\* deferred Release), through re-registration and revocation of the node, and a
\* worker's semaphores count exactly the calls it executes and queues.
SlotsBalance ==
    \A n \in Nodes :
        /\ inFlight[n] = Cardinality({t \in Tasks : InExchange(t) /\ target[t] = n})
        /\ sem[n] = Cardinality({c \in Calls : at[c] = n /\ job[c] = "executing"})
        /\ queueSem[n] = Cardinality({c \in Calls : at[c] = n /\ job[c] = "queued"})
        /\ sem[n] <= Concurrency[n] /\ queueSem[n] <= QueueSize[n]

\* mesh.go Run: retrying "elsewhere could execute it twice".  One Run has at
\* most one call that a worker accepted, whatever broke, and the node recorded
\* for the task is "the node that actually ran it" (runOnNode).
OneAcceptPerRun ==
    /\ \A c, d \in Calls : c[1] = d[1] /\ c[2] = d[2] /\ Accepted(c) /\ Accepted(d) => c = d
    /\ ~sinkFault =>
        \A t \in Tasks :
            /\ node[t] # None => \E c \in Calls : c[1] = t /\ at[c] = node[t] /\ Accepted(c)
            /\ pc[t] = "stream" /\ saw[t] => node[t] = target[t]

\* Every task that is dispatched comes to an end, whichever workers die.
RunEnds == \A t \in Tasks : pc[t] # "idle" ~> pc[t] = "done"
=============================================================================
