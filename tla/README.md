# Gentle Mesh in TLA+

Gentle Mesh is a coordinator for AI agents that work on the same repositories.
Clients post tasks; the coordinator decides when a task may start without
stepping on another task's *territory* (repository, branch, edited surfaces),
runs it on a worker node of the mesh, streams its events, and records what
happened. This directory models the parts of it in which order, failure and
concurrency decide whether it is correct.

## Running it

    tlc -workers 2 -config MCSched.cfg MCTerritoryScheduler
    tlc -workers 2 -config MCJoinLog.cfg MCJoinLog
    tlapm EnrollmentProofs.tla      (and the other *Proofs modules)

`PROJECT.json` lists every run with its module and configuration, the source
lines every definition models, the hazards, the findings and the theorems.

## The system and its parts

| Part | State | Operations | Hard because |
|---|---|---|---|
| Territory scheduler (`pkg/server/http/scheduler.go`) | queue, running set, mode | Schedule, Drain, Cancel, startRunner, complete | many goroutines; the branch lock and the task status are guarded by other mutexes than `s.mu` |
| Branch locks (`registry/lock.go`) | repo/branch to task | ClaimLock, ReleaseLock | two threads release the lock of one task |
| Conflict relation (`pkg/protocol/federation.go`) | none | ClashesWith | grows with the files a task edits |
| Federation (`pkg/server/federation`) | cached peer manifests | SyncPeer, FindConflict, FindRunningConflict | remote state is stale; nothing wakes the queue |
| Managed task (`pkg/server/task/task.go`) | status, cause, event sequence, subscribers | TransitionTo, EmitEvent, AttributeNode, Subscribe | four kinds of thread finish a task |
| Task manager (`task/manager.go`) | tasks, `closed` | CreateTask, CancelTask, FailTask, FailTasksOfNode, syncTaskToStore, Close, restart | two critical sections per failure, store writes outside the lock, shutdown |
| Event log (`task/logger.go`) | JSONL file | WriteEvent, ReadEvents | crashes cut lines |
| Task store (`pkg/server/store`) | task rows | SaveTask, UpdateStatus | unordered upserts |
| Node registry (`registry/registry.go`) | nodes, heartbeats, reservations | RegisterNode, Heartbeat, PruneStaleNodes, SelectAndReserve, Release | nodes come and go during a dispatch |
| Mesh and remote runner (`pkg/server/runner`) | attempt, connection | Run, dispatchToMesh, processBlock | an error does not say whether the worker took the task |
| Worker daemon (`pkg/server/worker`) | execution and queue semaphores | handleExecute, handleReply | slot, timer and disconnect race |
| Idempotency store (`registry/idempotency.go`) | key to task | Get, RecordOrGet | two requests miss together; a key outlives its task |
| Event streams (`handleTaskEvents`, `pkg/client/bridge.go`, the run command) | subscriber channels, Last-Event-ID | Subscribe, EmitEvent, unsubscribe, reconnect | slow readers, aborts and the end of a task meet in one channel |
| Process runners (`runner/gentleshell.go`, `runner/pi.go`) | child process, pipe, timers, worktree, proposal branch | Run, consume, classifyExit, cleanupWorktree | end of output, idle timer, context and kill race |
| Join log (`pkg/joinlog`) | hash-chained log, projection, subscribers | Append, ProjectEvent, CreateSnapshot, Subscribe | log, projection and registry are updated one after the other |
| Enrollment (`handleCertsEnroll`, `pkg/pki`, `store/tokenstore.go`, `store/certstore.go`) | tokens, certificates, revocation ledger and cache | UseToken, IssueCertIfAbsent, RevokeCert | races for one token or identity |
| Agent server (`integration/agent`), settlement (`pkg/settlement`), receipts (`pkg/receipt`) | leases, envelopes, receipt chains | settle, accept, dispute, the lease reaper, SignAndSaveReceipt | concurrent appends to one head, settlements that race the reaper |
| Webhooks, rate limiter, envelopes, shell, CLI, JCS, signing, keystore, TLS and git helpers | - | - | not modelled, see the end |

The create handler calls the task manager, then the scheduler, which claims a
branch lock, moves the task to running and starts a runner goroutine. The
runner is the MeshRunner: it reserves a node, sends the task to the worker and
forwards the worker's events into the task. `complete` and the cancel handler
drain the queue. On the worker a process runner starts the agent. The prune loop
and certificate revocation fail the tasks of a node. Nodes enroll with a token,
join through the join log and then beat. Contracts are settled by the agent
server, beside the coordinator. All of these run concurrently.

## The modules

### TerritoryScheduler (with MCTerritoryScheduler)

A task has a create handler, a runner goroutine and a cancel handler; `handler`,
`runner` and `canceler` say where each is. A critical section of `s.mu` is one
step, with one exception: `drainUnderLock` is one step per queue entry
(`DrainDispatches`, `DrainKeeps`, `DrainEnds`, with `muOwner`, `scan` and
`toStart`), because statuses and branch locks change under a scan. Releasing the
lock and taking `s.mu` in `complete` are two steps (`ReleaseBranchLock`,
`Complete`), as are the steps of the cancel handler.

| Code | Action |
|---|---|
| handleCreateTask: strict admission, CreateTask, refusal | AdmitStrict, CreateTask, CancelRejected |
| Schedule, Dispatch, dispatchUnderLock | ScheduleStarts, ScheduleEnqueues, ScheduleFails |
| startRunner, handleRetry, failTask | StartRunner, EmitResult, AddEditSurface, RunReturns, RunRetries, RunFails, RetryTimer, WaitAborted |
| complete, drainUnderLock | ReleaseBranchLock, Complete, Drain... |
| handleTaskCancel, Cancel | CancelQueued, CancelTask, CancelReleasesLock, CancelDrains |
| FailTasksOfNode, SyncPeer | FailTaskOfNode, SyncPeer |

Abstractions: a surface is a model value and `surfacesOverlap` a constant
symmetric relation; branch names fold through `Fold`, because ClashesWith
ignores case and `branchKey` does not; a repository is taken as already
normalised. In `drainUnderLock` the claim and the transition of one entry are
one step. A failed log write inside the dispatch is left out here and modelled in
TaskLifecycle.

### TaskLifecycle

One task and every thread that acts on it. A critical section of the task mutex
is one step; FailTask is two (`FailTaskRecords`, `FailTaskFinalizes`), and
syncTaskToStore three (`SyncCheck`, `SyncSnapshot`, `SyncWrite`). The event log
is a sequence of lines: a crash or a write that fails halfway may leave a torn line,
the next event is glued to it, and `ReadEvents` forgives a bad line only at the end. A
write that fails may also leave nothing or the whole line, when it is the Sync that
failed. The store is one row. `Close`, `Exit`, `Crash` and `Restart` are the life of the
process; at a restart the row is the state and the log gives the next event id.

### MeshDispatch (with MCMeshDispatch)

Registry, MeshRunner, RemoteRunner, the scheduler's retries around them, and the
worker's handleExecute. Every offer of a task to a node is a *call* with its own
connection: `job` is what the worker does with it, `wire` what it has written and
the coordinator has not read, `link` whether the connection is open. A worker
whose connection is gone keeps executing. `inFlight` and the two semaphores are
counters, as in the code, so that the properties can compare them with what they
count. `lastSelected` is kept as the order of the nodes (`older`, the
pairs of nodes of which the first was selected before the second); heartbeat
ages are fresh, late (1.5 timeouts) and dead (3 timeouts).

Between TerritoryScheduler and MeshDispatch the interface is `Run`: the former
lets a runner emit results, fail or be retried at will, the latter shows what
the mesh runner really does between two such events. TaskLifecycle details the
`status` that both of them use.

### ProcessRunner

What a worker does inside such a Run when its agent is a child process. The child
is the environment: it writes tool calls, texts or a line that is too long, stays
silent, exits or fails at any point. It is a tree of processes, of which Run waits for
one: `child` is "orphaned" when only descendants of that one are left. There are two
kills. `ContextKills` is what os/exec does at the end of the context: cmd.Cancel signals
the process group of a gentle-shell run, Pi's command has no group and loses one process.
`KillProcessTree` signals the PID of bwrap alone, and what bwrap started ends with it or
not (there is no `--die-with-parent`). An agent that exits by itself leaves nobody behind
in the model. `pipe` is the standard output, `lines` the channel between the scanner
goroutine and `consume`, and both block when full; `Wait` closes the pipe and the scanner
keeps what it has buffered. The actions are the stages of Run (`WorktreeAdd`,
`Consume...`, `ClassifyExit`, `Wait`, the decision, the collection of the proposal, the
deferred cleanup, whose failure is ignored and recorded in `tree.left`), the scanner, the
clock and the kills. The gentle-shell runs of the model are deliveries of one task, which
share the worktree directory and the branch that are named after it; a Pi run has neither.

### TaskStream (with MCTaskStream)

The create handler with its idempotency keys, from `Get` over CreateTask and
`RecordOrGet` to Schedule, each its own step because no lock is held across them;
the subscribers of a task; the SSE handler that empties one channel; and the clients
behind it. `Emit` is EmitEvent and TransitionTo under the task's mutex: it appends
to every channel that has room, drops otherwise, and closes all of them at the end
of the task. `unsubscribe` closes outside the mutex, as in the code, so the model
has the state in between (`draining`). CleanupExpired of the task manager, expiry of
keys, aborts, cut connections and a restart are actions. An event is its id.

### JoinLog (with MCJoinLog) and EventFeed

The chained log, its projection and snapshots, handleMeshJoin, the event streams and
the worker that joins, catches up, listens and beats. `BeginAppend` and `CommitAppend`
are the transaction under `Log.mu`; projection and registration follow as steps of
their own. A hash is the chain of identifiers it commits to. The coordinator may
restart or be restored from a backup, which is how an anchor of another history comes
about. **EventFeed** is the abstract specification of what a published log promises its
readers; `FeedSpec` is that specification under the mapping *view = what the worker has
read and what is in its channel*, *mode = whether the stream is open, lossy or closed*.
The run checks it as a property and `JoinImplementsFeed` proves it: JoinLog refines
EventFeed. `Replay` is stated by what the projection of the whole log leaves behind, the
last join of each node (`LastJoin`).

### Settlement (with MCSettlement)

Leases, the envelopes kept for them, settle, accept and dispute requests, the reaper,
and the receipt chain of each pair. A settlement takes the engine's `chainMu`, reads the
head, signs and saves; a timeout of the reaper appends without that mutex; the unique
index of the table decides, and a loser reads the head again up to `MaxAttempts` times.
A signature is the content that was signed, so `ChainVerifies` can recompute it.

### Enrollment

Tokens, the race of enrollments for a node id, the certificate table, the ledger of
revoked serials and the cache in front of it, revocation over the API
(`FindCert`, `RevokeCert`, `CacheSerial`, `DeregisterNode`) and by the command line on
the same database, `cert-issue`, joins and heartbeats that are admitted by the check of
the certificate, and restarts. A certificate is the request that caused it. A join must
name the node of its certificate (`handlers.go:390`); a heartbeat need not (472) and
brings its own time (`registry.go:135`), so `Heartbeat(n, s, time)` takes any valid
certificate and `beat` keeps whose it was and whether the stamp is old, current or ahead of
the coordinator's clock. Admission and effect of a heartbeat are one step.

## What the runs check

Passing runs:

* **sched** - every territory mode, three tasks that clash by branch, folded branch or
  text, one retry, growing surfaces, two tasks that may be canceled. Locks neither leak
  nor are stolen (`LockHolderTracked`, `RunningHoldsLock`), clashing declarations
  never run together (`RunningDeclaredDisjoint`), no queued task is forgotten
  although the lock is released outside `s.mu` (`NoStrandedTask`), the queue
  keeps its order (`QueueOrdered`).
* **sched_live** - with fair goroutines queued tasks leave the queue and locks are
  given back (`QueueDrains`); a peer on another repository comes and goes.
* **task** - all threads on one task, two kills or shutdowns with restarts, and one
  failed log write: a final state is immutable (`TerminalImmutable`) and never invented
  in the store (`RowOutcomeReal`), event ids increase (`LogIdsIncrease`), streams end
  (`StreamEnds`), no task is left pending (`RestartSettles`).
* **mesh** - two tasks on two workers with one disturbance: reservations and slots
  balance exactly (`SlotsBalance`), one Run is accepted by at most one worker and the
  recorded node is that one (`OneAcceptPerRun`), and every dispatch ends (`RunEnds`).
* **runner** - two deliveries of one task to a gentle-shell worker, or one to a Pi
  worker, with one command, removal or task that fails: a completion has everything the
  agent said (`CompletionWhole`); a run that returned has reaped its child, descendants are
  left only by killProcessTree and a worktree only by a removal that failed
  (`NothingLeftBehind`), and its part `WorktreeKept`: whoever works has the worktree to
  itself until the cleanup of a refused delivery takes it; a run with a deadline ends
  whatever its child does, except for a Pi run whose descendants hold the output
  (`RunEnds`).
* **stream** - two clients that share a key or have none: no channel is closed twice
  (in `TypeOK`), a stream is gap-free unless its channel was full (`StreamWhole`), a key
  has one task as long as it holds (`OneTaskPerKey`), every client ends and leaves no
  subscription (`ClientsEnd`).
* **joinlog** - joins that race serialize on one chain that is ahead of the registry
  (`JoinsSerialize`), a resumed stream continues the history the worker named
  (`AnchorContinuity`), subscriptions implement EventFeed (`FeedSpec`), a forgotten
  worker comes back by its own heartbeats (`Rejoins`).
* **settlement** - two settle requests, the reaper and a ruling on one chain: it verifies
  at every moment (`ChainVerifies`), a contract has one receipt that every caller gets
  (`SettleIdempotent`), retries run out only if others succeed (`SomeWriterWins`), an
  expired lease leaves a receipt (`ExpiredSettles`).
* **enrollment** - three enrollments race for one identity and one token while the
  certificate is revoked over the API or behind its back: `OneIdentity` (whose second
  clause speaks of the loser that the insert turned away), `TokenAccounting` and
  `RevocationAuthoritative`. A node without a valid certificate goes offline for good,
  unless heartbeats under another certificate or with a time ahead of the clock come again
  and again (`RevokedFades`); a neighbour whose certificate was made by hand is there to
  send them.

Runs that end in a counterexample, each a place where the code departs from what
its own documentation says (quoted in `PROJECT.json`):

* **task_torn_log** - a crash cuts a line, the error event of the restart is glued to it,
  and a second crash comes before the row is written; the event of the second restart then
  follows a bad line and ReadEvents refuses the whole log (`LogReadable`). One crash alone
  costs the last line and what is glued to it.
* **settlement_final** - a dispute that read the receipt before it was accepted
  overwrites the acceptance.
* **enrollment_evict** - a join admitted before a revocation puts the node back into
  the registry after it, from which only the prune loop takes it again.

### Bounds

Three tasks are enough for the scheduler: one that runs, one that waits, and one
that is scheduled, canceled or drained between the two; `Cancelable` bounds who is
canceled. The task runs use two failers (the prune loop and a revocation), because
the races in FailTask need two, and three event ids. In the mesh instance node 1
is shared by both tasks and node 2 takes one of them, with one slot and one queue
place each, so that busy, queued and free nodes all occur; `MaxFaults` bounds what
the environment does. Channels and pipes hold one or two elements, since what matters
is that they are full while somebody writes. Two workers, one of which joins twice,
give races of joins and a second stream of one worker; two settle requests and the
reaper give three writers for one chain head with two attempts each; three enrollments
for a token of two uses give a loser of the token and a loser of the identity. In the
runs with a fault budget one fault of any kind may come at any moment: two independent
faults in one behaviour are outside the instances, except for the two stops of the task
run. All bounds are constants of the modules.

### Fairness

`FairSpec` of the scheduler assumes that a runnable goroutine runs and that a
runner returns from Run in the end; clients, peers and the node monitor promise
nothing. `FairSpec` of the task assumes that a started operation goes on and that
somebody restarts the coordinator; nothing of the runner. `FairSpec` of the mesh
assumes that goroutines of the coordinator and of a live worker run, that an agent
ends, and that a connection to a dead worker is given up (a reset, or TCP keepalive,
which Go's default dialer enables); it assumes nothing of heartbeats or pruning.

The runner assumes fair goroutines, that a signal reaches the process it is sent to and
that time passes, and nothing of the child and its descendants. The stream assumes fair handlers, that a task that
runs ends and that a client which reads goes on reading; clients need not start, and
viewers may abort. The join log assumes that handlers, streams and a worker's ticker go
on. The settlement assumes strong fairness of a writer: it waits for a mutex that
sync.Mutex hands over in order once a waiter starves. Enrollment assumes that handlers
that have started go on, that time passes (a current stamp becomes old) and that the prune
loop runs, and nothing of the nodes, which may beat or not.

## What is proved

`TerritorySchedulerProofs`, for every set of tasks, requests and modes:

* `TypeCorrect`, `LocksTracked`, `RunningLocked` from the inductive invariant
  `LockInv`. The lock properties are not inductive alone: one must know where the
  handler, the canceler and the drain of each task may be (`HandlerMatches`,
  `CancelerMatches`, `DrainerMatches`), that a dispatched task has a tracked runner
  (`RunnerMatches`), and that a runner past the release no longer holds the lock
  (`ReleasedGaveLock`).
* `TerritoriesDisjoint`, `QueueSorted`, `StartedOnce` from `QueueInv`, which adds
  that surfaces only grow (`DeclaredKept`) and that a queued task has no runner
  (`QueueScheduled`).
* `NoLostWakeup`, without peers, from `WakeInv`: whoever blocks a queued task
  stays in `running` until its own drain begins.

The assumptions are the ones named in the module: requests have the shape
RequestType describes, overlap is symmetric, `None` is no task and no thread.

`TaskLifecycleProofs`, for every set of failers and all bounds: `TypeCorrect`,
`FinalStateKept`, `StoredOutcomesReal` (with `WritesReal`: a write under way
carries a terminal status only if the task has it), `StreamsClosed` (as long as no
log write failed) and `EventIdsIncrease`. The last one needs `IdsInv`, which speaks of the
lines and not of what ReadEvents returns: as long as no bad line is inside the log, ids
increase (`Increasing`) and the counter of a live process has reached them (`Counted`).
It is inductive because a bad line inside the log stays there (`AppendKeepsLines`,
`GarbleKeepsLines`): a log whose counter a restart could not recover is one nobody reads.

`EnrollmentProofs`, for any nodes, tokens, requests and bounds, from `EnrollInv`, which
has a part per table. `RowsMatch` says that a request past the insert is on the row of
its node and that the row a revocation has read still carries that serial, which holds
because no step replaces a row; from it follows `IdentityUnique`. `LedgerMatches` says
that whatever is, or is about to be, in the cache is already in the ledger, which is the
order of the two writes in RevokeCertWithCount; from it follow `LedgerDecides` and the
second half of `IdentityUnique`. `TokensMatch` says which handlers have used their token;
from it follows `TokensAccounted`. The assumptions are that `None` is no element of the
sets and no row, and that enrollments and `cert-issue` give out different serials.

`MeshDispatchProofs`, for any finite set of tasks and any nodes, slots, retries and
disturbances: `MeshTypeCorrect`, `MeshSlotsBalance`, `MeshOneAcceptPerRun` from `MeshInv`.
The counters are exact because each is the cardinality of the set it counts (`Reserved`,
`SlotsTaken`), in every state and not only at rest. That one Run is accepted once needs
to know that a Run offers the task again only after the offer before was refused or
never arrived (`Offers`, `OneLive`), that the offer under way is the one the runner waits
for (`UnderWay`), that what is on the wire is what the worker did (`Answered`), and which
offer the recorded node comes from (`Attributed`).

`SettlementProofs`, for any contracts, emitters, requests, attempts and failures:
`SettlementTypeCorrect`, `SettlementChainVerifies`, `SettlementIdempotent`,
`SettlementSomeWriterWins` and the action property `SettlementAppendOnly` (no step changes
or removes a receipt that was saved, except for its acceptance or dispute) from
`SettlementInv`. `Tracks` is the core: the link a writer has signed was the head of the
chain at some moment since it began, and each of its further attempts was preceded by
another writer's success. With the unique index (`OneReceipt`) an append is then either on
the head or refused.

`ProcessRunnerProofs`, for any runs, limits and buffers: `RunnerTypeCorrect`,
`RunnerCompletionWhole`, `RunnerNothingLeftBehind` from `RunnerInv`, and
`RunnerWorktreeKept` from `Kept`. `Counts` says that
until consume returns every line is handled, in the channel or in the pipe; `Read` what is
left of that once it has returned, by the way it returned; `Scans` ties the errors to the
end of the scanner; `Lives` says in which stages a child may be alive, and that only a run
that called killProcessTree gets past Wait with descendants left; `Treed` says that a
worktree whose removal has not failed belongs to a run that still owes its cleanup. `Kept`
adds that the branch stays once a delivery got past git, so that no second one ever does
(`Single`), and that whoever is refused has no child.

`TaskStreamProofs`, for any clients, capacities and faults: `StreamTypeCorrect`,
`StreamReadsWhole`, `StreamOneTaskPerKey` from `StreamInv`. `KeyHolds` says that every other
task of a key that got past RecordOrGet is over; `Registered` which channels a task may
still write to, although `unsubscribe` closes outside its mutex; `Reads` and `Gapless` relate what
a client has read, what is in its channel and the counter of the task.

`JoinLogProofs`, for any workers, joins, capacities and disturbances: `JoinTypeCorrect`,
`JoinSerialized`, `JoinAnchored` and the refinement `JoinImplementsFeed` from `JoinInv`.
`Linked` is local (each event and the one before it), which is enough because a hash is the
chain it commits to: equal hashes at one position mean equal prefixes. `Exclusive` is
`Log.mu` with BEGIN IMMEDIATE; `Handles` and `Registers` order log, projection and
registry; `Streams` says that whatever a stream holds is what the log has at that position
and that an accepted anchor is in the log, unless the coordinator could not compare it.
For the refinement, every action of JoinLog is shown to be a step of one reader of
EventFeed, a publication, or no step at all.

The assumptions are the ones named in each module: bounds are natural numbers and
capacities positive, `None` and the reaper are no elements of the other sets, nodes are
numbered and the tasks of a mesh finitely many. The type invariants are strong where a
proof needs it (which record a state has, which range a counter), never by assumption.

Only model-checked: the liveness properties `QueueDrains`, `RestartSettles`, `RunEnds` (of
both modules), `Rejoins`, `ExpiredSettles`, `RevokedFades` and `ClientsEnd`, because the
prover handles neither fairness nor ENABLED. `NoStrandedTask` is proved without federated
peers, the instance in which it is meant. Every other invariant and action property of a
passing run is a theorem.

## Observations that no run states

Places where the code and its comments, or two parts of the code, do not agree, met
while modelling. The models have these behaviours; the properties above are stated so
that they hold with them.

* handleTaskCancel frees the branch lock of a running task and drains the queue while
  its runner may still be inside Run, so the next task on the branch starts beside it
  (`handlers.go:860`; `scheduler.go:361` says a task keeps its lock "until it really
  finishes").
* Nothing drains the queue after SyncPeer, so a task queued behind the territory of a
  peer waits until some local task ends (`federation/manager.go:202`; `README.md:22`).
* FailTask replaces a cause that was already recorded (`manager.go:387`; `task.go:364`
  says the first cause wins).
* Close switches the store off before it waits for the runners, so a task that completes
  meanwhile is failed by the next start (`manager.go:660`).
* A connection that breaks after a worker accepted a task and before its first event is
  read counts as a dispatch failure, and the scheduler's retry runs the task again
  (`remote.go:148`).
* CreateSnapshot reads the head of the log and the projected state separately, so an
  event that is committed and not yet projected is below the head and missing in the
  state (`snapshot.go:60`).
* A task canceled between its creation and Schedule stays in the queue as a canceled
  entry; the retry timer can win the select against a cancellation.
* If the log write of a dispatch fails, the status is already running: the task has no
  runner and no lock (`scheduler.go:269`). The scheduler module leaves this fault out,
  TaskLifecycle has it.
* The loser of a race for a node identity has used up one use of its token; a certificate
  made with `cert-issue` is on no record and only its serial can be revoked by hand;
  `cert-revoke` warns that a running coordinator does not notice, although a miss in the
  cache falls through to the ledger.
* The deferred removal of the worktree is registered before the worktree is made
  (`gentleshell.go:438`), so a second delivery of a task is refused and then removes the
  worktree of the first, against the comment at 617. That is the exception of
  `WorktreeKept`.
* killProcessTree signals one PID (`gentleshell.go:873`), although its comment speaks of
  the process tree and the one at 153 says that such a kill leaves the Node child alive; a
  run that ends by its idle limit or its tool budget has left Wait before its context, and
  with it the process group, is canceled. That is the exception of `NothingLeftBehind`.
* A retry on a gentle-shell worker always fails, because the proposal branch of the first
  attempt is kept (`gentleshell.go:620`).
* Pi's command sets neither a process group nor a WaitDelay, so a descendant that holds its
  output keeps Wait, and the run, beyond its deadline (`pi.go:123`). The SIGKILL that
  killProcessTree delays goes to a PID that may have been reaped and given away since
  (`gentleshell.go:877`); process numbers are not modelled.
* A log write that fails while a task ends leaves its subscribers open (`task.go:221`).
* The comment at `remote.go:119` says that the MeshRunner "must retry on another node" when
  the stream breaks before its first event; the MeshRunner returns such a failure unchanged
  (`mesh.go:83`: "retrying it elsewhere could execute it twice"), and it is the scheduler
  that may run the task again.
* Pi's inactivity limit is only compared when a line arrives (`pi.go:218`), so a silent
  child is stopped by its deadline or not at all.
* The error of an oversized line competes with the closed channel in consume's select and
  may be missed.
* With a `-task-ttl` shorter than the life of a key, a key that names a purged task is
  neither obeyed nor replaced; CleanupExpired of the idempotency store is never called.
* RemoteRunner emits a query before it registers the channel for the reply
  (`remote.go:217`), where the simulated runner registers first.
* A lease that was rejected still gets a TIMEOUT receipt when it expires; once a lease is
  purged, a settlement of its contract goes on after the expiry.

## Not modelled

* Narrowings inside modelled parts: MeshDispatch dials only while the task runs, where the
  code may dial once more under a context that was canceled in between; the 400 of
  handleMeshJoin for a node the registry refuses after its event was appended and
  projected; the cut of a log line between its text and its newline, which is read until
  the next event is glued to it.
* Queries of an agent and replies to them (task, worker and remote runner): they would
  add a second conversation to every dispatch.
* The drain that dispatches while Close waits, and the failed log write inside a dispatch,
  need the scheduler and the task manager in one state space.
* Webhooks: a one-way bounded queue without retry whose result nothing reads. The rate
  limiter: a counter per window.
* The contract state machine of `pkg/envelope`, which only tests use; validation of
  envelopes and preconditions; `pkg/shell` and the simulated runner.
* The projection of the event types no code appends, and `joinlog/territory.go`, which
  nothing calls.
* Canonical JSON, signatures, keys, X.509, TLS and git plumbing: byte-level code that the
  models represent by equality of contents. `surfacesOverlap` and the normalisation of
  names in ClashesWith are a constant relation.

## Plan

1. The interface between the modules as theorems: the status steps of MeshDispatch and
   TerritoryScheduler are steps of the status machine of TaskLifecycle.
2. The hazards of `PROJECT.json` that no property covers yet, first the snapshot whose
   state is older than its head.
3. Further action properties of the proved invariants: a node's row, a token and a used
   lease never go back.
