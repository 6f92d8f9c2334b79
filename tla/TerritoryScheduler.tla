------------------------- MODULE TerritoryScheduler -------------------------
(***************************************************************************)
(* The coordinator's territory semaphore: pkg/server/http/scheduler.go,    *)
(* the exclusive branch locks of pkg/server/registry/lock.go, the conflict *)
(* relation of pkg/protocol/federation.go, and the two HTTP handlers that  *)
(* drive them (create and cancel, pkg/server/http/handlers.go).            *)
(*                                                                         *)
(* Every task has up to three threads: the goroutine that serves POST      *)
(* /v1/tasks (handler), the goroutine startRunner launches (runner), and a *)
(* goroutine that serves its cancellation (canceler).  A critical section  *)
(* of s.mu is one step, except the queue scan of drainUnderLock, which is  *)
(* one step per queued task: the scan runs under s.mu, but task statuses   *)
(* and branch locks are guarded by other mutexes and change under it.      *)
(***************************************************************************)
EXTENDS Integers, SequencesExt

CONSTANTS
    Tasks,              \* the tasks that clients may create
    Surfaces,           \* edit surfaces (paths or globs) a task can touch
    Request,            \* what each task asks for, see RequestType
    Modes,              \* the territory modes the coordinator may run in
    Cancelable,         \* the tasks some client asks to cancel (a bound)
    Overlap,            \* pairs of surfaces for which surfacesOverlap is true
    Fold,               \* strings.EqualFold classes of branch names
    PeerTerritories,    \* territories federated peers may advertise
    None                \* no repository, no branch, no holder

(***************************************************************************)
(* repo and branch are None when the request leaves them empty.  priority  *)
(* is the raw request field and maxRetries the client's retry budget.      *)
(***************************************************************************)
ASSUME RequestAssumption ==
    \A t \in Tasks : /\ Request[t].surfaces \subseteq Surfaces
                     /\ Request[t].priority \in Int
                     /\ Request[t].maxRetries \in Nat
                     /\ Request[t].deadline \in BOOLEAN

ASSUME ModesAssumption == Modes \subseteq {"queue", "warn", "strict", "disabled"}

Threads == {"runner", "cancel"} \X Tasks

\* surfacesOverlap does not depend on the order of its arguments.
ASSUME OverlapAssumption == \A x, y \in Surfaces : <<x, y>> \in Overlap => <<y, x>> \in Overlap

ASSUME NoneAssumption == None \notin Tasks /\ None \notin Threads

VARIABLES
    mode,       \* TerritoryScheduler.mode
    status,     \* ManagedTask.Status ("none": not created yet)
    surfaces,   \* ManagedTask.EditSurfaces, grows as the agent edits files
    queue,      \* TerritoryScheduler.queue
    running,    \* TerritoryScheduler.running
    locks,      \* LockManager.locks: the task that holds each repo/branch
    retries,    \* ManagedTask.retryAttempts
    handler,    \* where the create handler of the task is
    runner,     \* where the runner goroutine of the task is
    canceler,   \* where the cancel handler of the task is
    muOwner,    \* the thread inside drainUnderLock, which holds s.mu
    scan,       \* the position of that scan in the queue
    toStart,    \* the tasks that scan dispatched, not launched before unlock
    manifests   \* territories in the cached manifests of the peers

schedVars == <<mode, queue, running, locks, muOwner, scan, toStart>>
taskVars == <<status, surfaces, retries>>
vars == <<mode, status, surfaces, queue, running, locks, retries, handler,
          runner, canceler, muOwner, scan, toStart, manifests>>

-----------------------------------------------------------------------------
(* Territories and the conflict relation.                                  *)

Territory(t) == [repo |-> Request[t].repo, branch |-> Request[t].branch,
                 surfaces |-> surfaces[t], summary |-> Request[t].summary]

(***************************************************************************)
(* ClashesWith: same repository, and the same branch up to case, or        *)
(* overlapping surfaces, or the same task text.  Two blank texts clash     *)
(* too: their fingerprints hash the repository alone and are equal.        *)
(***************************************************************************)
ClashesWith(a, b) ==
    /\ a.repo # None /\ a.repo = b.repo
    /\ \/ a.branch # None /\ b.branch # None /\ Fold[a.branch] = Fold[b.branch]
       \/ \E x \in a.surfaces, y \in b.surfaces : <<x, y>> \in Overlap
       \/ a.summary = b.summary

Terminal(t) == status[t] \in {"completed", "failed", "canceled"}

RunningTerritories(t) == {Territory(u) : u \in {v \in Tasks \ {t} : status[v] = "running"}}

ActiveTerritories == {Territory(u) : u \in {v \in Tasks : status[v] \in {"queued", "running"}}}

\* Mutant: only the peers are asked, the running tasks are forgotten.
FindRunningConflictPeersOnly(t) ==
    \E other \in manifests : ClashesWith(Territory(t), other)

\* A running task, or a task some peer advertises, is in the way of t.
FindRunningConflict(t) ==
    \E other \in RunningTerritories(t) \cup manifests : ClashesWith(Territory(t), other)

\* The admission check of strict mode also looks at tasks still queued.
FindConflict(t) ==
    \E other \in ActiveTerritories \cup manifests : ClashesWith(Territory(t), other)

-----------------------------------------------------------------------------
(* Branch locks.  The key keeps the case of the branch.                    *)

NeedsLock(t) == Request[t].repo # None /\ Request[t].branch # None
LockKey(t) == <<Request[t].repo, Request[t].branch>>
LockKeys == {LockKey(t) : t \in Tasks}

HoldsLock(t) == NeedsLock(t) => locks[LockKey(t)] = t
LockAvailable(t) == NeedsLock(t) => locks[LockKey(t)] \in {None, t}

ClaimLock(t) == locks' = IF NeedsLock(t) THEN [locks EXCEPT ![LockKey(t)] = t] ELSE locks

\* Mutant: the lock is never deleted.
ReleaseLockForgotten(t) == UNCHANGED locks

\* Mutant: the owner of the lock is not compared with the task.
ReleaseLockAnyOwner(t) ==
    locks' = IF NeedsLock(t) THEN [locks EXCEPT ![LockKey(t)] = None] ELSE locks

ReleaseLock(t) ==
    locks' = IF NeedsLock(t) /\ locks[LockKey(t)] = t
             THEN [locks EXCEPT ![LockKey(t)] = None] ELSE locks

-----------------------------------------------------------------------------
(* The waiting queue.                                                      *)

ClampPriority(p) == IF p < -100 THEN -100 ELSE IF p > 100 THEN 100 ELSE p
Priority(t) == ClampPriority(Request[t].priority)

\* Mutant: the priority is ignored and the task goes last.
InsertPosLast(t, p) == p = Len(queue) + 1

\* p is the first position whose task has a lower priority, or the end.
InsertPos(t, p) ==
    /\ \A i \in 1 .. p - 1 : Priority(queue[i]) >= Priority(t)
    /\ p <= Len(queue) => Priority(queue[p]) < Priority(t)

EnqueueByPriority(t) ==
    \E p \in 1 .. Len(queue) + 1 : InsertPos(t, p) /\ queue' = InsertAt(queue, p, t)

-----------------------------------------------------------------------------
(* The steps that change one task.                                         *)

SetStatus(t, s) == status' = [status EXCEPT ![t] = s]

\* CancelTask and FailTask leave a task that already finished alone.
Finalize(t, s) == status' = IF Terminal(t) THEN status ELSE [status EXCEPT ![t] = s]

HandlerAt(t, pc) == handler' = [handler EXCEPT ![t] = pc]
RunnerAt(t, pc) == runner' = [runner EXCEPT ![t] = pc]
CancelerAt(t, pc) == canceler' = [canceler EXCEPT ![t] = pc]

MuFree == muOwner = None

\* dispatchUnderLock succeeds when the lock can be claimed and the task is
\* still queued; TransitionTo refuses any other status and the claim is undone.
CanDispatch(t) == LockAvailable(t) /\ status[t] = "queued"

DispatchUnderLock(t) ==
    /\ CanDispatch(t)
    /\ ClaimLock(t)
    /\ SetStatus(t, "running")
    /\ running' = running \cup {t}
    /\ RunnerAt(t, "dispatched")

-----------------------------------------------------------------------------
(* POST /v1/tasks: handleCreateTask.                                       *)

\* Strict mode looks for conflicts and for the branch lock before creating
\* the task.  Nothing reserves what it saw.
AdmitStrict(t) ==
    /\ mode = "strict" /\ handler[t] = "idle"
    /\ HandlerAt(t, IF Request[t].repo # None
                          /\ \/ FindConflict(t)
                             \/ NeedsLock(t) /\ locks[LockKey(t)] # None
                    THEN "refused" ELSE "admitted")
    /\ UNCHANGED <<schedVars, taskVars, runner, canceler, manifests>>

CreateTask(t) ==
    /\ handler[t] = IF mode = "strict" THEN "admitted" ELSE "idle"
    /\ SetStatus(t, "queued")
    /\ HandlerAt(t, "created")
    /\ UNCHANGED <<schedVars, surfaces, retries, runner, canceler, manifests>>

\* warn only records the conflict in the event log and dispatches anyway.
HonoursTerritory == mode \in {"queue", "strict"}

\* Schedule, when it gets the task going.
ScheduleStarts(t) ==
    /\ handler[t] = "created" /\ MuFree
    /\ HonoursTerritory => ~FindRunningConflict(t)
    /\ DispatchUnderLock(t)
    /\ HandlerAt(t, "done")
    /\ UNCHANGED <<mode, surfaces, queue, retries, canceler, muOwner, scan,
                   toStart, manifests>>

\* Schedule in queue mode: a running conflict or a held branch lock.
ScheduleEnqueues(t) ==
    /\ handler[t] = "created" /\ MuFree
    /\ mode = "queue"
    /\ FindRunningConflict(t) \/ ~LockAvailable(t)
    /\ EnqueueByPriority(t)
    /\ HandlerAt(t, "done")
    /\ UNCHANGED <<mode, running, locks, muOwner, scan, toStart, taskVars,
                   runner, canceler, manifests>>

\* Schedule returns an error: the conflict in strict mode, the branch lock in
\* every mode but queue, a task that was canceled meanwhile in all of them.
ScheduleFails(t) ==
    /\ handler[t] = "created" /\ MuFree
    /\ \/ mode = "strict" /\ FindRunningConflict(t)
       \/ mode # "queue" /\ ~LockAvailable(t)
       \/ /\ HonoursTerritory => ~FindRunningConflict(t)
          /\ LockAvailable(t) /\ status[t] # "queued"
    /\ HandlerAt(t, "rejected")
    /\ UNCHANGED <<schedVars, taskVars, runner, canceler, manifests>>

\* The handler answers 409 and cancels the task it had created.
CancelRejected(t) ==
    /\ handler[t] = "rejected"
    /\ Finalize(t, "canceled")
    /\ HandlerAt(t, "done")
    /\ UNCHANGED <<schedVars, surfaces, retries, runner, canceler, manifests>>

-----------------------------------------------------------------------------
(* The runner goroutine: startRunner.                                      *)

StartRunner(t) ==
    /\ runner[t] = "dispatched" /\ t \notin toStart
    /\ RunnerAt(t, "executing")
    /\ UNCHANGED <<schedVars, taskVars, handler, canceler, manifests>>

\* The agent reports the end of its work: a completion or an error event.
EmitResult(t, s) ==
    /\ runner[t] = "executing" /\ status[t] = "running"
    /\ SetStatus(t, s)
    /\ UNCHANGED <<schedVars, surfaces, retries, handler, runner, canceler, manifests>>

\* A tool_call event of an edit adds the file to the task's territory.
AddEditSurface(t, x) ==
    /\ runner[t] = "executing" /\ status[t] = "running"
    /\ surfaces' = [surfaces EXCEPT ![t] = @ \cup {x}]
    /\ UNCHANGED <<schedVars, status, retries, handler, runner, canceler, manifests>>

\* Run returns once the task is terminal: nil after the result was emitted,
\* or an error that the recorded cause wins over.
RunReturns(t) ==
    /\ runner[t] = "executing" /\ Terminal(t)
    /\ RunnerAt(t, "finishing")
    /\ UNCHANGED <<schedVars, taskVars, handler, canceler, manifests>>

\* Mutant: one retry too many.
RunRetriesOffByOne(t) ==
    /\ runner[t] = "executing" /\ status[t] = "running"
    /\ retries[t] <= Request[t].maxRetries
    /\ retries' = [retries EXCEPT ![t] = @ + 1]
    /\ RunnerAt(t, "waiting")
    /\ UNCHANGED <<schedVars, status, surfaces, handler, canceler, manifests>>

\* Run fails and handleRetry grants another attempt (DISPATCH_FAILED only).
RunRetries(t) ==
    /\ runner[t] = "executing" /\ status[t] = "running"
    /\ retries[t] < Request[t].maxRetries
    /\ retries' = [retries EXCEPT ![t] = @ + 1]
    /\ RunnerAt(t, "waiting")
    /\ UNCHANGED <<schedVars, status, surfaces, handler, canceler, manifests>>

\* Run panics, or fails for a cause that is not retried or out of budget.
RunFails(t) ==
    /\ runner[t] = "executing" /\ status[t] = "running"
    /\ SetStatus(t, "failed")
    /\ RunnerAt(t, "finishing")
    /\ UNCHANGED <<schedVars, surfaces, retries, handler, canceler, manifests>>

\* The backoff timer.  When the context is done too, select picks either.
RetryTimer(t) ==
    /\ runner[t] = "waiting"
    /\ RunnerAt(t, "executing")
    /\ UNCHANGED <<schedVars, taskVars, handler, canceler, manifests>>

\* The context ends during the backoff: canceled, finalized, or timed out.
WaitAborted(t) ==
    /\ runner[t] = "waiting"
    /\ Terminal(t) \/ Request[t].deadline
    /\ Finalize(t, "failed")
    /\ RunnerAt(t, "finishing")
    /\ UNCHANGED <<schedVars, surfaces, retries, handler, canceler, manifests>>

\* complete, first half: the branch lock goes before s.mu is taken.
ReleaseBranchLock(t) ==
    /\ runner[t] = "finishing"
    /\ ReleaseLock(t)
    /\ RunnerAt(t, "released")
    /\ UNCHANGED <<mode, queue, running, muOwner, scan, toStart, taskVars,
                   handler, canceler, manifests>>

\* Mutant: the scan skips the head of the queue.
BeginDrainSkipsHead(thread) == muOwner' = thread /\ scan' = 2 /\ toStart' = {}

BeginDrain(thread) == muOwner' = thread /\ scan' = 1 /\ toStart' = {}

\* complete, second half: untrack the task and scan the queue, under s.mu.
Complete(t) ==
    /\ runner[t] = "released" /\ MuFree
    /\ running' = running \ {t}
    /\ BeginDrain(<<"runner", t>>)
    /\ RunnerAt(t, "draining")
    /\ UNCHANGED <<mode, queue, locks, taskVars, handler, canceler, manifests>>

-----------------------------------------------------------------------------
(* drainUnderLock, one iteration per queued task.                          *)

DrainDispatches ==
    /\ ~MuFree /\ scan <= Len(queue)
    /\ ~FindRunningConflict(queue[scan])
    /\ DispatchUnderLock(queue[scan])
    /\ toStart' = toStart \cup {queue[scan]}
    /\ queue' = RemoveAt(queue, scan)
    /\ UNCHANGED <<mode, surfaces, retries, handler, canceler, muOwner, scan, manifests>>

DrainKeeps ==
    /\ ~MuFree /\ scan <= Len(queue)
    /\ FindRunningConflict(queue[scan]) \/ ~CanDispatch(queue[scan])
    /\ scan' = scan + 1
    /\ UNCHANGED <<mode, queue, running, locks, muOwner, toStart, taskVars,
                   handler, runner, canceler, manifests>>

DrainEnds(t) ==
    /\ scan > Len(queue)
    /\ \/ /\ muOwner = <<"runner", t>>
          /\ RunnerAt(t, "done") /\ UNCHANGED canceler
       \/ /\ muOwner = <<"cancel", t>>
          /\ CancelerAt(t, "done") /\ UNCHANGED runner
    /\ muOwner' = None /\ toStart' = {} /\ scan' = 1
    /\ UNCHANGED <<mode, queue, running, locks, taskVars, handler, manifests>>

-----------------------------------------------------------------------------
(* POST /v1/tasks/{id}/cancel: handleTaskCancel.                           *)

CancelQueued(t) ==
    /\ canceler[t] = "idle" /\ status[t] # "none" /\ MuFree
    /\ \/ \E i \in 1 .. Len(queue) :
             /\ queue[i] = t /\ \A j \in 1 .. i - 1 : queue[j] # t
             /\ queue' = RemoveAt(queue, i)
             /\ CancelerAt(t, "dequeued")
       \/ /\ ~Contains(queue, t)
          /\ CancelerAt(t, "direct")
          /\ UNCHANGED queue
    /\ UNCHANGED <<mode, running, locks, muOwner, scan, toStart, taskVars,
                   handler, runner, manifests>>

\* CancelTask: a task already finished answers 400 and nothing else happens.
CancelTask(t) ==
    /\ canceler[t] \in {"dequeued", "direct"}
    /\ Finalize(t, "canceled")
    /\ CancelerAt(t, IF canceler[t] = "direct" /\ ~Terminal(t) THEN "canceled" ELSE "done")
    /\ UNCHANGED <<schedVars, surfaces, retries, handler, runner, manifests>>

\* The handler frees the branch although the runner may still be executing.
CancelReleasesLock(t) ==
    /\ canceler[t] = "canceled"
    /\ ReleaseLock(t)
    /\ CancelerAt(t, "released")
    /\ UNCHANGED <<mode, queue, running, muOwner, scan, toStart, taskVars,
                   handler, runner, manifests>>

CancelDrains(t) ==
    /\ canceler[t] = "released" /\ MuFree
    /\ BeginDrain(<<"cancel", t>>)
    /\ CancelerAt(t, "draining")
    /\ UNCHANGED <<mode, queue, running, locks, taskVars, handler, runner, manifests>>

-----------------------------------------------------------------------------
(* The rest of the coordinator.                                            *)

\* FailTasksOfNode: the node of a running task was pruned or revoked.
FailTaskOfNode(t) ==
    /\ status[t] = "running" /\ runner[t] \in {"executing", "waiting"}
    /\ SetStatus(t, "failed")
    /\ UNCHANGED <<schedVars, surfaces, retries, handler, runner, canceler, manifests>>

\* SyncPeer replaces a cached manifest; nothing drains the queue afterwards.
SyncPeer ==
    /\ manifests' \in SUBSET PeerTerritories \ {manifests}
    /\ UNCHANGED <<schedVars, taskVars, handler, runner, canceler>>

-----------------------------------------------------------------------------
Init ==
    /\ mode \in Modes
    /\ status = [t \in Tasks |-> "none"]
    /\ surfaces = [t \in Tasks |-> Request[t].surfaces]
    /\ queue = <<>>
    /\ running = {}
    /\ locks = [k \in LockKeys |-> None]
    /\ retries = [t \in Tasks |-> 0]
    /\ handler = [t \in Tasks |-> "idle"]
    /\ runner = [t \in Tasks |-> "none"]
    /\ canceler = [t \in Tasks |-> "idle"]
    /\ muOwner = None
    /\ scan = 1
    /\ toStart = {}
    /\ manifests = {}

ScheduleStep(t) ==
    ScheduleStarts(t) \/ ScheduleEnqueues(t) \/ ScheduleFails(t) \/ CancelRejected(t)

RunStep(t) ==
    \/ StartRunner(t) \/ RunReturns(t) \/ RunRetries(t) \/ RunFails(t)
    \/ RetryTimer(t) \/ WaitAborted(t) \/ ReleaseBranchLock(t) \/ Complete(t)

DrainStep == DrainDispatches \/ DrainKeeps \/ \E t \in Tasks : DrainEnds(t)

CancelStep(t) == CancelTask(t) \/ CancelReleasesLock(t) \/ CancelDrains(t)

\* Every thread has returned and every task is over: the only state to stop in.
Idle ==
    /\ \A t \in Tasks : /\ Terminal(t) \/ handler[t] = "refused"
                        /\ runner[t] \in {"none", "done"}
                        /\ canceler[t] \in {"idle", "done"}
    /\ UNCHANGED vars

Next ==
    \/ \E t \in Tasks :
          \/ AdmitStrict(t) \/ CreateTask(t) \/ ScheduleStep(t)
          \/ RunStep(t)
          \/ t \in Cancelable /\ CancelQueued(t)
          \/ CancelStep(t)
          \/ \E s \in {"completed", "failed"} : EmitResult(t, s)
          \/ \E x \in Surfaces : AddEditSurface(t, x)
          \/ FailTaskOfNode(t)
    \/ DrainStep
    \/ SyncPeer
    \/ Idle

Spec == Init /\ [][Next]_vars

(***************************************************************************)
(* A goroutine that can take a step takes it: Go's scheduler is fair to    *)
(* runnable goroutines and sync.Mutex to waiters.  A runner returns from   *)
(* Run in the end.  Clients, peers and the node monitor promise nothing.   *)
(***************************************************************************)
Fairness ==
    /\ \A t \in Tasks : /\ WF_vars(ScheduleStep(t))
                        /\ WF_vars(RunStep(t))
                        /\ WF_vars(CancelStep(t))
    /\ WF_vars(DrainStep)

FairSpec == Spec /\ Fairness

-----------------------------------------------------------------------------
(* Properties.                                                             *)

RunnerStates == {"none", "dispatched", "executing", "waiting", "finishing",
                 "released", "draining", "done"}

\* Every variable has its type; a task never uses more retries than its
\* request allows (handleRetry).
TypeOK ==
    /\ mode \in Modes
    /\ status \in [Tasks -> {"none", "queued", "running", "completed", "failed", "canceled"}]
    /\ surfaces \in [Tasks -> SUBSET Surfaces]
    /\ queue \in Seq(Tasks)
    /\ running \in SUBSET Tasks
    /\ locks \in [LockKeys -> Tasks \cup {None}]
    /\ retries \in [Tasks -> Nat]
    /\ \A t \in Tasks : retries[t] <= Request[t].maxRetries
    /\ handler \in [Tasks -> {"idle", "refused", "admitted", "created", "rejected", "done"}]
    /\ runner \in [Tasks -> RunnerStates]
    /\ canceler \in [Tasks -> {"idle", "dequeued", "direct", "canceled", "released",
                               "draining", "done"}]
    /\ muOwner \in Threads \cup {None}
    /\ scan \in Nat \ {0}
    /\ toStart \in SUBSET Tasks
    /\ manifests \in SUBSET PeerTerritories

\* No branch lock leaks: whoever holds one is tracked in s.running, so its
\* runner goroutine will still go through complete() and give it back, even
\* when the cancel handler and the runner race to release it.
LockHolderTracked ==
    \A k \in LockKeys : locks[k] # None => locks[k] \in running /\ LockKey(locks[k]) = k

\* A task whose status is running is tracked and holds its branch lock, in
\* every mode, through retries and whatever other tasks are canceled: the
\* owner check of ReleaseLock never lets another task's cleanup free it.
RunningHoldsLock ==
    \A t \in Tasks : status[t] = "running" => t \in running /\ HoldsLock(t)

\* In queue and strict mode two tasks whose status is running never declared
\* territories that clash, although Schedule and the drains of several
\* threads decide at different moments.
RunningDeclaredDisjoint ==
    HonoursTerritory =>
        \A t, u \in Tasks :
            t # u /\ status[t] = "running" /\ status[u] = "running"
            => ~ClashesWith([Territory(t) EXCEPT !.surfaces = Request[t].surfaces],
                            [Territory(u) EXCEPT !.surfaces = Request[u].surfaces])

\* Whoever will run drainUnderLock in the future, or is in the way of t now.
Blocks(u, t) ==
    /\ u \in running
    /\ Terminal(u) \/ ClashesWith(Territory(t), Territory(u))

\* No lost wake-up without peers: a queued task the current scan has already
\* passed is blocked by a tracked task, whose complete() will drain again.
\* This is what the comments on Schedule and complete promise although the
\* branch lock is released outside s.mu.
NoStrandedTask ==
    \A i \in 1 .. Len(queue) :
        status[queue[i]] = "queued" /\ (MuFree \/ i < scan)
        => \E u \in Tasks : Blocks(u, queue[i])

\* A queue scan or a cancellation never disturbs the order: higher clamped
\* priorities first, and a task waits in the queue at most once.
QueueOrdered ==
    \A i, j \in 1 .. Len(queue) :
        i < j => queue[i] # queue[j] /\ Priority(queue[i]) >= Priority(queue[j])

\* A task gets a runner at most once: neither the create handler nor any
\* drain dispatches it again, whatever its cancellation is doing.
DispatchedOnce ==
    [][\A t \in Tasks : runner'[t] = "dispatched" /\ runner[t] # "dispatched"
                        => runner[t] = "none" /\ ~Contains(queue', t)]_vars

\* The queue moves: with fair goroutines a queued task starts or is canceled in
\* the end, and a task that was started gives its branch lock back, whichever
\* of its runner and its cancel handler does it.
QueueDrains ==
    \A t \in Tasks :
        /\ status[t] = "queued" ~> status[t] # "queued"
        /\ t \in running ~> t \notin running /\ (NeedsLock(t) => locks[LockKey(t)] # t)
=============================================================================
