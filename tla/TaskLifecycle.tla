---------------------------- MODULE TaskLifecycle ----------------------------
(***************************************************************************)
(* One managed task: its status machine and event log (pkg/server/task/    *)
(* task.go, logger.go), the operations of the TaskManager on it            *)
(* (manager.go), its row in the SQLite store, and the restart of the       *)
(* coordinator.                                                            *)
(*                                                                         *)
(* Threads of the coordinator act on the task concurrently: the one that   *)
(* dispatches it, its runner goroutine, a cancel handler, and the failers  *)
(* (the prune loop and certificate revocations, which fail the tasks of a  *)
(* node).  A critical section of the task mutex is one step.  Everything   *)
(* the code does between two critical sections can be interleaved: the two *)
(* halves of FailTask, and the snapshot and the write of syncTaskToStore.  *)
(***************************************************************************)
EXTENDS Integers, SequencesExt

CONSTANTS
    Failers,        \* threads that run FailTasksOfNode, named by their cause
    MaxEvents,      \* bound: event ids one task uses
    MaxStops,       \* bound: times the coordinator stops and restarts
    MaxKills,       \* bound: the process may be killed before stop number MaxKills + 1
    MaxLogFaults    \* bound: event log writes that fail (full disk)

ASSUME BoundsAssumption ==
    MaxEvents \in Nat /\ MaxStops \in Nat /\ MaxKills \in 0 .. MaxStops /\ MaxLogFaults \in Nat

Threads == {"dispatcher", "runner", "canceler", "restarter"} \cup Failers

ASSUME FailersAssumption ==
    Failers \cap {"dispatcher", "runner", "canceler", "restarter", "none", "agent"} = {}

\* ErrorPayload.Code, named by the thread that reports it; "agent" is an
\* error event of the agent itself and "none" is a nil Error.
Causes == Threads \cup {"agent", "none"}

Statuses == {"queued", "preparing", "running", "completed", "failed", "canceled"}
TerminalStatuses == {"completed", "failed", "canceled"}

VARIABLES
    status,     \* ManagedTask.Status
    cause,      \* ManagedTask.Error
    node,       \* ManagedTask.NodeID is set
    seq,        \* ManagedTask.eventSeq
    log,        \* the lines of the JSONL file
    open,       \* an SSE subscriber is connected
    row,        \* the task's row in the store
    pc,         \* where each thread is
    reported,   \* FailTask's alreadyReported, per thread
    snapshot,   \* syncTaskToStore's record, per thread
    up,         \* the coordinator process is running
    closed,     \* TaskManager.closed
    stops,      \* how many times the process has stopped
    faults      \* how many log writes have failed

memVars == <<status, cause, node, seq, open>>
procVars == <<up, closed, stops>>
vars == <<status, cause, node, seq, log, open, row, pc, reported, snapshot,
          up, closed, stops, faults>>

-----------------------------------------------------------------------------
(* The status machine.                                                     *)

Terminal == status \in TerminalStatuses

IsValidTransition(from, to) ==
    \/ from = "queued" /\ to \in {"preparing", "running", "canceled", "failed"}
    \/ from = "preparing" /\ to \in {"running", "canceled", "failed"}
    \/ from = "running" /\ to \in {"completed", "canceled", "failed"}

-----------------------------------------------------------------------------
(* The event log.  A crash can cut the line being written ("torn"): the    *)
(* reopened file appends the next event to it and both are lost            *)
(* ("garbled").  ReadEvents forgives a bad last line only.                 *)

Event(kind, what) == [id |-> seq + 1, kind |-> kind, what |-> what]
Torn == [id |-> 0, kind |-> "torn", what |-> "none"]
Garbled == [id |-> 0, kind |-> "garbled", what |-> "none"]
Lines == [id : Nat, kind : {"status", "completion", "error", "torn", "garbled"},
          what : Causes \cup Statuses]
Bad(line) == line.kind \in {"torn", "garbled"}

Append1(line) ==
    IF log # <<>> /\ Last(log) = Torn
    THEN ReplaceAt(log, Len(log), Garbled)
    ELSE Append(log, line)

\* A part of a line; a part after a part is still one bad line.
AppendPart == IF log # <<>> /\ Last(log) = Torn THEN log ELSE Append(log, Torn)

\* WriteEvent: the line is appended (ok), or the write or the Sync after it fails,
\* and nothing, a part or all of the line is in the file.
WriteEvent(line, ok) ==
    \/ ok /\ log' = Append1(line) /\ UNCHANGED faults
    \/ /\ ~ok /\ faults < MaxLogFaults /\ faults' = faults + 1
       /\ log' \in {log, AppendPart, Append1(line)}

Unreadable(lines) == \E i \in 1 .. Len(lines) - 1 : Bad(lines[i])
ReadEvents(lines) ==
    IF lines = <<>> \/ Unreadable(lines) THEN <<>>
    ELSE IF Bad(Last(lines)) THEN Front(lines) ELSE lines
LastEventID(lines) == IF ReadEvents(lines) = <<>> THEN 0 ELSE Last(ReadEvents(lines)).id

-----------------------------------------------------------------------------
(* The critical sections of the task mutex.  Every event takes an id and   *)
(* sets the status before it is written; the subscribers are closed after  *)
(* the write, which a failed write never reaches.                          *)

Goto(th, where) == pc' = [pc EXCEPT ![th] = where]

\* Where a thread goes when its operation on the task has returned, and
\* when TransitionTo failed: no runner is started after a failed dispatch.
Return(th) == IF th = "runner" THEN "idle" ELSE "done"
ReturnError(th) == IF th = "dispatcher" THEN "aborted" ELSE Return(th)

\* Mutant: the subscribers of a finished task are not closed.
EmitLineKeepsOpen(line, newStatus, ok) ==
    /\ seq' = seq + 1
    /\ status' = newStatus
    /\ WriteEvent(line, ok)
    /\ UNCHANGED open

EmitLine(line, newStatus, ok) ==
    /\ seq' = seq + 1
    /\ status' = newStatus
    /\ WriteEvent(line, ok)
    /\ open' = (open /\ (newStatus \in TerminalStatuses => ~ok))

\* TransitionTo returns the error of a failed write and skips onUpdate.
TransitionTo(th, s, ok) ==
    /\ IsValidTransition(status, s)
    /\ EmitLine(Event("status", s), s, ok)
    /\ Goto(th, IF ok THEN "notify" ELSE ReturnError(th))
    /\ UNCHANGED cause

\* Mutant: the status is recorded where the cause belongs.
EmitErrorRecordsStatus(th, c, ok) ==
    /\ ~Terminal
    /\ EmitLine(Event("error", c), "failed", ok)
    /\ cause' = "failed"
    /\ Goto(th, "notify")

\* EmitEvent of an error event: the cause already recorded wins.
EmitError(th, c, ok) ==
    /\ ~Terminal
    /\ EmitLine(Event("error", c), "failed", ok)
    /\ cause' = IF cause = "none" THEN c ELSE cause
    /\ Goto(th, "notify")

\* EmitEvent of a completion event, which no earlier cause stops.
EmitCompletion(ok) ==
    /\ ~Terminal
    /\ EmitLine(Event("completion", "none"), "completed", ok)
    /\ Goto("runner", "notify")
    /\ UNCHANGED cause

\* EmitEvent of a status event the worker streams.  A repeated status, or
\* queued while running, is logged and changes nothing; an invalid one is
\* refused after it has used an event id.
EmitStatus(s, ok) ==
    /\ ~Terminal
    /\ \/ /\ s = status \/ (status = "running" /\ s = "queued")
          /\ EmitLine(Event("status", s), status, ok)
          /\ UNCHANGED pc
       \/ /\ IsValidTransition(status, s)
          /\ EmitLine(Event("status", s), s, ok)
          /\ Goto("runner", "notify")
       \/ /\ s # status /\ ~IsValidTransition(status, s)
          /\ ~(status = "running" /\ s = "queued")
          /\ seq' = seq + 1
          /\ UNCHANGED <<status, log, faults, open, pc>>
    /\ UNCHANGED cause

-----------------------------------------------------------------------------
(* Operations.                                                             *)

At(th, where) == up /\ pc[th] = where

\* dispatchUnderLock moves the task to running before the runner starts.
Dispatch(ok) ==
    /\ At("dispatcher", "idle")
    /\ IF status = "queued" THEN TransitionTo("dispatcher", "running", ok)
       ELSE Goto("dispatcher", "done") /\ UNCHANGED <<status, cause, seq, log, open, faults>>
    /\ UNCHANGED <<node, row, reported, snapshot, procVars>>

RunnerActive == At("runner", "idle") /\ pc["dispatcher"] = "done" /\ ~Terminal /\ status # "queued"

\* The first event of a mesh node names the node that runs the task.
AttributeNode ==
    /\ RunnerActive /\ ~node
    /\ node' = TRUE
    /\ Goto("runner", "notify")
    /\ UNCHANGED <<status, cause, seq, log, open, row, reported, snapshot, procVars, faults>>

RunnerEmits(ok) ==
    /\ RunnerActive
    /\ \/ EmitCompletion(ok)
       \/ EmitError("runner", "agent", ok)
       \/ seq < MaxEvents /\ \E s \in Statuses : EmitStatus(s, ok)
    /\ UNCHANGED <<node, row, reported, snapshot, procVars>>

\* Mutant: the restart forgets the tasks that were queued.
StartFailingNotQueued(th) ==
    \/ th = "runner" /\ RunnerActive
    \/ th = "restarter" /\ At(th, "idle") /\ status \in {"preparing", "running"}
    \/ At(th, "collected")

\* FailTask is called by the runner goroutine when Run failed, and by the
\* restart on what the store still holds as pending.
StartFailing(th) ==
    \/ th = "runner" /\ RunnerActive
    \/ th = "restarter" /\ At(th, "idle") /\ ~Terminal
    \/ At(th, "collected")

\* FailTasksOfNode first collects the running tasks of its node.
CollectTask(th) ==
    /\ th \in Failers /\ At(th, "idle")
    /\ node /\ status = "running"
    /\ Goto(th, "collected")
    /\ UNCHANGED <<memVars, log, row, reported, snapshot, procVars, faults>>

\* Mutant: the failure is stored before the task is failed.
FailTaskRecordsPersistsEarly(th) ==
    /\ StartFailing(th) /\ ~Terminal
    /\ reported' = [reported EXCEPT ![th] = (cause # "none")]
    /\ cause' = th
    /\ row' = [status |-> "failed", cause |-> th]
    /\ Goto(th, "recorded")
    /\ UNCHANGED <<status, node, seq, log, open, snapshot, procVars, faults>>

\* FailTask, first critical section: record the cause over any other.
FailTaskRecords(th) ==
    /\ StartFailing(th)
    /\ IF Terminal THEN Goto(th, Return(th)) /\ UNCHANGED <<cause, reported>>
       ELSE /\ reported' = [reported EXCEPT ![th] = (cause # "none")]
            /\ cause' = th
            /\ Goto(th, "recorded")
    /\ UNCHANGED <<status, node, seq, log, open, row, snapshot, procVars, faults>>

\* FailTask, second critical section: the error event, unless a cause had
\* been reported, and then the bare transition.
FailTaskFinalizes(th, ok) ==
    /\ At(th, "recorded")
    /\ \/ ~Terminal /\ ~reported[th] /\ EmitError(th, th, ok)
       \/ ~Terminal /\ reported[th] /\ TransitionTo(th, "failed", ok)
       \/ Terminal /\ Goto(th, Return(th)) /\ UNCHANGED <<status, cause, seq, log, open, faults>>
    /\ UNCHANGED <<node, row, reported, snapshot, procVars>>

\* Mutant: a finished task can still be canceled.
CancelTaskUnchecked(ok) ==
    /\ At("canceler", "idle") /\ ~closed
    /\ seq' = seq + 1
    /\ status' = "canceled"
    /\ WriteEvent(Event("status", "canceled"), ok)
    /\ open' = FALSE
    /\ Goto("canceler", "notify")
    /\ UNCHANGED <<cause, node, row, reported, snapshot, procVars>>

\* CancelTask ignores a failed write and always closes the subscribers.
CancelTask(ok) ==
    /\ At("canceler", "idle") /\ ~closed
    /\ IF Terminal
       THEN Goto("canceler", "done") /\ UNCHANGED <<status, seq, log, open, faults>>
       ELSE /\ seq' = seq + 1
            /\ status' = "canceled"
            /\ WriteEvent(Event("status", "canceled"), ok)
            /\ open' = FALSE
            /\ Goto("canceler", "notify")
    /\ UNCHANGED <<cause, node, row, reported, snapshot, procVars>>

\* syncTaskToStore: the store is told nothing once closed is set.
SyncCheck(th) ==
    /\ At(th, "notify")
    /\ Goto(th, IF closed THEN Return(th) ELSE "sync")
    /\ UNCHANGED <<memVars, log, row, reported, snapshot, procVars, faults>>

\* syncTaskToStore, under the task's read lock.
SyncSnapshot(th) ==
    /\ At(th, "sync")
    /\ snapshot' = [snapshot EXCEPT ![th] = [status |-> status, cause |-> cause]]
    /\ Goto(th, "write")
    /\ UNCHANGED <<memVars, log, row, reported, procVars, faults>>

\* syncTaskToStore, after the lock: an unconditional upsert.
SyncWrite(th) ==
    /\ At(th, "write")
    /\ row' = snapshot[th]
    /\ Goto(th, Return(th))
    /\ UNCHANGED <<memVars, log, reported, snapshot, procVars, faults>>

-----------------------------------------------------------------------------
(* The coordinator stops and restarts.                                     *)

NoOperation == \A th \in Threads : pc[th] \in {"idle", "done", "aborted"}

\* Close: the contexts are canceled and syncTaskToStore is switched off.
Close ==
    /\ up /\ ~closed /\ stops < MaxStops
    /\ closed' = TRUE
    /\ UNCHANGED <<memVars, log, row, pc, reported, snapshot, up, stops, faults>>

\* Close has waited for the runner goroutines (whose contexts it canceled) and
\* the HTTP server, before it, for the handlers.
Exit ==
    /\ up /\ closed /\ NoOperation /\ ~RunnerActive
    /\ up' = FALSE
    /\ stops' = stops + 1
    /\ open' = FALSE
    /\ UNCHANGED <<status, cause, node, seq, log, row, pc, reported, snapshot, closed, faults>>

\* The process is killed; the write of an event may have been cut short.
Crash ==
    /\ up /\ stops < MaxKills
    /\ up' = FALSE
    /\ stops' = stops + 1
    /\ \/ UNCHANGED log
       \/ ~Terminal /\ log' = AppendPart
    /\ open' = FALSE
    /\ UNCHANGED <<status, cause, node, seq, row, pc, reported, snapshot, closed, faults>>

\* Mutant: event ids start over after a restart.
RestartForgetsSeq ==
    /\ ~up
    /\ up' = TRUE /\ closed' = FALSE
    /\ status' = row.status
    /\ cause' = row.cause
    /\ seq' = 0
    /\ node' = FALSE
    /\ pc' = [th \in Threads |-> IF th = "restarter" THEN "idle" ELSE "done"]
    /\ reported' = [th \in Threads |-> FALSE]
    /\ UNCHANGED <<log, open, row, snapshot, stops, faults>>

\* NewTaskManager and rehydrateTask: the row is the state, the log the
\* last event id.  No runner of the old process is left.
Restart ==
    /\ ~up
    /\ up' = TRUE /\ closed' = FALSE
    /\ status' = row.status
    /\ cause' = row.cause
    /\ seq' = LastEventID(log)
    /\ node' = FALSE
    /\ pc' = [th \in Threads |-> IF th = "restarter" THEN "idle" ELSE "done"]
    /\ reported' = [th \in Threads |-> FALSE]
    /\ UNCHANGED <<log, open, row, snapshot, stops, faults>>

-----------------------------------------------------------------------------
\* CreateTask saved the row and logged the first status event.
Init ==
    /\ status = "queued" /\ cause = "none" /\ node = FALSE /\ seq = 1
    /\ log = <<[id |-> 1, kind |-> "status", what |-> "queued"]>>
    /\ open = TRUE
    /\ row = [status |-> "queued", cause |-> "none"]
    /\ pc = [th \in Threads |-> IF th = "restarter" THEN "done" ELSE "idle"]
    /\ reported = [th \in Threads |-> FALSE]
    /\ snapshot = [th \in Threads |-> [status |-> "queued", cause |-> "none"]]
    /\ up = TRUE /\ closed = FALSE /\ stops = 0 /\ faults = 0

FailStep(th) == FailTaskRecords(th) \/ \E ok \in BOOLEAN : FailTaskFinalizes(th, ok)
SyncStep(th) == SyncCheck(th) \/ SyncSnapshot(th) \/ SyncWrite(th)

\* Nothing is in progress: the coordinator waits for its clients.
Waiting == up /\ NoOperation /\ UNCHANGED vars

Next ==
    \/ \E ok \in BOOLEAN : Dispatch(ok) \/ RunnerEmits(ok) \/ CancelTask(ok)
    \/ AttributeNode
    \/ \E th \in Threads : CollectTask(th) \/ FailStep(th) \/ SyncStep(th)
    \/ Close \/ Exit \/ Crash \/ Restart
    \/ Waiting

Spec == Init /\ [][Next]_vars

\* A started operation runs to its end while the process lives, and whoever
\* operates the coordinator restarts it.  Nothing is assumed of the runner.
Fairness ==
    /\ WF_vars(Restart)
    /\ \A th \in Threads \ {"runner"} : WF_vars(FailStep(th) \/ SyncStep(th))

FairSpec == Spec /\ Fairness

-----------------------------------------------------------------------------
(* Properties.                                                             *)

PCs == {"idle", "collected", "recorded", "notify", "sync", "write", "aborted", "done"}

\* Every variable has its type.
TypeOK ==
    /\ status \in Statuses /\ cause \in Causes
    /\ node \in BOOLEAN /\ seq \in Nat /\ open \in BOOLEAN
    /\ log \in Seq(Lines)
    /\ row \in [status : Statuses, cause : Causes]
    /\ pc \in [Threads -> PCs]
    /\ reported \in [Threads -> BOOLEAN]
    /\ snapshot \in [Threads -> [status : Statuses, cause : Causes]]
    /\ up \in BOOLEAN /\ closed \in BOOLEAN
    /\ stops \in 0 .. MaxStops /\ faults \in 0 .. MaxLogFaults

\* isTerminalLocked: a final state is immutable while the process lives,
\* whichever threads still act on the task.
TerminalImmutable == [][up /\ up' /\ Terminal => status' = status]_vars

\* Clients resume a stream with Last-Event-ID, so the ids a reader of the
\* log sees increase strictly, across restarts too, and a live task never
\* gives out an id the log already holds.
LogIdsIncrease ==
    LET seen == ReadEvents(log)
    IN  \A j \in 1 .. Len(seen) : /\ up => seen[j].id <= seq
                                  /\ \A i \in 1 .. j - 1 : seen[i].id < seen[j].id

\* The store never holds an outcome the task does not have: a stale or a
\* delayed write of syncTaskToStore can lose an outcome but not invent one.
RowOutcomeReal ==
    up /\ row.status \in TerminalStatuses => status = row.status

\* As long as the event log could be written, the SSE streams of a finished
\* task are closed, whichever thread finished it.
StreamEnds == Terminal /\ faults = 0 => ~open

\* NewTaskManager: no task of a previous process stays pending for ever.
RestartSettles == stops > 0 ~> up /\ Terminal

\* logger.go:86: ReadEvents "tolerates a corrupt/partial trailing line if a crash
\* occurred mid-write at EOF", so whatever crashes leave in the file, a coordinator
\* that is up can read it.
LogReadable == up => ~Unreadable(log)
=============================================================================
