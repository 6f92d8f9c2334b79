---------------------------- MODULE ProcessRunner ----------------------------
(***************************************************************************)
(* The runners that start an agent as a child process: GentleShellRunner   *)
(* (gentleshell.go), in a sandbox over a git worktree of its own, and      *)
(* PiRunner (pi.go), in the working directory.                             *)
(*                                                                         *)
(* A run is one call of Run.  The runs here are deliveries of one task to  *)
(* one worker, so the gentle-shell runs share the worktree directory and   *)
(* the proposal branch, which are named after the task.  A line of the     *)
(* child is a tool call, a text, or one longer than the scanner's buffer.  *)
(*                                                                         *)
(* The child is a tree of processes: the one the runner started, which it  *)
(* waits for, and its descendants, which hold the output open as well.     *)
(***************************************************************************)
EXTENDS Naturals, Sequences

CONSTANTS
    Runs,
    DeadlineRuns,   \* runs whose request has a timeout
    PiRuns,         \* bound: the runs that are started with Pi, which share nothing
    MaxToolCalls,   \* budget of tool calls of a gentle-shell run
    PipeCap,        \* bound: lines the operating system's pipe holds
    ChanCap,        \* capacity of the channel of lines
    MaxLines,       \* bound: lines a child writes
    MaxFaults,      \* bound: commands that fail, removals included, and tasks that are canceled
    None

LineKinds == {"tool", "text", "huge"}

\* A worktree: whose it is, what it holds, and whether a removal of it has failed.
Worktrees == [of : Runs, commits : BOOLEAN, dirty : BOOLEAN, left : BOOLEAN]

ASSUME RunnerAssumption ==
    /\ MaxToolCalls \in Nat /\ PipeCap \in Nat \ {0} /\ ChanCap \in Nat \ {0}
    /\ MaxLines \in Nat /\ MaxFaults \in Nat
    /\ DeadlineRuns \subseteq Runs /\ PiRuns \subseteq Runs
    /\ None \notin Runs /\ None \notin Worktrees

VARIABLES
    kind,       \* the runner the worker was started with: "gentle-shell" or "pi"
    pc,         \* where Run is
    ctx,        \* runCtx: "live", or what ended it; "stopped" is the run itself
    child,      \* the process tree: "none", "alive", "ok", "bad", "killed", or
                \* "orphaned", when only descendants are left of it
    written,    \* lines the child has written
    pipe,       \* its standard output, what the reader has in its buffer included
    scanner,    \* the goroutine that reads it
    lines,      \* chan lines
    scanErr,    \* chan scanErr
    readErr,    \* what consume returned
    handled,    \* lines consume has handled
    tools,      \* toolCallsSeen
    cause,      \* exitCause.eventCode
    killing,    \* killProcessTree was called
    event,      \* the event of the run that ended the task
    sink,       \* whether the task still takes events
    tree,       \* the worktree directory, or None
    branch,     \* the proposal branch exists in the cache
    faults

childVars == <<child, written, pipe>>
readVars == <<scanner, lines, scanErr, readErr, handled, tools>>
exitVars == <<cause, killing>>
gitVars == <<tree, branch>>
vars == <<kind, pc, ctx, childVars, readVars, exitVars, event, sink, gitVars, faults>>

Gentle == kind = "gentle-shell"
\* A gentle-shell run always has one: TotalTimeout, or the request's if smaller.
HasDeadline(r) == Gentle \/ r \in DeadlineRuns
At(r, where) == pc[r] = where
Goto(r, where) == pc' = [pc EXCEPT ![r] = where]
Fault == faults < MaxFaults /\ faults' = faults + 1

\* An event that finishes the task cancels its context as well.
EmitFinal(r, code) ==
    /\ event' = [event EXCEPT ![r] = IF sink[r] THEN code ELSE @]
    /\ sink' = [sink EXCEPT ![r] = FALSE]

\* The deferred calls: first cancelRun, then cleanupWorktree.
Return(r) ==
    /\ Goto(r, IF Gentle THEN "cleanup" ELSE "done")
    /\ ctx' = [ctx EXCEPT ![r] = IF @ = "live" THEN "stopped" ELSE @]

FailRun(r, code) == EmitFinal(r, code) /\ Return(r)

-----------------------------------------------------------------------------
(* The worktree and the start of the child.                                *)

Begin(r) ==
    /\ At(r, "idle") /\ (Gentle \/ r \in PiRuns)
    /\ Goto(r, IF Gentle THEN "prepare" ELSE "start")
    /\ UNCHANGED <<ctx, childVars, readVars, exitVars, event, sink, gitVars, faults>>

\* git worktree add -b refuses a directory or a branch that exists.
WorktreeAdd(r) ==
    /\ At(r, "prepare") /\ tree = None /\ ~branch
    /\ tree' = [of |-> r, commits |-> FALSE, dirty |-> FALSE, left |-> FALSE] /\ branch' = TRUE
    /\ Goto(r, "start")
    /\ UNCHANGED <<ctx, childVars, readVars, exitVars, event, sink, faults>>

WorktreeRefused(r) ==
    /\ At(r, "prepare") /\ (tree # None \/ branch)
    /\ FailRun(r, "WORKTREE_ERROR")
    /\ UNCHANGED <<childVars, readVars, exitVars, gitVars, faults>>

StartChild(r) ==
    /\ At(r, "start") /\ ctx[r] = "live"
    /\ child' = [child EXCEPT ![r] = "alive"]
    /\ scanner' = [scanner EXCEPT ![r] = IF Gentle THEN "reading" ELSE @]
    /\ Goto(r, "consume")
    /\ UNCHANGED <<ctx, written, pipe, lines, scanErr, readErr, handled, tools, exitVars, event, sink, gitVars, faults>>

\* git or the child does not start; a context that is over does not start it.
StartFails(r) ==
    /\ At(r, "prepare") \/ At(r, "start")
    /\ IF ctx[r] = "live" THEN Fault ELSE UNCHANGED faults
    /\ FailRun(r, "START_ERROR")
    /\ UNCHANGED <<childVars, readVars, exitVars, gitVars>>

-----------------------------------------------------------------------------
(* The child, the kill and the clock.                                      *)

Alive(r) == child[r] = "alive"
\* Somebody can still write, and Run has not closed the other end in Wait.
PipeOpen(r) == child[r] \in {"alive", "orphaned"} /\ pc[r] \in {"consume", "classify", "wait"}

ChildWrites(r, line) ==
    /\ PipeOpen(r) /\ written[r] < MaxLines /\ Len(pipe[r]) < PipeCap
    /\ written' = [written EXCEPT ![r] = @ + 1]
    /\ pipe' = [pipe EXCEPT ![r] = Append(@, line)]
    /\ UNCHANGED <<pc, ctx, child, readVars, exitVars, event, sink, gitVars, faults>>

\* The agent changes files or commits them, as long as it has a directory; what
\* outlives it goes on.
ChildWorks(r) ==
    /\ child[r] \in {"alive", "orphaned"} /\ Gentle /\ tree # None
    /\ \/ tree' = [tree EXCEPT !.dirty = TRUE]
       \/ tree.dirty /\ tree' = [tree EXCEPT !.dirty = FALSE, !.commits = TRUE]
    /\ UNCHANGED <<pc, ctx, childVars, readVars, exitVars, event, sink, branch, faults>>

ChildExits(r) ==
    /\ \/ Alive(r) /\ \E code \in {"ok", "bad"} : child' = [child EXCEPT ![r] = code]
       \/ child[r] = "orphaned" /\ child' = [child EXCEPT ![r] = "killed"]
    /\ UNCHANGED <<pc, ctx, written, pipe, readVars, exitVars, event, sink, gitVars, faults>>

\* A signal to one process ends it, and its descendants or not.
KillOne(r) == Alive(r) /\ \E end \in {"killed", "orphaned"} : child' = [child EXCEPT ![r] = end]

\* Mutant: the deadline does not kill, only a cancellation does.
ContextKillsCanceled(r) ==
    /\ ctx[r] = "canceled" /\ PipeOpen(r)
    /\ \/ Gentle /\ child' = [child EXCEPT ![r] = "killed"]
       \/ ~Gentle /\ KillOne(r)
    /\ UNCHANGED <<pc, ctx, written, pipe, readVars, exitVars, event, sink, gitVars, faults>>
\* os/exec, when the context ends before the child is reaped: cmd.Cancel kills the
\* process group of a gentle-shell run, Pi has none and loses one process.
ContextKills(r) ==
    /\ ctx[r] # "live" /\ PipeOpen(r)
    /\ \/ Gentle /\ child' = [child EXCEPT ![r] = "killed"]
       \/ ~Gentle /\ KillOne(r)
    /\ UNCHANGED <<pc, ctx, written, pipe, readVars, exitVars, event, sink, gitVars, faults>>

\* SIGTERM, and SIGKILL after a grace time, to cmd.Process.Pid.
KillProcessTree(r) ==
    /\ killing[r] /\ KillOne(r)
    /\ UNCHANGED <<pc, ctx, written, pipe, readVars, exitVars, event, sink, gitVars, faults>>

DeadlinePasses(r) ==
    /\ HasDeadline(r) /\ ctx[r] = "live" /\ pc[r] \notin {"idle", "prepare"}
    /\ ctx' = [ctx EXCEPT ![r] = "deadline"]
    /\ UNCHANGED <<pc, childVars, readVars, exitVars, event, sink, gitVars, faults>>

\* The task ends elsewhere: it takes no more events and cancels its context.
TaskCanceled(r) ==
    /\ sink[r] /\ pc[r] \notin {"idle", "done"} /\ Fault
    /\ sink' = [sink EXCEPT ![r] = FALSE]
    /\ ctx' = [ctx EXCEPT ![r] = IF @ = "live" THEN "canceled" ELSE @]
    /\ UNCHANGED <<pc, childVars, readVars, exitVars, event, gitVars>>

-----------------------------------------------------------------------------
(* The goroutine that pumps lines into the channel (gentle-shell).         *)

Reading(r) == Gentle /\ scanner[r] = "reading"

ScannerSends(r) ==
    /\ Reading(r) /\ pipe[r] # <<>> /\ Head(pipe[r]) # "huge" /\ Len(lines[r]) < ChanCap
    /\ lines' = [lines EXCEPT ![r] = Append(@, Head(pipe[r]))]
    /\ pipe' = [pipe EXCEPT ![r] = Tail(@)]
    /\ UNCHANGED <<pc, ctx, child, written, scanner, scanErr, readErr, handled, tools, exitVars, event, sink, gitVars, faults>>

\* A line is too long, or the context ended while a line waits for room.
ScannerFails(r) ==
    /\ Reading(r) /\ pipe[r] # <<>> /\ (Head(pipe[r]) = "huge" \/ ctx[r] # "live")
    /\ scanErr' = [scanErr EXCEPT ![r] = IF Head(pipe[r]) = "huge" THEN "scan" ELSE "ctx"]
    /\ scanner' = [scanner EXCEPT ![r] = "failing"]
    /\ UNCHANGED <<pc, ctx, childVars, lines, readErr, handled, tools, exitVars, event, sink, gitVars, faults>>

\* The deferred close of the channel, after the end of the output or a failure.
ScannerCloses(r) ==
    /\ \/ Gentle /\ scanner[r] = "failing"
       \/ Reading(r) /\ pipe[r] = <<>> /\ ~PipeOpen(r)
    /\ scanner' = [scanner EXCEPT ![r] = "ended"]
    /\ UNCHANGED <<pc, ctx, childVars, lines, scanErr, readErr, handled, tools, exitVars, event, sink, gitVars, faults>>

-----------------------------------------------------------------------------
(* consume: one select per iteration, any ready case may be taken.         *)

ReadEnds(r, err) ==
    /\ readErr' = [readErr EXCEPT ![r] = err]
    /\ Goto(r, "classify")

\* Mutant: the count is compared before this call is counted.
HandleOverBudget(r, line) ==
    LET over == Gentle /\ line = "tool" /\ tools[r] > MaxToolCalls
    IN  /\ tools' = [tools EXCEPT ![r] = IF line = "tool" /\ ~over THEN @ + 1 ELSE @]
        /\ handled' = [handled EXCEPT ![r] = @ + 1]
        /\ \/ over /\ ReadEnds(r, "tools")
           \/ ~over /\ ~sink[r] /\ ReadEnds(r, "sink")
           \/ ~over /\ sink[r] /\ UNCHANGED <<pc, readErr>>
\* The tool call over the budget is not emitted.
Handle(r, line) ==
    LET over == Gentle /\ line = "tool" /\ tools[r] >= MaxToolCalls
    IN  /\ tools' = [tools EXCEPT ![r] = IF line = "tool" /\ ~over THEN @ + 1 ELSE @]
        /\ handled' = [handled EXCEPT ![r] = @ + 1]
        /\ \/ over /\ ReadEnds(r, "tools")
           \/ ~over /\ ~sink[r] /\ ReadEnds(r, "sink")
           \/ ~over /\ sink[r] /\ UNCHANGED <<pc, readErr>>

ConsumeLine(r) ==
    /\ At(r, "consume") /\ Gentle /\ lines[r] # <<>>
    /\ lines' = [lines EXCEPT ![r] = Tail(@)]
    /\ Handle(r, Head(lines[r]))
    /\ UNCHANGED <<ctx, childVars, scanner, scanErr, exitVars, event, sink, gitVars, faults>>

\* Mutant: the end of the output ends the loop with lines still in the channel.
ConsumeEndDropsLines(r) ==
    /\ At(r, "consume") /\ Gentle /\ scanner[r] = "ended"
    /\ ReadEnds(r, "none")
    /\ UNCHANGED <<ctx, childVars, scanner, lines, scanErr, handled, tools, exitVars, event, sink, gitVars, faults>>
\* The channel is closed and empty, whether or not an error waits as well.
ConsumeEnd(r) ==
    /\ At(r, "consume") /\ Gentle /\ lines[r] = <<>> /\ scanner[r] = "ended"
    /\ ReadEnds(r, "none")
    /\ UNCHANGED <<ctx, childVars, scanner, lines, scanErr, handled, tools, exitVars, event, sink, gitVars, faults>>

ConsumeFails(r) ==
    /\ At(r, "consume") /\ Gentle
    /\ \/ ctx[r] # "live" /\ ReadEnds(r, "ctx")
       \/ scanErr[r] # "none" /\ ReadEnds(r, scanErr[r])
       \/ lines[r] = <<>> /\ ReadEnds(r, "idle")
    /\ UNCHANGED <<ctx, childVars, scanner, lines, scanErr, handled, tools, exitVars, event, sink, gitVars, faults>>

\* piStream.consume scans in the goroutine of Run itself: a silent child keeps
\* it, and a pause is noticed only when the next line comes.
PiConsumes(r) ==
    /\ At(r, "consume") /\ ~Gentle /\ pipe[r] # <<>>
    /\ LET line == Head(pipe[r]) IN
       \/ /\ \/ line = "huge" /\ ReadEnds(r, "scan")
             \/ line # "huge" /\ ctx[r] # "live" /\ ReadEnds(r, "ctx")
             \/ line # "huge" /\ ctx[r] = "live" /\ ReadEnds(r, "idle")
          /\ UNCHANGED <<pipe, handled, tools>>
       \/ /\ line # "huge" /\ ctx[r] = "live"
          /\ pipe' = [pipe EXCEPT ![r] = Tail(@)]
          /\ Handle(r, line)
    /\ UNCHANGED <<ctx, child, written, scanner, lines, scanErr, exitVars, event, sink, gitVars, faults>>

PiReadsEOF(r) ==
    /\ At(r, "consume") /\ ~Gentle /\ pipe[r] = <<>> /\ ~PipeOpen(r)
    /\ ReadEnds(r, "none")
    /\ UNCHANGED <<ctx, childVars, scanner, lines, scanErr, handled, tools, exitVars, event, sink, gitVars, faults>>

-----------------------------------------------------------------------------
(* The end of a run.                                                       *)

ExitCause(r) ==
    CASE ctx[r] = "deadline" -> "TASK_TIMEOUT"
      [] ctx[r] = "live" /\ readErr[r] = "idle" -> "TASK_INACTIVITY_TIMEOUT"
      [] ctx[r] = "live" /\ readErr[r] = "tools" -> "ERR_MAX_TOOL_CALLS_EXCEEDED"
      [] OTHER -> "none"

\* classifyExit decides on the kill before Run waits for the child.
ClassifyExit(r) ==
    /\ At(r, "classify") /\ Gentle
    /\ cause' = [cause EXCEPT ![r] = ExitCause(r)]
    /\ killing' = [killing EXCEPT ![r] = ctx[r] # "live" \/ ExitCause(r) # "none"]
    /\ Goto(r, "wait")
    /\ UNCHANGED <<ctx, childVars, readVars, event, sink, gitVars, faults>>

\* The Pi runner cancels its own context after any error of the stream.
PiStops(r) ==
    /\ At(r, "classify") /\ ~Gentle
    /\ ctx' = [ctx EXCEPT ![r] = IF readErr[r] # "none" /\ @ = "live" THEN "stopped" ELSE @]
    /\ Goto(r, "wait")
    /\ UNCHANGED <<childVars, readVars, exitVars, event, sink, gitVars, faults>>

\* Wait closes the pipe; the reader keeps what it has in its buffer.
ClosePipe(r) ==
    \E k \in 0 .. Len(pipe[r]) : (k > 0 => Reading(r)) /\ pipe' = [pipe EXCEPT ![r] = SubSeq(@, 1, k)]

\* Mutant: Run does not wait for a child it has told to stop.
WaitNotForKilled(r) ==
    /\ At(r, "wait") /\ (~Alive(r) \/ killing[r])
    /\ ClosePipe(r) /\ Goto(r, "decide")
    /\ UNCHANGED <<ctx, child, written, readVars, exitVars, event, sink, gitVars, faults>>
\* cmd.Wait reaps the process it started.  Descendants that hold the output keep
\* it for WaitDelay only, which Pi's command does not set.
Wait(r) ==
    /\ At(r, "wait") /\ ~Alive(r) /\ (Gentle \/ child[r] # "orphaned")
    /\ ClosePipe(r) /\ Goto(r, "decide")
    /\ UNCHANGED <<ctx, child, written, readVars, exitVars, event, sink, gitVars, faults>>

\* A context that ended while Run waited is returned and not reported.
Decide(r) ==
    /\ At(r, "decide") /\ Gentle
    /\ \/ cause[r] # "none" /\ FailRun(r, cause[r])
       \/ cause[r] = "none" /\ ctx[r] # "live" /\ Return(r) /\ UNCHANGED <<event, sink>>
       \/ /\ cause[r] = "none" /\ ctx[r] = "live"
          /\ \/ readErr[r] # "none" /\ FailRun(r, "STREAM_ERROR")
             \/ readErr[r] = "none" /\ child[r] # "ok" /\ FailRun(r, "EXIT_ERROR")
             \/ readErr[r] = "none" /\ child[r] = "ok" /\ Goto(r, "collect") /\ UNCHANGED <<ctx, event, sink>>
    /\ UNCHANGED <<childVars, readVars, exitVars, gitVars, faults>>

\* A task that was canceled needs no event.
PiDecide(r) ==
    /\ At(r, "decide") /\ ~Gentle
    /\ \/ ctx[r] = "canceled" /\ Return(r) /\ UNCHANGED <<event, sink>>
       \/ ctx[r] = "deadline" /\ FailRun(r, "TASK_TIMEOUT")
       \/ ctx[r] \in {"live", "stopped"} /\ readErr[r] # "none" /\ FailRun(r, "STREAM_ERROR")
       \/ ctx[r] = "live" /\ readErr[r] = "none" /\ child[r] # "ok" /\ FailRun(r, "EXIT_ERROR")
       \/ ctx[r] = "live" /\ readErr[r] = "none" /\ child[r] = "ok" /\ FailRun(r, "completion")
    /\ UNCHANGED <<childVars, readVars, exitVars, gitVars, faults>>

\* collectDiff and verifyCommitProduced: the agent's word is not taken for it.
\* A directory that is half removed may not be a worktree any more.
Collect(r) ==
    /\ At(r, "collect")
    /\ \/ (IF tree = None THEN TRUE ELSE tree.left) /\ FailRun(r, "DIFF_ERROR")
       \/ /\ tree # None
          /\ FailRun(r, IF tree.commits /\ ~tree.dirty THEN "completion" ELSE "NO_COMMIT_PRODUCED")
    /\ UNCHANGED <<childVars, readVars, exitVars, gitVars, faults>>

\* Deferred before the worktree is made; the branch is kept.  An error of the
\* removal is ignored, and some files may be gone.
CleanupWorktree(r) ==
    /\ At(r, "cleanup")
    /\ \/ tree' = None /\ UNCHANGED faults
       \/ /\ tree # None /\ Fault
          /\ \E gone \in BOOLEAN : tree' = [tree EXCEPT !.left = TRUE, !.dirty = @ \/ gone]
    /\ Goto(r, "done")
    /\ UNCHANGED <<ctx, childVars, readVars, exitVars, event, sink, branch>>

-----------------------------------------------------------------------------

Init ==
    /\ kind \in {"gentle-shell", "pi"}
    /\ pc = [r \in Runs |-> "idle"] /\ ctx = [r \in Runs |-> "live"]
    /\ child = [r \in Runs |-> "none"] /\ written = [r \in Runs |-> 0]
    /\ pipe = [r \in Runs |-> <<>>] /\ scanner = [r \in Runs |-> "none"]
    /\ lines = [r \in Runs |-> <<>>] /\ scanErr = [r \in Runs |-> "none"]
    /\ readErr = [r \in Runs |-> "none"] /\ handled = [r \in Runs |-> 0]
    /\ tools = [r \in Runs |-> 0] /\ cause = [r \in Runs |-> "none"]
    /\ killing = [r \in Runs |-> FALSE] /\ event = [r \in Runs |-> "none"]
    /\ sink = [r \in Runs |-> TRUE] /\ tree = None /\ branch = FALSE /\ faults = 0

ConsumeStep(r) == ConsumeLine(r) \/ ConsumeEnd(r) \/ ConsumeFails(r) \/ PiConsumes(r) \/ PiReadsEOF(r)
ScanStep(r) == UNCHANGED kind /\ (ScannerSends(r) \/ ScannerFails(r) \/ ScannerCloses(r))
RunStep(r) == UNCHANGED kind /\
    (\/ WorktreeAdd(r) \/ WorktreeRefused(r) \/ StartChild(r) \/ StartFails(r) \/ ConsumeStep(r)
     \/ ClassifyExit(r) \/ PiStops(r) \/ Wait(r) \/ Decide(r) \/ PiDecide(r)
     \/ Collect(r) \/ CleanupWorktree(r))
SystemStep(r) == UNCHANGED kind /\ (ContextKills(r) \/ KillProcessTree(r) \/ DeadlinePasses(r))
ChildStep(r) == UNCHANGED kind /\ (ChildWorks(r) \/ ChildExits(r) \/ \E line \in LineKinds : ChildWrites(r, line))
CallerStep(r) == UNCHANGED kind /\ (Begin(r) \/ TaskCanceled(r))

Next == \E r \in Runs : RunStep(r) \/ ScanStep(r) \/ SystemStep(r) \/ ChildStep(r) \/ CallerStep(r)

Spec == Init /\ [][Next]_vars

\* The goroutines run, a signal reaches its process and the deadline comes.
\* Nothing is assumed of the child and its descendants.
Fairness == \A r \in Runs : WF_vars(RunStep(r)) /\ WF_vars(ScanStep(r)) /\ WF_vars(SystemStep(r))

FairSpec == Spec /\ Fairness

-----------------------------------------------------------------------------
(* Properties.                                                             *)

StreamErrors == {"none", "scan", "ctx", "idle", "tools", "sink"}
ExitCauses == {"none", "TASK_TIMEOUT", "TASK_INACTIVITY_TIMEOUT", "ERR_MAX_TOOL_CALLS_EXCEEDED"}
FinalEvents == ExitCauses \cup {"completion", "WORKTREE_ERROR", "START_ERROR", "STREAM_ERROR", "EXIT_ERROR",
                                "DIFF_ERROR", "NO_COMMIT_PRODUCED"}

\* Type invariant: buffers within their capacity, no tool call over the budget.
TypeOK ==
    /\ kind \in {"gentle-shell", "pi"}
    /\ pc \in [Runs -> {"idle", "prepare", "start", "consume", "classify", "wait", "decide", "collect", "cleanup", "done"}]
    /\ ctx \in [Runs -> {"live", "deadline", "canceled", "stopped"}]
    /\ child \in [Runs -> {"none", "alive", "orphaned", "ok", "bad", "killed"}]
    /\ written \in [Runs -> 0 .. MaxLines] /\ handled \in [Runs -> Nat] /\ tools \in [Runs -> Nat]
    /\ pipe \in [Runs -> Seq(LineKinds)] /\ lines \in [Runs -> Seq(LineKinds)]
    /\ \A r \in Runs : Len(pipe[r]) <= PipeCap /\ Len(lines[r]) <= ChanCap
    /\ \A r \in Runs : Gentle => tools[r] <= MaxToolCalls
    /\ scanner \in [Runs -> {"none", "reading", "failing", "ended"}]
    /\ scanErr \in [Runs -> {"none", "scan", "ctx"}] /\ readErr \in [Runs -> StreamErrors]
    /\ cause \in [Runs -> ExitCauses] /\ killing \in [Runs -> BOOLEAN]
    /\ event \in [Runs -> FinalEvents] /\ sink \in [Runs -> BOOLEAN]
    /\ tree \in {None} \cup Worktrees
    /\ branch \in BOOLEAN /\ faults \in 0 .. MaxFaults

\* A task is completed with everything its agent said, however the end of the
\* output, the timers and the kill race.  The exception is what the code has: the
\* error of an oversized line competes with the closed channel and may be missed.
CompletionWhole ==
    \A r \in Runs : event[r] = "completion" => handled[r] = written[r] \/ scanErr[r] = "scan"

Working == {"start", "consume", "classify", "wait", "decide", "collect"}

\* gentleshell.go:617: a delivery is refused a directory that exists "so two
\* concurrent tasks do not stomp on each other".  Whoever works has the worktree to
\* itself, until the deferred cleanup of a refused delivery removes it.
WorktreeKept ==
    \A r \in Runs : Gentle /\ pc[r] \in Working
        => \/ tree # None /\ tree.of = r
           \/ \E u \in Runs \ {r} : At(u, "done") /\ child[u] = "none"

\* A run that has returned has reaped its child, and descendants outlive it only
\* where killProcessTree was called, which signals one process; when no run is
\* under way a worktree is left only by a removal that failed, and none is removed
\* too early but by a refused delivery.
NothingLeftBehind ==
    /\ \A r \in Runs : At(r, "done") => ~Alive(r) /\ (child[r] = "orphaned" => killing[r])
    /\ (\A r \in Runs : pc[r] \in {"idle", "done"}) /\ tree # None => tree.left
    /\ WorktreeKept

\* Every started run with a deadline ends although its child is silent, floods its
\* output or ignores the limit, and so does the goroutine that reads for it.  The
\* exception is a Pi run whose killed process has descendants that hold its output.
RunEnds ==
    <>[](\A r \in Runs : HasDeadline(r) /\ ~At(r, "idle")
            => \/ At(r, "done") /\ scanner[r] \notin {"reading", "failing"}
               \/ ~Gentle /\ child[r] = "orphaned")
=============================================================================
