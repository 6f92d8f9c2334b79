------------------------ MODULE ProcessRunnerProofs ------------------------
(***************************************************************************)
(* Theorems about ProcessRunner, for any runs, limits, buffers, outputs of *)
(* the child and failures.                                                 *)
(***************************************************************************)
EXTENDS ProcessRunner, SequenceTheorems, TLAPS

-----------------------------------------------------------------------------
(* The inductive invariant, run by run.                                    *)

Early == {"idle", "prepare", "start"}
Late == {"cleanup", "done"}

\* A child lives only between its start and the end of Wait; its descendants
\* outlive it where only one process was signaled.
Lives(r) ==
    /\ child[r] = "alive" => pc[r] \in {"consume", "classify", "wait"}
    /\ child[r] = "orphaned" =>
           IF kind = "gentle-shell" THEN killing[r] ELSE pc[r] \in {"consume", "classify", "wait"}
    /\ killing[r] => pc[r] \in {"wait", "decide", "collect"} \cup Late

\* The scanning goroutine ends at the end of the output or leaves its error
\* behind, and it is the context's only if that is over.
Scans(r) ==
    /\ scanErr[r] = "none" \/ scanner[r] \in {"failing", "ended"}
    /\ scanner[r] = "failing" => scanErr[r] # "none"
    /\ scanErr[r] = "ctx" => ctx[r] # "live"
    /\ scanner[r] = "ended" /\ scanErr[r] = "none" => pipe[r] = <<>> /\ ~PipeOpen(r)
    /\ kind = "pi" => scanner[r] = "none" /\ lines[r] = <<>>
    /\ pc[r] \in Early => scanner[r] = "none"

\* Until consume returns, every line is handled, in the channel or in the pipe.
Counts(r) == pc[r] \in Early \cup {"consume"} => written[r] = handled[r] + Len(lines[r]) + Len(pipe[r])

\* What is known of the lines once consume has returned.
Whole(r) == handled[r] = written[r] \/ scanErr[r] = "scan"
Read(r) ==
    /\ pc[r] \in {"classify", "wait", "decide"} /\ readErr[r] = "none" =>
           \/ handled[r] = written[r] /\ ~PipeOpen(r)
           \/ scanErr[r] # "none"
    /\ pc[r] = "collect" => Whole(r)
    /\ event[r] = "completion" => pc[r] \in Late /\ Whole(r)

\* The directory is that of a run that has yet to clean up, or was left by one
\* that could not.
Treed ==
    /\ tree # None => kind = "gentle-shell" /\ (tree.left \/ pc[tree.of] \notin {"idle", "prepare", "done"})
    /\ \A r \in Runs : pc[r] = "prepare" => kind = "gentle-shell"

RunnerInv ==
    /\ TypeOK /\ Treed
    /\ \A r \in Runs : Lives(r) /\ Scans(r) /\ Counts(r) /\ Read(r)

-----------------------------------------------------------------------------
(* A step is the step of one run.                                          *)

Same(u) ==
    /\ pc'[u] = pc[u] /\ ctx'[u] = ctx[u] /\ child'[u] = child[u] /\ written'[u] = written[u] /\ pipe'[u] = pipe[u]
    /\ scanner'[u] = scanner[u] /\ lines'[u] = lines[u] /\ scanErr'[u] = scanErr[u] /\ readErr'[u] = readErr[u]
    /\ handled'[u] = handled[u] /\ event'[u] = event[u] /\ killing'[u] = killing[u]

Step(r) == RunStep(r) \/ ScanStep(r) \/ SystemStep(r) \/ ChildStep(r) \/ CallerStep(r)

LEMMA OthersSame ==
    ASSUME TypeOK, NEW r \in Runs, Step(r), NEW u \in Runs, u # r
    PROVE  Same(u) /\ kind' = kind
<1> USE DEF TypeOK, Same
<1>0. kind' = kind
  BY DEF Step, RunStep, ScanStep, SystemStep, ChildStep, CallerStep
<1>1. CASE WorktreeAdd(r) \/ WorktreeRefused(r) \/ StartChild(r) \/ StartFails(r)
  BY <1>0, <1>1 DEF WorktreeAdd, WorktreeRefused, StartChild, StartFails, FailRun, EmitFinal, Return, Goto, childVars, readVars, exitVars
<1>2. CASE ConsumeLine(r) \/ ConsumeEnd(r) \/ ConsumeFails(r)
  BY <1>0, <1>2 DEF ConsumeLine, ConsumeEnd, ConsumeFails, Handle, ReadEnds, Goto, childVars, exitVars
<1>3. CASE PiConsumes(r)
  <2>1. /\ UNCHANGED <<ctx, child, written, scanner, lines, scanErr, event, killing>>
        /\ pipe' = pipe \/ pipe' = [pipe EXCEPT ![r] = Tail(@)]
    BY <1>3 DEF PiConsumes, exitVars
  <2>2. handled' = handled \/ handled' = [handled EXCEPT ![r] = @ + 1]
    BY <1>3 DEF PiConsumes, Handle
  <2>3. /\ pc' = pc \/ pc' = [pc EXCEPT ![r] = "classify"]
        /\ readErr' = readErr \/ \E err : readErr' = [readErr EXCEPT ![r] = err]
    BY <1>3 DEF PiConsumes, Handle, ReadEnds, Goto
  <2>4. pipe'[u] = pipe[u] /\ handled'[u] = handled[u]
    BY <2>1, <2>2
  <2>5. pc'[u] = pc[u] /\ readErr'[u] = readErr[u]
    BY <2>3
  <2> QED BY <1>0, <2>1, <2>4, <2>5
<1>11. CASE PiReadsEOF(r)
  BY <1>0, <1>11 DEF PiReadsEOF, ReadEnds, Goto, childVars, exitVars
<1>4. CASE ClassifyExit(r) \/ PiStops(r) \/ Wait(r)
  BY <1>0, <1>4 DEF ClassifyExit, PiStops, Wait, ClosePipe, Goto, childVars, readVars, exitVars
<1>5. CASE Decide(r) \/ PiDecide(r)
  BY <1>0, <1>5 DEF Decide, PiDecide, FailRun, EmitFinal, Return, Goto, childVars, readVars, exitVars
<1>10. CASE Collect(r)
  BY <1>0, <1>10, SMTT(30) DEF Collect, FailRun, EmitFinal, Return, Goto, childVars, readVars, exitVars
<1>12. CASE CleanupWorktree(r)
  BY <1>0, <1>12 DEF CleanupWorktree, Goto, childVars, readVars, exitVars
<1>6. CASE ScannerSends(r) \/ ScannerFails(r) \/ ScannerCloses(r)
  BY <1>0, <1>6 DEF ScannerSends, ScannerFails, ScannerCloses, childVars, exitVars
<1>7. CASE ContextKills(r) \/ KillProcessTree(r) \/ DeadlinePasses(r) \/ ChildWorks(r) \/ ChildExits(r)
  BY <1>0, <1>7 DEF ContextKills, KillProcessTree, KillOne, DeadlinePasses, ChildWorks, ChildExits, childVars, readVars, exitVars
<1>8. ASSUME NEW line \in LineKinds, ChildWrites(r, line) PROVE Same(u)
  BY <1>0, <1>8 DEF ChildWrites, readVars, exitVars
<1>9. CASE Begin(r) \/ TaskCanceled(r)
  BY <1>0, <1>9 DEF Begin, TaskCanceled, Goto, childVars, readVars, exitVars
<1> QED BY <1>0, <1>1, <1>2, <1>3, <1>4, <1>5, <1>6, <1>7, <1>8, <1>9, <1>10, <1>11, <1>12
        DEF Step, RunStep, ConsumeStep, ScanStep, SystemStep, ChildStep, CallerStep

-----------------------------------------------------------------------------
(* Types.                                                                  *)

PCs == {"idle", "prepare", "start", "consume", "classify", "wait", "decide", "collect", "cleanup", "done"}

ControlTypes ==
    /\ kind \in {"gentle-shell", "pi"}
    /\ pc \in [Runs -> PCs]
    /\ ctx \in [Runs -> {"live", "deadline", "canceled", "stopped"}]
    /\ child \in [Runs -> {"none", "alive", "orphaned", "ok", "bad", "killed"}]
    /\ scanner \in [Runs -> {"none", "reading", "failing", "ended"}]
    /\ scanErr \in [Runs -> {"none", "scan", "ctx"}] /\ readErr \in [Runs -> StreamErrors]
    /\ cause \in [Runs -> ExitCauses] /\ event \in [Runs -> FinalEvents]

FlagTypes ==
    /\ killing \in [Runs -> BOOLEAN] /\ sink \in [Runs -> BOOLEAN]
    /\ tree \in {None} \cup Worktrees
    /\ branch \in BOOLEAN /\ faults \in 0 .. MaxFaults

BufferTypes ==
    /\ written \in [Runs -> 0 .. MaxLines] /\ handled \in [Runs -> Nat] /\ tools \in [Runs -> Nat]
    /\ pipe \in [Runs -> Seq(LineKinds)] /\ lines \in [Runs -> Seq(LineKinds)]
    /\ \A r \in Runs : Len(pipe[r]) <= PipeCap /\ Len(lines[r]) <= ChanCap
    /\ \A r \in Runs : Gentle => tools[r] <= MaxToolCalls

LEMMA TypeParts == TypeOK <=> ControlTypes /\ FlagTypes /\ BufferTypes
  BY DEF TypeOK, ControlTypes, FlagTypes, BufferTypes, PCs

LEMMA ControlStep ==
    ASSUME ControlTypes, NEW r \in Runs, Step(r)
    PROVE  ControlTypes'
<1> USE DEF ControlTypes, PCs
<1>0. kind' = kind
  BY DEF Step, RunStep, ScanStep, SystemStep, ChildStep, CallerStep
<1>1. \A x \in FinalEvents : IF sink[r] THEN x \in FinalEvents ELSE event[r] \in FinalEvents
  OBVIOUS
<1>2. ASSUME NEW x \in FinalEvents, FailRun(r, x), UNCHANGED <<child, scanner, scanErr, readErr, cause>> PROVE ControlTypes'
  BY <1>0, <1>2 DEF FailRun, EmitFinal, Return, Goto
<1>3. CASE WorktreeAdd(r) \/ StartChild(r)
  BY <1>0, <1>3 DEF WorktreeAdd, StartChild, Goto, childVars, readVars, exitVars
<1>4. CASE WorktreeRefused(r)
  <2>1. "WORKTREE_ERROR" \in FinalEvents
    BY DEF FinalEvents
  <2> QED BY <1>2, <1>4, <2>1 DEF WorktreeRefused, childVars, readVars, exitVars
<1>5. CASE StartFails(r)
  <2>1. "START_ERROR" \in FinalEvents
    BY DEF FinalEvents
  <2> QED BY <1>2, <1>5, <2>1 DEF StartFails, childVars, readVars, exitVars
<1>6. ASSUME NEW e \in StreamErrors, ReadEnds(r, e), UNCHANGED <<ctx, child, scanner, scanErr, cause, event>> PROVE ControlTypes'
  BY <1>0, <1>6 DEF ReadEnds, Goto
<1>7. {"none", "scan", "ctx", "idle", "tools", "sink"} \subseteq StreamErrors
  BY DEF StreamErrors
<1>23. ASSUME NEW line, Handle(r, line), UNCHANGED <<ctx, child, scanner, scanErr, cause, event>> PROVE ControlTypes'
  <2>1. ReadEnds(r, "tools") \/ ReadEnds(r, "sink") \/ UNCHANGED <<pc, readErr>>
    BY <1>23 DEF Handle
  <2>2. CASE UNCHANGED <<pc, readErr>>
    BY <1>0, <1>23, <2>2
  <2> QED BY <1>6, <1>7, <1>23, <2>1, <2>2
<1>8. CASE ConsumeLine(r)
  BY <1>23, <1>8 DEF ConsumeLine, childVars, exitVars
<1>9. CASE ConsumeEnd(r) \/ PiReadsEOF(r)
  BY <1>6, <1>7, <1>9 DEF ConsumeEnd, PiReadsEOF, childVars, exitVars
<1>10. CASE ConsumeFails(r)
  <2>1. \E e \in StreamErrors : ReadEnds(r, e)
    BY <1>7, <1>10 DEF ConsumeFails
  <2> QED BY <1>6, <1>10, <2>1 DEF ConsumeFails, childVars, exitVars
<1>11. CASE PiConsumes(r)
  <2>1. (\E e \in StreamErrors : ReadEnds(r, e)) \/ \E line : Handle(r, line)
    BY <1>7, <1>11 DEF PiConsumes
  <2> QED BY <1>6, <1>23, <1>11, <2>1 DEF PiConsumes, exitVars
<1>12. ExitCause(r) \in ExitCauses
  BY DEF ExitCause, ExitCauses
<1>13. CASE ClassifyExit(r)
  BY <1>0, <1>12, <1>13 DEF ClassifyExit, Goto, childVars, readVars
<1>14. CASE PiStops(r) \/ Wait(r)
  BY <1>0, <1>14 DEF PiStops, Wait, Goto, childVars, readVars, exitVars
<1>15. CASE Decide(r)
  <2>1. UNCHANGED <<child, scanner, scanErr, readErr, cause>>
    BY <1>15 DEF Decide, childVars, readVars, exitVars
  <2>2. \/ \E x \in FinalEvents : FailRun(r, x)
        \/ Return(r) /\ UNCHANGED event
        \/ Goto(r, "collect") /\ UNCHANGED <<ctx, event>>
    <3>1. cause[r] \in FinalEvents /\ "STREAM_ERROR" \in FinalEvents /\ "EXIT_ERROR" \in FinalEvents
      BY DEF FinalEvents
    <3> QED BY <1>15, <3>1 DEF Decide
  <2> QED BY <1>0, <1>2, <2>1, <2>2 DEF Return, Goto
<1>16. CASE PiDecide(r)
  <2>1. UNCHANGED <<child, scanner, scanErr, readErr, cause>>
    BY <1>16 DEF PiDecide, childVars, readVars, exitVars
  <2>2. \/ \E x \in FinalEvents : FailRun(r, x)
        \/ Return(r) /\ UNCHANGED event
    <3>1. {"STREAM_ERROR", "EXIT_ERROR", "TASK_TIMEOUT", "completion"} \subseteq FinalEvents
      BY DEF FinalEvents, ExitCauses
    <3> QED BY <1>16, <3>1 DEF PiDecide
  <2> QED BY <1>0, <1>2, <2>1, <2>2 DEF Return, Goto
<1>17. CASE Collect(r)
  <2>1. {"DIFF_ERROR", "NO_COMMIT_PRODUCED", "completion"} \subseteq FinalEvents
    BY DEF FinalEvents
  <2>2. \E x \in FinalEvents : FailRun(r, x)
    BY <1>17, <2>1 DEF Collect
  <2> QED BY <1>2, <1>17, <2>2 DEF Collect, childVars, readVars, exitVars
<1>18. CASE CleanupWorktree(r)
  BY <1>0, <1>18 DEF CleanupWorktree, Goto, childVars, readVars, exitVars
<1>19. CASE ScannerSends(r) \/ ScannerFails(r) \/ ScannerCloses(r)
  BY <1>0, <1>19 DEF ScannerSends, ScannerFails, ScannerCloses, childVars, exitVars
<1>20. CASE ContextKills(r) \/ KillProcessTree(r) \/ DeadlinePasses(r) \/ ChildWorks(r) \/ ChildExits(r)
  BY <1>0, <1>20 DEF ContextKills, KillProcessTree, KillOne, DeadlinePasses, ChildWorks, ChildExits, childVars, readVars, exitVars
<1>21. ASSUME NEW line \in LineKinds, ChildWrites(r, line) PROVE ControlTypes'
  BY <1>0, <1>21 DEF ChildWrites, readVars, exitVars
<1>22. CASE Begin(r) \/ TaskCanceled(r)
  BY <1>0, <1>22 DEF Begin, TaskCanceled, Goto, childVars, readVars, exitVars
<1> QED BY <1>3, <1>4, <1>5, <1>8, <1>9, <1>10, <1>11, <1>13, <1>14, <1>15, <1>16, <1>17, <1>18, <1>19, <1>20, <1>21, <1>22
        DEF Step, RunStep, ConsumeStep, ScanStep, SystemStep, ChildStep, CallerStep

LEMMA FlagStep ==
    ASSUME FlagTypes, NEW r \in Runs, Step(r)
    PROVE  FlagTypes'
<1>1. faults' \in 0 .. MaxFaults
  <2>1. faults' = faults \/ Fault
    <3>1. CASE RunStep(r)
      BY <3>1 DEF RunStep, WorktreeAdd, WorktreeRefused, StartChild, StartFails, ConsumeStep, ConsumeLine, ConsumeEnd, ConsumeFails,
           PiConsumes, PiReadsEOF, ClassifyExit, PiStops, Wait, Decide, PiDecide, Collect, CleanupWorktree
    <3>2. CASE ScanStep(r) \/ SystemStep(r) \/ ChildStep(r) \/ CallerStep(r)
      BY <3>2 DEF ScanStep, SystemStep, ChildStep, CallerStep, ScannerSends, ScannerFails, ScannerCloses, ContextKills, KillProcessTree, DeadlinePasses,
           ChildWorks, ChildExits, ChildWrites, Begin, TaskCanceled
    <3> QED BY <3>1, <3>2 DEF Step
  <2> QED BY <2>1, RunnerAssumption DEF Fault, FlagTypes
<1>2. UNCHANGED sink \/ sink' = [sink EXCEPT ![r] = FALSE]
  <2>1. CASE RunStep(r)
    BY <2>1 DEF RunStep, WorktreeAdd, WorktreeRefused, StartChild, StartFails, ConsumeStep, ConsumeLine, ConsumeEnd, ConsumeFails,
         PiConsumes, PiReadsEOF, ClassifyExit, PiStops, Wait, Decide, PiDecide, Collect, CleanupWorktree, FailRun, EmitFinal
  <2>2. CASE ScanStep(r) \/ SystemStep(r) \/ ChildStep(r) \/ CallerStep(r)
    BY <2>2 DEF ScanStep, SystemStep, ChildStep, CallerStep, ScannerSends, ScannerFails, ScannerCloses, ContextKills, KillProcessTree, DeadlinePasses,
         ChildWorks, ChildExits, ChildWrites, Begin, TaskCanceled
  <2> QED BY <2>1, <2>2 DEF Step
<1>3. UNCHANGED killing \/ \E b \in BOOLEAN : killing' = [killing EXCEPT ![r] = b]
  <2>1. CASE ClassifyExit(r)
    <3>1. (ctx[r] # "live" \/ ExitCause(r) # "none") \in BOOLEAN
      OBVIOUS
    <3> QED BY <2>1, <3>1 DEF ClassifyExit
  <2>2. CASE RunStep(r) /\ ~ClassifyExit(r)
    BY <2>2 DEF RunStep, WorktreeAdd, WorktreeRefused, StartChild, StartFails, ConsumeStep, ConsumeLine, ConsumeEnd, ConsumeFails,
         PiConsumes, PiReadsEOF, PiStops, Wait, Decide, PiDecide, Collect, CleanupWorktree, exitVars
  <2>3. CASE ScanStep(r) \/ SystemStep(r) \/ ChildStep(r) \/ CallerStep(r)
    BY <2>3 DEF ScanStep, SystemStep, ChildStep, CallerStep, ScannerSends, ScannerFails, ScannerCloses, ContextKills, KillProcessTree, DeadlinePasses,
         ChildWorks, ChildExits, ChildWrites, Begin, TaskCanceled, exitVars
  <2> QED BY <2>1, <2>2, <2>3 DEF Step
<1>4. tree' \in {None} \cup Worktrees /\ branch' \in BOOLEAN
  <2>0. tree \in {None} \cup Worktrees /\ branch \in BOOLEAN
    BY DEF FlagTypes
  <2>1. CASE WorktreeAdd(r)
    BY <2>1 DEF WorktreeAdd, Worktrees
  <2>2. CASE ChildWorks(r)
    <3>1. tree \in Worktrees /\ branch' = branch
      BY <2>0, <2>2 DEF ChildWorks
    <3> QED BY <2>0, <2>2, <3>1 DEF ChildWorks, Worktrees
  <2>3. CASE CleanupWorktree(r)
    <3>1. CASE tree' = None
      BY <2>0, <2>3, <3>1 DEF CleanupWorktree
    <3>2. ASSUME tree # None, NEW gone \in BOOLEAN, tree' = [tree EXCEPT !.left = TRUE, !.dirty = tree.dirty \/ gone]
          PROVE  tree' \in Worktrees
      <4>1. tree \in Worktrees /\ (tree.dirty \/ gone) \in BOOLEAN
        BY <2>0, <3>2 DEF Worktrees
      <4> QED BY <3>2, <4>1 DEF Worktrees
    <3> QED BY <2>0, <2>3, <3>1, <3>2 DEF CleanupWorktree
  <2>4. CASE RunStep(r) /\ ~WorktreeAdd(r) /\ ~CleanupWorktree(r)
    BY <2>0, <2>4 DEF RunStep, WorktreeRefused, StartChild, StartFails, ConsumeStep, ConsumeLine, ConsumeEnd, ConsumeFails,
         PiConsumes, PiReadsEOF, ClassifyExit, PiStops, Wait, Decide, PiDecide, Collect, gitVars
  <2>5. CASE (ScanStep(r) \/ SystemStep(r) \/ ChildStep(r) \/ CallerStep(r)) /\ ~ChildWorks(r)
    BY <2>0, <2>5 DEF ScanStep, SystemStep, ChildStep, CallerStep, ScannerSends, ScannerFails, ScannerCloses, ContextKills, KillProcessTree, DeadlinePasses,
         ChildExits, ChildWrites, Begin, TaskCanceled, gitVars
  <2> QED BY <2>1, <2>2, <2>3, <2>4, <2>5 DEF Step
<1> QED BY <1>1, <1>2, <1>3, <1>4 DEF FlagTypes

\* The lines are moved by five actions only.
LEMMA BufferWriters ==
    ASSUME NEW r \in Runs, Step(r), ~ConsumeLine(r), ~PiConsumes(r), ~Wait(r), ~ScannerSends(r),
           \A line \in LineKinds : ~ChildWrites(r, line)
    PROVE  UNCHANGED <<written, handled, tools, pipe, lines>>
<1>1. CASE RunStep(r)
  BY <1>1 DEF RunStep, WorktreeAdd, WorktreeRefused, StartChild, StartFails, ConsumeStep, ConsumeEnd, ConsumeFails,
       PiReadsEOF, ClassifyExit, PiStops, Decide, PiDecide, Collect, CleanupWorktree, childVars, readVars
<1>2. CASE ScanStep(r) \/ SystemStep(r) \/ ChildStep(r) \/ CallerStep(r)
  BY <1>2 DEF ScanStep, SystemStep, ChildStep, CallerStep, ScannerFails, ScannerCloses, ContextKills, KillProcessTree, DeadlinePasses,
       ChildWorks, ChildExits, Begin, TaskCanceled, childVars, readVars
<1> QED BY <1>1, <1>2 DEF Step

\* Taking the first of some lines, and putting one behind them.
LEMMA LineMoves ==
    ASSUME NEW s \in Seq(LineKinds)
    PROVE  /\ Len(s) \in Nat
           /\ s # <<>> => /\ Head(s) \in LineKinds /\ Tail(s) \in Seq(LineKinds)
                          /\ Len(Tail(s)) = Len(s) - 1 /\ Len(s) >= 1
           /\ \A x \in LineKinds : Append(s, x) \in Seq(LineKinds) /\ Len(Append(s, x)) = Len(s) + 1
  OBVIOUS

LEMMA HandleCounts ==
    ASSUME BufferTypes, NEW r \in Runs, NEW line, Handle(r, line), kind' = kind
    PROVE  /\ handled' = [handled EXCEPT ![r] = handled[r] + 1] /\ handled' \in [Runs -> Nat]
           /\ tools' \in [Runs -> Nat] /\ \A u \in Runs : Gentle' => tools'[u] <= MaxToolCalls
<1>1. handled' = [handled EXCEPT ![r] = handled[r] + 1]
  BY DEF Handle
<1>2. \/ tools' = [tools EXCEPT ![r] = tools[r] + 1] /\ (Gentle => ~(tools[r] >= MaxToolCalls))
      \/ tools' = [tools EXCEPT ![r] = tools[r]]
  BY DEF Handle
<1>3. handled \in [Runs -> Nat] /\ tools \in [Runs -> Nat] /\ MaxToolCalls \in Nat
      /\ \A u \in Runs : Gentle => tools[u] <= MaxToolCalls
  BY RunnerAssumption DEF BufferTypes
<1>4. handled' \in [Runs -> Nat] /\ tools' \in [Runs -> Nat]
  BY <1>1, <1>2, <1>3
<1>5. Gentle' <=> Gentle
  BY DEF Gentle
<1>6. ASSUME Gentle, NEW u \in Runs PROVE tools'[u] <= MaxToolCalls
  <2>1. tools[u] \in Nat /\ tools[u] <= MaxToolCalls /\ tools[r] <= MaxToolCalls /\ tools[r] \in Nat
    BY <1>3, <1>6
  <2> QED BY <1>2, <1>3, <1>6, <2>1
<1> QED BY <1>1, <1>4, <1>5, <1>6

LEMMA BufferStep ==
    ASSUME BufferTypes, NEW r \in Runs, Step(r)
    PROVE  BufferTypes'
<1>0. kind' = kind /\ (Gentle' <=> Gentle)
  BY DEF Step, RunStep, ScanStep, SystemStep, ChildStep, CallerStep, Gentle
<1>1. /\ written \in [Runs -> 0 .. MaxLines] /\ handled \in [Runs -> Nat] /\ tools \in [Runs -> Nat]
      /\ pipe \in [Runs -> Seq(LineKinds)] /\ lines \in [Runs -> Seq(LineKinds)]
      /\ \A u \in Runs : Len(pipe[u]) <= PipeCap /\ Len(lines[u]) <= ChanCap
      /\ PipeCap \in Nat /\ ChanCap \in Nat /\ MaxLines \in Nat
  BY RunnerAssumption DEF BufferTypes
<1>2. CASE UNCHANGED <<written, handled, tools, pipe, lines>>
  BY <1>0, <1>2 DEF BufferTypes
<1>3. ASSUME UNCHANGED <<written, handled, tools>>, pipe' \in [Runs -> Seq(LineKinds)], lines' \in [Runs -> Seq(LineKinds)],
             \A u \in Runs : Len(pipe'[u]) <= PipeCap /\ Len(lines'[u]) <= ChanCap
      PROVE  BufferTypes'
  BY <1>0, <1>3 DEF BufferTypes
<1>4. CASE Wait(r)
  <2>1. PICK k \in 0 .. Len(pipe[r]) : pipe' = [pipe EXCEPT ![r] = SubSeq(pipe[r], 1, k)]
    BY <1>4 DEF Wait, ClosePipe
  <2>2. UNCHANGED <<written, handled, tools, lines>>
    BY <1>4 DEF Wait, readVars
  <2>3. SubSeq(pipe[r], 1, k) \in Seq(LineKinds) /\ Len(SubSeq(pipe[r], 1, k)) <= PipeCap
    <3>1. pipe[r] \in Seq(LineKinds) /\ Len(pipe[r]) \in Nat /\ Len(pipe[r]) <= PipeCap
      BY <1>1, LineMoves
    <3>2. SubSeq(pipe[r], 1, k) \in Seq(LineKinds) /\ Len(SubSeq(pipe[r], 1, k)) = k
      BY <3>1
    <3> QED BY <1>1, <3>1, <3>2
  <2> QED BY <1>1, <1>3, <2>1, <2>2, <2>3
<1>5. CASE ScannerSends(r)
  <2>1. /\ UNCHANGED <<written, handled, tools>> /\ pipe[r] # <<>> /\ Len(lines[r]) < ChanCap
        /\ lines' = [lines EXCEPT ![r] = Append(lines[r], Head(pipe[r]))]
        /\ pipe' = [pipe EXCEPT ![r] = Tail(pipe[r])]
    BY <1>5 DEF ScannerSends
  <2>2. /\ Append(lines[r], Head(pipe[r])) \in Seq(LineKinds) /\ Len(Append(lines[r], Head(pipe[r]))) <= ChanCap
        /\ Tail(pipe[r]) \in Seq(LineKinds) /\ Len(Tail(pipe[r])) <= PipeCap
    <3>1. Head(pipe[r]) \in LineKinds /\ Len(Tail(pipe[r])) = Len(pipe[r]) - 1 /\ Tail(pipe[r]) \in Seq(LineKinds)
          /\ Len(pipe[r]) \in Nat /\ Len(lines[r]) \in Nat
      BY <1>1, <2>1, LineMoves
    <3>2. Append(lines[r], Head(pipe[r])) \in Seq(LineKinds) /\ Len(Append(lines[r], Head(pipe[r]))) = Len(lines[r]) + 1
      BY <1>1, <3>1, LineMoves
    <3> QED BY <1>1, <2>1, <3>1, <3>2
  <2> QED BY <1>1, <1>3, <2>1, <2>2
<1>6. ASSUME NEW line \in LineKinds, ChildWrites(r, line) PROVE BufferTypes'
  <2>1. /\ UNCHANGED <<lines, handled, tools>> /\ Len(pipe[r]) < PipeCap /\ written[r] < MaxLines
        /\ pipe' = [pipe EXCEPT ![r] = Append(pipe[r], line)]
        /\ written' = [written EXCEPT ![r] = written[r] + 1]
    BY <1>6 DEF ChildWrites, readVars
  <2>2. Append(pipe[r], line) \in Seq(LineKinds) /\ Len(Append(pipe[r], line)) = Len(pipe[r]) + 1 /\ Len(pipe[r]) \in Nat
    BY <1>1, <1>6, LineMoves
  <2>3. written' \in [Runs -> 0 .. MaxLines]
    BY <1>1, <2>1
  <2>4. pipe' \in [Runs -> Seq(LineKinds)] /\ \A u \in Runs : Len(pipe'[u]) <= PipeCap
    BY <1>1, <2>1, <2>2, SMTT(30)
  <2> QED BY <1>0, <1>1, <2>1, <2>3, <2>4 DEF BufferTypes
<1>7. CASE ConsumeLine(r)
  <2>1. /\ UNCHANGED <<written, pipe>> /\ lines[r] # <<>> /\ lines' = [lines EXCEPT ![r] = Tail(lines[r])]
        /\ Handle(r, Head(lines[r]))
    BY <1>7 DEF ConsumeLine, childVars
  <2>2. Tail(lines[r]) \in Seq(LineKinds) /\ Len(Tail(lines[r])) = Len(lines[r]) - 1 /\ Len(lines[r]) \in Nat
    BY <1>1, <2>1, LineMoves
  <2>3. lines' \in [Runs -> Seq(LineKinds)] /\ \A u \in Runs : Len(lines'[u]) <= ChanCap
    BY <1>1, <2>1, <2>2
  <2>4. handled' \in [Runs -> Nat] /\ tools' \in [Runs -> Nat] /\ \A u \in Runs : Gentle' => tools'[u] <= MaxToolCalls
    BY <1>0, <2>1, HandleCounts
  <2> QED BY <1>1, <2>1, <2>3, <2>4 DEF BufferTypes
<1>8. CASE PiConsumes(r)
  <2>1. UNCHANGED <<written, lines>>
    BY <1>8 DEF PiConsumes
  <2>2. CASE UNCHANGED <<pipe, handled, tools>>
    BY <1>2, <2>1, <2>2
  <2>3. CASE pipe[r] # <<>> /\ pipe' = [pipe EXCEPT ![r] = Tail(pipe[r])] /\ Handle(r, Head(pipe[r]))
    <3>1. Tail(pipe[r]) \in Seq(LineKinds) /\ Len(Tail(pipe[r])) = Len(pipe[r]) - 1 /\ Len(pipe[r]) \in Nat
      BY <1>1, <2>3, LineMoves
    <3>2. pipe' \in [Runs -> Seq(LineKinds)] /\ \A u \in Runs : Len(pipe'[u]) <= PipeCap
      BY <1>1, <2>3, <3>1
    <3>3. handled' \in [Runs -> Nat] /\ tools' \in [Runs -> Nat] /\ \A u \in Runs : Gentle' => tools'[u] <= MaxToolCalls
      BY <1>0, <2>3, HandleCounts
    <3> QED BY <1>1, <2>1, <3>2, <3>3 DEF BufferTypes
  <2> QED BY <1>8, <2>2, <2>3 DEF PiConsumes
<1> QED BY <1>2, <1>4, <1>5, <1>6, <1>7, <1>8, BufferWriters

LEMMA TypeStep == ASSUME TypeOK, [Next]_vars PROVE TypeOK'
<1>1. ASSUME NEW r \in Runs, Step(r) PROVE TypeOK'
  BY <1>1, TypeParts, ControlStep, FlagStep, BufferStep DEF TypeOK, ControlTypes, FlagTypes, BufferTypes, PCs
<1>2. CASE UNCHANGED vars
  BY <1>2 DEF TypeOK, vars, childVars, readVars, exitVars, gitVars, Gentle
<1> QED BY <1>1, <1>2 DEF Next, Step

-----------------------------------------------------------------------------
(* The other parts of the invariant.                                       *)

\* How a step moves the run it is of.
LEMMA PcMoves ==
    ASSUME TypeOK, NEW r \in Runs, Step(r)
    PROVE  /\ kind' = kind
           /\ pc'[r] = "prepare" => pc[r] = "prepare" \/ kind = "gentle-shell"
           /\ pc[r] \notin {"idle", "prepare"} => pc'[r] \notin {"idle", "prepare"}
           /\ pc'[r] = "done" => pc[r] = "done" \/ kind = "pi" \/ CleanupWorktree(r)
<1> USE DEF TypeOK, At, Gentle
<1>0. kind' = kind
  BY DEF Step, RunStep, ScanStep, SystemStep, ChildStep, CallerStep
<1>1. CASE UNCHANGED pc
  BY <1>0, <1>1
<1>2. CASE WorktreeAdd(r) \/ WorktreeRefused(r) \/ StartChild(r) \/ StartFails(r) \/ Begin(r)
  BY <1>0, <1>2 DEF WorktreeAdd, WorktreeRefused, StartChild, StartFails, Begin, FailRun, Return, Goto
<1>3. CASE ConsumeLine(r) \/ ConsumeEnd(r) \/ ConsumeFails(r)
  BY <1>0, <1>1, <1>3 DEF ConsumeLine, ConsumeEnd, ConsumeFails, Handle, ReadEnds, Goto
<1>4. CASE PiConsumes(r) \/ PiReadsEOF(r)
  BY <1>0, <1>1, <1>4 DEF PiConsumes, PiReadsEOF, Handle, ReadEnds, Goto
<1>5. CASE ClassifyExit(r) \/ PiStops(r) \/ Wait(r)
  BY <1>0, <1>5 DEF ClassifyExit, PiStops, Wait, Goto
<1>6. CASE Decide(r) \/ PiDecide(r)
  BY <1>0, <1>6, SMTT(30) DEF Decide, PiDecide, FailRun, Return, Goto
<1>8. CASE Collect(r)
  BY <1>0, <1>8, SMTT(30) DEF Collect, FailRun, Return, Goto
<1>9. CASE CleanupWorktree(r)
  BY <1>0, <1>9 DEF CleanupWorktree, Goto
<1>7. CASE ScanStep(r) \/ SystemStep(r) \/ ChildStep(r) \/ TaskCanceled(r)
  BY <1>1, <1>7 DEF ScanStep, SystemStep, ChildStep, ScannerSends, ScannerFails, ScannerCloses, ContextKills, KillProcessTree, DeadlinePasses,
       ChildWorks, ChildExits, ChildWrites, TaskCanceled
<1> QED BY <1>2, <1>3, <1>4, <1>5, <1>6, <1>7, <1>8, <1>9 DEF Step, RunStep, ConsumeStep, CallerStep

\* The directory appears with the run that goes on with it, and is gone or marked
\* when a run is over.
LEMMA TreeMoves ==
    ASSUME TypeOK, NEW r \in Runs, Step(r)
    PROVE  \/ WorktreeAdd(r) /\ pc[r] = "prepare" /\ pc'[r] = "start" /\ tree'.of = r
           \/ tree' = None
           \/ tree # None /\ tree'.left
           \/ ~CleanupWorktree(r) /\ tree # None /\ tree' # None /\ tree'.of = tree.of /\ tree'.left = tree.left
<1>1. CASE WorktreeAdd(r)
  BY <1>1 DEF WorktreeAdd, Goto, At, TypeOK
<1>2. CASE CleanupWorktree(r)
  <2>1. CASE tree' = None
    BY <2>1
  <2>2. ASSUME tree # None, NEW gone \in BOOLEAN, tree' = [tree EXCEPT !.left = TRUE, !.dirty = tree.dirty \/ gone]
        PROVE  tree'.left
    BY <2>2 DEF TypeOK
  <2> QED BY <1>2, <2>1, <2>2 DEF CleanupWorktree
<1>3. CASE ChildWorks(r) /\ ~CleanupWorktree(r)
  <2>1. tree \in Worktrees /\ tree # None /\ None \notin Runs
    BY <1>3, RunnerAssumption DEF ChildWorks, TypeOK
  <2>2. tree' = [tree EXCEPT !.dirty = TRUE] \/ tree' = [tree EXCEPT !.dirty = FALSE, !.commits = TRUE]
    BY <1>3 DEF ChildWorks
  <2>3. tree'.of = tree.of /\ tree'.left = tree.left
    BY <2>1, <2>2 DEF Worktrees
  <2> QED BY <1>3, <2>1, <2>3
<1>4. CASE UNCHANGED tree /\ ~CleanupWorktree(r)
  BY <1>4
<1>5. CASE RunStep(r) /\ ~WorktreeAdd(r) /\ ~CleanupWorktree(r)
  BY <1>4, <1>5 DEF RunStep, WorktreeRefused, StartChild, StartFails, ConsumeStep, ConsumeLine, ConsumeEnd, ConsumeFails,
       PiConsumes, PiReadsEOF, ClassifyExit, PiStops, Wait, Decide, PiDecide, Collect, gitVars
<1>6. CASE (ScanStep(r) \/ SystemStep(r) \/ ChildStep(r) \/ CallerStep(r)) /\ ~ChildWorks(r) /\ ~CleanupWorktree(r)
  BY <1>4, <1>6 DEF ScanStep, SystemStep, ChildStep, CallerStep, ScannerSends, ScannerFails, ScannerCloses, ContextKills, KillProcessTree, DeadlinePasses,
       ChildExits, ChildWrites, Begin, TaskCanceled, gitVars
<1> QED BY <1>1, <1>2, <1>3, <1>5, <1>6 DEF Step

LEMMA TreedStep == ASSUME TypeOK, Treed, [Next]_vars PROVE Treed'
<1>1. ASSUME NEW r \in Runs, Step(r) PROVE Treed'
  <2>1. /\ kind' = kind /\ \A u \in Runs \ {r} : pc'[u] = pc[u]
        /\ pc'[r] = "prepare" => pc[r] = "prepare" \/ kind = "gentle-shell"
        /\ pc[r] \notin {"idle", "prepare"} => pc'[r] \notin {"idle", "prepare"}
        /\ pc'[r] = "done" => pc[r] = "done" \/ kind = "pi" \/ CleanupWorktree(r)
    BY <1>1, OthersSame, PcMoves DEF Same
  <2>2. \A u \in Runs : pc'[u] = "prepare" => kind' = "gentle-shell"
    BY <2>1 DEF Treed
  <2>3. CASE WorktreeAdd(r) /\ pc[r] = "prepare" /\ pc'[r] = "start" /\ tree'.of = r
    BY <2>1, <2>2, <2>3 DEF Treed
  <2>4. CASE tree' = None
    BY <2>2, <2>4 DEF Treed
  <2>5. CASE tree # None /\ tree'.left
    BY <2>1, <2>2, <2>5 DEF Treed
  <2>6. CASE ~CleanupWorktree(r) /\ tree # None /\ tree' # None /\ tree'.of = tree.of /\ tree'.left = tree.left
    <3>1. kind = "gentle-shell" /\ tree.of \in Runs
      BY <2>6 DEF Treed, TypeOK, Worktrees
    <3>2. CASE tree.left
      BY <2>1, <2>2, <2>6, <3>1, <3>2 DEF Treed
    <3>3. CASE pc[tree.of] \notin {"idle", "prepare", "done"}
      <4>1. pc'[tree.of] \notin {"idle", "prepare", "done"}
        BY <2>1, <2>6, <3>1, <3>3
      <4> QED BY <2>1, <2>2, <2>6, <3>1, <4>1 DEF Treed
    <3> QED BY <2>6, <3>2, <3>3 DEF Treed
  <2> QED BY <1>1, <2>3, <2>4, <2>5, <2>6, TreeMoves
<1>2. CASE UNCHANGED vars
  BY <1>2 DEF Treed, vars, gitVars
<1> QED BY <1>1, <1>2 DEF Next, Step

\* The branch of the task outlives its worktree, so only one delivery ever gets one.
Passed(r) == pc[r] \in Working \/ child[r] # "none"
Single ==
    /\ \A r \in Runs : Passed(r) => branch
    /\ \A r, u \in Runs : Passed(r) /\ Passed(u) => r = u
Kept == kind = "gentle-shell" => Single /\ WorktreeKept

\* What the rest of a run, neither its first step nor its last, does to these.
Goes(r) ==
    /\ branch' = branch /\ (tree # None => tree' # None /\ tree'.of = tree.of)
    /\ pc'[r] \in Working => pc[r] \in Working
    /\ pc[r] = "done" => pc'[r] = "done"
    /\ child'[r] # "none" => child[r] # "none" \/ pc[r] = "start"

LEMMA KeptMoves ==
    ASSUME TypeOK, NEW r \in Runs, Step(r), kind = "gentle-shell"
    PROVE  \/ /\ ~branch /\ branch' /\ tree' # None /\ tree'.of = r
              /\ pc'[r] = "start" /\ child' = child
           \/ pc[r] = "cleanup" /\ pc'[r] = "done" /\ child' = child /\ branch' = branch
           \/ Goes(r)
<1> USE DEF TypeOK, At, Gentle, Working
<1>1. CASE WorktreeAdd(r)
  <2>1. /\ ~branch /\ branch' /\ pc'[r] = "start" /\ child' = child
        /\ tree' = [of |-> r, commits |-> FALSE, dirty |-> FALSE, left |-> FALSE]
    BY <1>1 DEF WorktreeAdd, Goto, childVars
  <2>2. tree' \in Worktrees /\ tree'.of = r
    BY <2>1 DEF Worktrees
  <2> QED BY <2>1, <2>2, RunnerAssumption
<1>2. CASE CleanupWorktree(r)
  BY <1>2 DEF CleanupWorktree, Goto, childVars
<1>3. CASE UNCHANGED gitVars /\ pc'[r] = pc[r] /\ (child'[r] # "none" => child[r] # "none")
  BY <1>3 DEF Goes, gitVars
<1>4. CASE WorktreeRefused(r) \/ StartChild(r) \/ StartFails(r) \/ Begin(r)
  BY <1>4 DEF WorktreeRefused, StartChild, StartFails, Begin, FailRun, Return, Goto, childVars, gitVars, Goes
<1>5. CASE ConsumeStep(r)
  <2>1. /\ UNCHANGED <<child, tree, branch>> /\ pc[r] = "consume"
        /\ pc' = pc \/ pc' = [pc EXCEPT ![r] = "classify"]
    BY <1>5 DEF ConsumeStep, ConsumeLine, ConsumeEnd, ConsumeFails, PiConsumes, PiReadsEOF, Handle, ReadEnds, Goto, childVars, gitVars
  <2> QED BY <2>1 DEF Goes
<1>6. CASE ClassifyExit(r) \/ PiStops(r) \/ Wait(r)
  BY <1>6 DEF ClassifyExit, PiStops, Wait, Goto, childVars, gitVars, Goes
<1>7. CASE Decide(r) \/ PiDecide(r) \/ Collect(r)
  BY <1>7, SMTT(30) DEF Decide, PiDecide, Collect, FailRun, Return, Goto, childVars, gitVars, Goes
<1>8. CASE ChildWorks(r)
  <2>1. tree \in Worktrees /\ UNCHANGED <<pc, child, branch>>
    BY <1>8 DEF ChildWorks, childVars
  <2>2. tree' = [tree EXCEPT !.dirty = TRUE] \/ tree' = [tree EXCEPT !.dirty = FALSE, !.commits = TRUE]
    BY <1>8 DEF ChildWorks
  <2>3. tree' \in Worktrees
    BY <2>1, <2>2 DEF Worktrees
  <2>4. tree'.of = tree.of
    BY <2>1, <2>2 DEF Worktrees
  <2> QED BY <2>1, <2>3, <2>4, RunnerAssumption DEF Goes
<1>9. CASE ScanStep(r) \/ SystemStep(r) \/ TaskCanceled(r) \/ ChildExits(r)
  BY <1>3, <1>9 DEF ScanStep, SystemStep, ScannerSends, ScannerFails, ScannerCloses, ContextKills, KillProcessTree, KillOne,
       Alive, PipeOpen, DeadlinePasses, ChildExits, TaskCanceled, childVars
<1>10. ASSUME NEW line \in LineKinds, ChildWrites(r, line) PROVE Goes(r)
  BY <1>3, <1>10 DEF ChildWrites, Goes, gitVars
<1> QED BY <1>1, <1>2, <1>4, <1>5, <1>6, <1>7, <1>8, <1>9, <1>10 DEF Step, RunStep, ChildStep, CallerStep

LEMMA KeptStep == ASSUME TypeOK, Kept, [Next]_vars PROVE Kept'
<1>1. ASSUME NEW r \in Runs, Step(r) PROVE Kept'
  <2>1. kind' = kind /\ \A u \in Runs \ {r} : pc'[u] = pc[u] /\ child'[u] = child[u]
    BY <1>1, OthersSame, PcMoves DEF Same
  <2> SUFFICES ASSUME kind = "gentle-shell" PROVE Single' /\ WorktreeKept'
    BY <2>1 DEF Kept
  <2>2. Single /\ \A w \in Runs : pc[w] \in Working
            => (tree # None /\ tree.of = w) \/ \E u \in Runs \ {w} : pc[u] = "done" /\ child[u] = "none"
    BY DEF Kept, WorktreeKept, Gentle, At
  <2>3. \A u \in Runs \ {r} : Passed(u)' <=> Passed(u)
    BY <2>1 DEF Passed
  <2>4. Single' /\ \A w \in Runs : pc'[w] \in Working
            => (tree' # None /\ tree'.of = w) \/ \E u \in Runs \ {w} : pc'[u] = "done" /\ child'[u] = "none"
    <3>1. CASE ~branch /\ branch' /\ tree' # None /\ tree'.of = r /\ pc'[r] = "start" /\ child' = child
      <4>1. \A u \in Runs : ~Passed(u)
        BY <2>2, <3>1 DEF Single
      <4>2. \A u \in Runs \ {r} : ~Passed(u)' /\ pc'[u] \notin Working
        BY <2>1, <2>3, <4>1 DEF Passed
      <4> QED BY <3>1, <4>2 DEF Single
    <3>2. CASE pc[r] = "cleanup" /\ pc'[r] = "done" /\ child' = child /\ branch' = branch
      <4>1. Passed(r)' => Passed(r)
        BY <3>2 DEF Passed, Working
      <4>2. Single'
        BY <2>2, <2>3, <3>2, <4>1 DEF Single
      <4>3. ASSUME NEW w \in Runs, pc'[w] \in Working
            PROVE  w # r /\ child'[r] = "none"
        <5>1. w # r
          BY <3>2, <4>3 DEF Working
        <5>2. Passed(w)
          BY <2>1, <4>3, <5>1 DEF Passed
        <5>3. ~Passed(r)
          BY <2>2, <5>1, <5>2 DEF Single
        <5> QED BY <3>2, <5>1, <5>3 DEF Passed
      <4> QED BY <3>2, <4>2, <4>3
    <3>3. CASE Goes(r)
      <4>1. Passed(r)' => Passed(r)
        BY <3>3 DEF Goes, Passed, Working
      <4>2. Single'
        BY <2>2, <2>3, <3>3, <4>1 DEF Single, Goes
      <4>3. ASSUME NEW w \in Runs, pc'[w] \in Working
            PROVE  (tree' # None /\ tree'.of = w) \/ \E u \in Runs \ {w} : pc'[u] = "done" /\ child'[u] = "none"
        <5>1. pc[w] \in Working
          BY <2>1, <3>3, <4>3 DEF Goes
        <5>2. CASE tree # None /\ tree.of = w
          BY <3>3, <5>2 DEF Goes
        <5>3. ASSUME NEW u \in Runs \ {w}, pc[u] = "done", child[u] = "none"
              PROVE  pc'[u] = "done" /\ child'[u] = "none"
          BY <2>1, <3>3, <5>3 DEF Goes
        <5> QED BY <2>2, <5>1, <5>2, <5>3
      <4> QED BY <4>2, <4>3
    <3> QED BY <1>1, <3>1, <3>2, <3>3, KeptMoves
  <2> QED BY <2>1, <2>4 DEF WorktreeKept, Gentle, At
<1>2. CASE UNCHANGED vars
  BY <1>2 DEF Kept, Single, Passed, WorktreeKept, Gentle, At, vars, gitVars, childVars
<1> QED BY <1>1, <1>2 DEF Next, Step

Local(r) == Lives(r) /\ Scans(r) /\ Counts(r) /\ Read(r)

\* A step of the goroutine of Run that moves no line.
LEMMA RunLocal ==
    ASSUME TypeOK, NEW r \in Runs, Local(r),
           WorktreeAdd(r) \/ WorktreeRefused(r) \/ StartChild(r) \/ StartFails(r) \/ Begin(r) \/ ClassifyExit(r) \/ PiStops(r)
           \/ Decide(r) \/ PiDecide(r) \/ Collect(r) \/ CleanupWorktree(r),
           kind' = kind
    PROVE  Local(r)'
<1> USE DEF Local, Lives, Scans, Counts, Read, Whole, Early, Late, TypeOK, At, Gentle, PipeOpen
<1>1. CASE WorktreeAdd(r)
  BY <1>1 DEF WorktreeAdd, Goto, childVars, readVars, exitVars
<1>2. CASE WorktreeRefused(r) \/ StartFails(r)
  BY <1>2, SMTT(30) DEF WorktreeRefused, StartFails, FailRun, EmitFinal, Return, Goto, childVars, readVars, exitVars
<1>3. CASE StartChild(r)
  BY <1>3 DEF StartChild, Goto, exitVars
<1>4. CASE Begin(r)
  BY <1>4 DEF Begin, Goto, childVars, readVars, exitVars
<1>5. CASE ClassifyExit(r)
  <2>1. /\ UNCHANGED <<ctx, child, written, pipe, scanner, lines, scanErr, readErr, handled, event>>
        /\ pc[r] = "classify" /\ pc'[r] = "wait" /\ kind = "gentle-shell"
    BY <1>5 DEF ClassifyExit, Goto, childVars, readVars
  <2>2. child[r] # "orphaned"
    BY <2>1
  <2> QED BY <2>1, <2>2
<1>10. CASE PiStops(r)
  BY <1>10 DEF PiStops, Goto, childVars, readVars, exitVars
<1>6. CASE Decide(r)
  <2>1. /\ UNCHANGED <<child, written, pipe, scanner, lines, scanErr, readErr, handled>>
        /\ pc[r] = "decide" /\ kind = "gentle-shell" /\ event[r] # "completion" /\ child[r] # "alive" /\ UNCHANGED killing
    BY <1>6 DEF Decide, childVars, readVars, exitVars
  <2>2. ASSUME NEW x, x # "completion", FailRun(r, x) PROVE Local(r)'
    BY <2>1, <2>2 DEF FailRun, EmitFinal, Return, Goto
  <2>3. ASSUME Return(r), UNCHANGED event PROVE Local(r)'
    BY <2>1, <2>3 DEF Return, Goto
  <2>4. ASSUME readErr[r] = "none", ctx[r] = "live", Goto(r, "collect"), UNCHANGED <<ctx, event>> PROVE Local(r)'
    BY <2>1, <2>4 DEF Goto
  <2>5. cause[r] # "completion"
    BY DEF ExitCauses
  <2> QED BY <1>6, <2>2, <2>3, <2>4, <2>5 DEF Decide
<1>7. CASE PiDecide(r)
  BY <1>7, ZenonT(30) DEF PiDecide, FailRun, EmitFinal, Return, Goto, childVars, readVars, exitVars
<1>8. CASE Collect(r)
  BY <1>8 DEF Collect, FailRun, EmitFinal, Return, Goto, childVars, readVars, exitVars
<1>9. CASE CleanupWorktree(r)
  BY <1>9 DEF CleanupWorktree, Goto, childVars, readVars, exitVars
<1> QED BY <1>1, <1>2, <1>3, <1>4, <1>5, <1>6, <1>7, <1>8, <1>9, <1>10

\* A step of the clock, the child or the task that moves no line.
LEMMA SystemLocal ==
    ASSUME TypeOK, NEW r \in Runs, Local(r), kind' = kind,
           ContextKills(r) \/ KillProcessTree(r) \/ DeadlinePasses(r) \/ ChildWorks(r) \/ ChildExits(r) \/ TaskCanceled(r)
    PROVE  Local(r)'
<1> USE DEF Local, Lives, Scans, Counts, Read, Whole, Early, Late, TypeOK, At, Gentle, Alive, PipeOpen
<1>1. CASE ContextKills(r) \/ KillProcessTree(r) \/ ChildExits(r)
  BY <1>1 DEF ContextKills, KillProcessTree, KillOne, ChildExits, readVars, exitVars
<1>2. CASE DeadlinePasses(r) \/ TaskCanceled(r) \/ ChildWorks(r)
  BY <1>2, SMTT(30) DEF DeadlinePasses, TaskCanceled, ChildWorks, childVars, readVars, exitVars
<1> QED BY <1>1, <1>2

\* The lines on their way.
LEMMA LineLocal ==
    ASSUME TypeOK, NEW r \in Runs, Local(r), kind' = kind,
           ConsumeStep(r) \/ Wait(r) \/ ScannerSends(r) \/ ScannerFails(r) \/ ScannerCloses(r)
           \/ \E line \in LineKinds : ChildWrites(r, line)
    PROVE  Local(r)'
<1> USE DEF Local, Lives, Scans, Counts, Read, Whole, Early, Late, At, Gentle, Alive, PipeOpen
<1>0. /\ Len(pipe[r]) \in Nat /\ Len(lines[r]) \in Nat /\ handled[r] \in Nat /\ written[r] \in Nat
      /\ pipe[r] \in Seq(LineKinds) /\ lines[r] \in Seq(LineKinds) /\ Len(<<>>) = 0
  BY DEF TypeOK
<1>1. CASE Wait(r)
  <2>1. PICK k \in 0 .. Len(pipe[r]) : (k > 0 => scanner[r] = "reading") /\ pipe'[r] = SubSeq(pipe[r], 1, k)
    BY <1>1 DEF Wait, ClosePipe, Reading, TypeOK
  <2>2. scanner[r] # "reading" => pipe'[r] = <<>>
    BY <1>0, <2>1
  <2>3. UNCHANGED <<ctx, child, written, scanner, lines, scanErr, readErr, handled, killing, event>>
        /\ pc[r] = "wait" /\ pc'[r] = "decide" /\ child[r] # "alive" /\ (kind = "gentle-shell" \/ child[r] # "orphaned")
    BY <1>1 DEF Wait, Goto, readVars, exitVars, TypeOK
  <2>4. kind \in {"gentle-shell", "pi"}
    BY DEF TypeOK
  <2>5. Lives(r)' /\ Scans(r)'
    BY <2>2, <2>3, <2>4
  <2> QED BY <2>3, <2>5
<1>2. CASE ScannerSends(r)
  <2>1. /\ UNCHANGED <<pc, ctx, child, written, scanner, scanErr, readErr, handled, event, killing>> /\ pipe[r] # <<>>
        /\ scanner[r] = "reading" /\ kind = "gentle-shell"
        /\ lines'[r] = Append(lines[r], Head(pipe[r])) /\ pipe'[r] = Tail(pipe[r])
    BY <1>2 DEF ScannerSends, Reading, exitVars, TypeOK
  <2>2. Len(lines'[r]) = Len(lines[r]) + 1 /\ Len(pipe'[r]) = Len(pipe[r]) - 1
    BY <1>0, <2>1, LineMoves
  <2>3. Counts(r)'
    <3>1. written[r] = handled[r] + Len(lines[r]) + Len(pipe[r])
          => written[r] = handled[r] + (Len(lines[r]) + 1) + (Len(pipe[r]) - 1)
      <4>1. PICK a \in Nat, b \in Nat : a = Len(lines[r]) /\ b = Len(pipe[r])
        BY <1>0
      <4>2. handled[r] \in Nat /\ written[r] \in Nat
        BY <1>0
      <4> HIDE DEF Local, Lives, Scans, Counts, Read, Whole
      <4>3. written[r] = handled[r] + a + b => written[r] = handled[r] + (a + 1) + (b - 1)
        BY <4>2
      <4> QED BY <4>1, <4>3
    <3> QED BY <2>1, <2>2, <3>1, Zenon
  <2>4. Lives(r)' /\ Read(r)'
    BY <2>1
  <2>5. Scans(r)'
    BY <2>1
  <2> QED BY <2>3, <2>4, <2>5
<1>3. CASE ScannerFails(r) \/ ScannerCloses(r)
  BY <1>3, ZenonT(30) DEF ScannerFails, ScannerCloses, Reading, childVars, exitVars, TypeOK
<1>4. ASSUME NEW line \in LineKinds, ChildWrites(r, line) PROVE Local(r)'
  <2>1. /\ UNCHANGED <<pc, ctx, child, lines, scanner, scanErr, readErr, handled, event, killing>> /\ PipeOpen(r)
        /\ written'[r] = written[r] + 1 /\ pipe'[r] = Append(pipe[r], line)
    BY <1>4 DEF ChildWrites, readVars, exitVars, TypeOK
  <2>2. Len(pipe'[r]) = Len(pipe[r]) + 1
    BY <1>0, <1>4, <2>1, LineMoves
  <2>3. Counts(r)'
    <3>1. written[r] = handled[r] + Len(lines[r]) + Len(pipe[r])
          => written[r] + 1 = handled[r] + Len(lines[r]) + (Len(pipe[r]) + 1)
      <4> HIDE DEF Local, Lives, Scans, Counts, Read, Whole
      <4>1. PICK a \in Nat, b \in Nat : a = Len(lines[r]) /\ b = Len(pipe[r])
        BY <1>0
      <4>2. handled[r] \in Nat /\ written[r] \in Nat
        BY <1>0
      <4>3. written[r] = handled[r] + a + b => written[r] + 1 = handled[r] + a + (b + 1)
        BY <4>2
      <4> QED BY <4>1, <4>3
    <3> QED BY <2>1, <2>2, <3>1, Zenon
  <2>4. Lives(r)' /\ Scans(r)'
    BY <2>1
  <2>5. Read(r)'
    BY <2>1
  <2> QED BY <2>3, <2>4, <2>5
<1>5. ASSUME NEW e, ReadEnds(r, e) PROVE pc'[r] = "classify" /\ readErr'[r] = e
  BY <1>5 DEF ReadEnds, Goto, TypeOK
<1>6. ASSUME NEW line, Handle(r, line)
      PROVE  /\ handled'[r] = handled[r] + 1
             /\ \/ pc'[r] = "classify" /\ readErr'[r] # "none"
                \/ UNCHANGED <<pc, readErr>>
  BY <1>5, <1>6 DEF Handle, TypeOK
<1>7. CASE ConsumeLine(r)
  <2>1. /\ UNCHANGED <<ctx, child, written, pipe, scanner, scanErr, event, killing>> /\ lines[r] # <<>> /\ pc[r] = "consume"
        /\ kind = "gentle-shell" /\ lines'[r] = Tail(lines[r]) /\ Handle(r, Head(lines[r]))
    BY <1>7 DEF ConsumeLine, childVars, exitVars, TypeOK
  <2>2. Len(lines'[r]) = Len(lines[r]) - 1
    BY <1>0, <2>1, LineMoves
  <2>3. /\ handled'[r] = handled[r] + 1
        /\ (pc'[r] = "classify" /\ readErr'[r] # "none") \/ UNCHANGED <<pc, readErr>>
    BY <1>6, <2>1
  <2>4. Counts(r)'
    <3>1. written[r] = handled[r] + Len(lines[r]) + Len(pipe[r])
          => written[r] = (handled[r] + 1) + (Len(lines[r]) - 1) + Len(pipe[r])
      <4> HIDE DEF Local, Lives, Scans, Counts, Read, Whole
      <4>1. PICK a \in Nat, b \in Nat : a = Len(lines[r]) /\ b = Len(pipe[r])
        BY <1>0
      <4>2. handled[r] \in Nat /\ written[r] \in Nat
        BY <1>0
      <4>3. written[r] = handled[r] + a + b => written[r] = (handled[r] + 1) + (a - 1) + b
        BY <4>2
      <4> QED BY <4>1, <4>3
    <3>2. written[r] = handled[r] + Len(lines[r]) + Len(pipe[r])
      BY <2>1
    <3> QED BY <2>1, <2>2, <2>3, <3>1, <3>2, Zenon
  <2>5. Lives(r)' /\ Scans(r)'
    BY <2>1, <2>3
  <2>6. Read(r)'
    BY <2>1, <2>3
  <2> QED BY <2>4, <2>5, <2>6
<1>8. CASE ConsumeEnd(r) \/ PiReadsEOF(r)
  <2>1. /\ UNCHANGED <<ctx, child, written, pipe, scanner, lines, scanErr, handled, event, killing>> /\ pc[r] = "consume"
        /\ pc'[r] = "classify"
        /\ \/ lines[r] = <<>> /\ scanner[r] = "ended"
           \/ kind = "pi" /\ pipe[r] = <<>> /\ ~PipeOpen(r)
    BY <1>5, <1>8 DEF ConsumeEnd, PiReadsEOF, childVars, exitVars, TypeOK
  <2>2. scanErr[r] # "none" \/ (handled[r] = written[r] /\ ~PipeOpen(r))
    BY <1>0, <2>1
  <2> QED BY <2>1, <2>2
<1>9. CASE ConsumeFails(r)
  <2>1. UNCHANGED <<ctx, child, written, pipe, scanner, lines, scanErr, handled, event, killing>> /\ pc[r] = "consume"
    BY <1>9 DEF ConsumeFails, childVars, exitVars
  <2>2. pc'[r] = "classify" /\ readErr'[r] # "none"
    BY <1>5, <1>9 DEF ConsumeFails
  <2> QED BY <2>1, <2>2
<1>10. CASE PiConsumes(r)
  <2>1. /\ UNCHANGED <<ctx, child, written, scanner, lines, scanErr, event, killing>> /\ pc[r] = "consume"
        /\ kind = "pi" /\ pipe[r] # <<>>
    BY <1>10 DEF PiConsumes, exitVars, TypeOK
  <2>2. CASE UNCHANGED <<pipe, handled>> /\ (ReadEnds(r, "scan") \/ ReadEnds(r, "ctx") \/ ReadEnds(r, "idle"))
    <3>1. pc'[r] = "classify" /\ readErr'[r] # "none"
      BY <1>5, <2>2
    <3> QED BY <2>1, <2>2, <3>1
  <2>3. CASE pipe' = [pipe EXCEPT ![r] = Tail(pipe[r])] /\ Handle(r, Head(pipe[r]))
    <3>1. pipe'[r] = Tail(pipe[r]) /\ Len(pipe'[r]) = Len(pipe[r]) - 1
      BY <1>0, <2>1, <2>3, LineMoves DEF TypeOK
    <3>2. /\ handled'[r] = handled[r] + 1
          /\ (pc'[r] = "classify" /\ readErr'[r] # "none") \/ UNCHANGED <<pc, readErr>>
      BY <1>6, <2>3
    <3>3. Counts(r)'
      <4>1. written[r] = handled[r] + Len(lines[r]) + Len(pipe[r])
        BY <2>1
      <4>2. lines'[r] = lines[r] /\ written'[r] = written[r]
        BY <2>1
      <4> HIDE DEF Local, Lives, Scans, Read, Whole
      <4>3. PICK a \in Nat, b \in Nat : a = Len(lines[r]) /\ b = Len(pipe[r])
        BY <1>0
      <4>4. handled[r] \in Nat /\ written[r] \in Nat
        BY <1>0
      <4>5. written[r] = handled[r] + a + b => written[r] = (handled[r] + 1) + a + (b - 1)
        BY <4>4
      <4> QED BY <3>1, <3>2, <4>1, <4>2, <4>3, <4>5
    <3>4. Lives(r)' /\ Scans(r)'
      BY <2>1, <3>2
    <3>5. Read(r)'
      BY <2>1, <3>2
    <3> QED BY <3>3, <3>4, <3>5
  <2> QED BY <1>10, <2>2, <2>3 DEF PiConsumes
<1> QED BY <1>1, <1>2, <1>3, <1>4, <1>7, <1>8, <1>9, <1>10 DEF ConsumeStep

LEMMA LocalStep == ASSUME TypeOK, \A r \in Runs : Local(r), [Next]_vars PROVE \A r \in Runs : Local(r)'
<1>1. ASSUME NEW u \in Runs, Same(u), kind' = kind PROVE Local(u)'
  BY <1>1 DEF Same, Local, Lives, Scans, Counts, Read, Whole, PipeOpen
<1>2. ASSUME NEW r \in Runs, Step(r), NEW u \in Runs PROVE Local(u)'
  <2>1. kind' = kind
    BY <1>2, PcMoves
  <2>2. CASE u # r
    BY <1>1, <1>2, <2>2, OthersSame
  <2>3. Local(r)'
    BY <1>2, <2>1, RunLocal, SystemLocal, LineLocal DEF Step, RunStep, ScanStep, SystemStep, ChildStep, CallerStep
  <2> QED BY <2>2, <2>3
<1>3. CASE UNCHANGED vars
  <2>1. \A u \in Runs : Same(u) /\ kind' = kind
    BY <1>3 DEF Same, vars, childVars, readVars, exitVars
  <2> QED BY <1>1, <2>1
<1> QED BY <1>2, <1>3 DEF Next, Step

-----------------------------------------------------------------------------
(* The theorems.                                                           *)

LEMMA RunnerInit == Init => RunnerInv
<1> SUFFICES ASSUME Init PROVE RunnerInv
  OBVIOUS
<1>1. TypeOK
  <2>1. /\ <<>> \in Seq(LineKinds) /\ Len(<<>>) = 0 /\ 0 \in 0 .. MaxLines /\ 0 \in 0 .. MaxFaults
        /\ 0 <= PipeCap /\ 0 <= ChanCap /\ 0 <= MaxToolCalls
    BY RunnerAssumption
  <2>2. "none" \in StreamErrors /\ "none" \in ExitCauses /\ "none" \in FinalEvents
    BY DEF StreamErrors, ExitCauses, FinalEvents
  <2>3. ControlTypes /\ FlagTypes
    BY <2>1, <2>2 DEF Init, ControlTypes, FlagTypes, PCs
  <2>4. BufferTypes
    BY <2>1 DEF Init, BufferTypes
  <2> QED BY <2>3, <2>4, TypeParts
<1>2. Treed
  BY DEF Init, Treed
<1>3. ASSUME NEW r \in Runs PROVE Lives(r) /\ Scans(r) /\ Counts(r) /\ Read(r)
  <2>1. /\ pc[r] = "idle" /\ child[r] = "none" /\ scanner[r] = "none" /\ scanErr[r] = "none" /\ event[r] = "none"
        /\ written[r] = 0 /\ handled[r] = 0 /\ lines[r] = <<>> /\ pipe[r] = <<>> /\ Len(<<>>) = 0
    BY DEF Init
  <2>2. Counts(r)
    BY <2>1 DEF Counts
  <2>3. killing[r] = FALSE
    BY DEF Init
  <2> QED BY <2>1, <2>2, <2>3 DEF Lives, Scans, Read, PipeOpen
<1> QED BY <1>1, <1>2, <1>3 DEF RunnerInv

LEMMA RunnerInductive == RunnerInv /\ [Next]_vars => RunnerInv'
<1> SUFFICES ASSUME RunnerInv, [Next]_vars PROVE RunnerInv'
  OBVIOUS
<1>1. TypeOK /\ Treed /\ \A r \in Runs : Local(r)
  BY DEF RunnerInv, Local
<1>2. TypeOK' /\ Treed'
  BY <1>1, TypeStep, TreedStep
<1>3. \A r \in Runs : Local(r)'
  BY <1>1, LocalStep
<1> QED BY <1>2, <1>3 DEF RunnerInv, Local

LEMMA RunnerInvariant == Spec => []RunnerInv
  BY RunnerInit, RunnerInductive, PTL DEF Spec

\* The pipe and the channel stay within their capacities, no gentle-shell run
\* makes a tool call over its budget, and every variable keeps its type.
THEOREM RunnerTypeCorrect == Spec => []TypeOK
<1>1. RunnerInv => TypeOK
  BY DEF RunnerInv
<1> QED BY <1>1, RunnerInvariant, PTL

\* A run that reports completion has handled every line its child wrote, unless
\* an oversized line was met: consume returns without an error only when the
\* channel is closed and empty, and a scanner that gave up has left its error.
THEOREM RunnerCompletionWhole == Spec => []CompletionWhole
<1>1. RunnerInv => CompletionWhole
  BY DEF RunnerInv, Read, Whole, CompletionWhole
<1> QED BY <1>1, RunnerInvariant, PTL

\* A gentle-shell delivery that works has the worktree of its task to itself, until a
\* delivery that was refused removes it, whatever else the deliveries do.
THEOREM RunnerWorktreeKept == Spec => []WorktreeKept
<1>1. Init => Kept
  BY DEF Init, Kept, Single, Passed, WorktreeKept, Working
<1>2. TypeOK /\ Kept /\ [Next]_vars => Kept'
  BY KeptStep
<1>3. Kept => WorktreeKept
  BY DEF Kept, WorktreeKept, Gentle
<1> QED BY <1>1, <1>2, <1>3, RunnerTypeCorrect, PTL DEF Spec

\* A run that has returned has reaped its child; descendants are left only where
\* killProcessTree was called, and, once all runs have returned, a worktree only
\* where its removal failed, whichever run added it and wherever each of them failed;
\* nor does a run that works lose it but to a delivery that was refused.
THEOREM RunnerNothingLeftBehind == Spec => []NothingLeftBehind
<1>1. RunnerInv /\ WorktreeKept => NothingLeftBehind
  <2> SUFFICES ASSUME RunnerInv, WorktreeKept PROVE NothingLeftBehind
    OBVIOUS
  <2>1. \A r \in Runs : At(r, "done") => ~Alive(r) /\ (child[r] = "orphaned" => killing[r])
    BY DEF RunnerInv, Lives, At, Alive
  <2>2. (\A r \in Runs : pc[r] \in {"idle", "done"}) /\ tree # None => tree.left
    BY DEF RunnerInv, Treed, TypeOK, Worktrees
  <2> QED BY <2>1, <2>2 DEF NothingLeftBehind
<1> QED BY <1>1, RunnerInvariant, RunnerWorktreeKept, PTL

=============================================================================
