------------------------ MODULE TaskLifecycleProofs ------------------------
(***************************************************************************)
(* Theorems about TaskLifecycle, for every set of failers and every bound. *)
(***************************************************************************)
EXTENDS TaskLifecycle, SequenceTheorems, TLAPS

-----------------------------------------------------------------------------
(* Type correctness.                                                       *)

\* WriteEvent keeps the log a sequence of lines, torn and garbled ones too.
LEMMA AppendType ==
    ASSUME log \in Seq(Lines), NEW line \in Lines PROVE Append1(line) \in Seq(Lines)
<1>1. Garbled \in Lines
  BY DEF Garbled, Lines, Causes, Threads
<1>2. CASE log # <<>> /\ Last(log) = Torn
  <2>1. ReplaceAt(log, Len(log), Garbled) \in Seq(Lines)
    BY <1>1, <1>2 DEF ReplaceAt
  <2> QED BY <1>2, <2>1 DEF Append1
<1>3. CASE ~(log # <<>> /\ Last(log) = Torn)
  BY <1>3 DEF Append1
<1> QED BY <1>2, <1>3

LEMMA PartType ==
    ASSUME log \in Seq(Lines) PROVE AppendPart \in Seq(Lines)
<1>1. Torn \in Lines
  BY DEF Torn, Lines, Causes
<1> QED BY <1>1, AppendProperties DEF AppendPart

LEMMA WriteType ==
    ASSUME TypeOK, NEW line \in Lines, NEW ok \in BOOLEAN, WriteEvent(line, ok)
    PROVE  log' \in Seq(Lines) /\ faults' \in 0 .. MaxLogFaults
<1>1. log \in Seq(Lines) /\ log' \in {log, AppendPart, Append1(line)}
  BY DEF TypeOK, WriteEvent
<1>2. log' \in Seq(Lines)
  BY <1>1, AppendType, PartType
<1>3. faults' \in 0 .. MaxLogFaults
  BY BoundsAssumption DEF TypeOK, WriteEvent
<1> QED BY <1>2, <1>3

LEMMA EmitType ==
    ASSUME TypeOK, NEW line \in Lines, NEW s \in Statuses, NEW ok \in BOOLEAN, EmitLine(line, s, ok)
    PROVE  /\ log' \in Seq(Lines) /\ faults' \in 0 .. MaxLogFaults
           /\ seq' \in Nat /\ status' \in Statuses /\ open' \in BOOLEAN
BY WriteType DEF EmitLine, TypeOK

LEMMA EventType ==
    ASSUME TypeOK, NEW kind \in {"status", "completion", "error"}, NEW what \in Causes \cup Statuses
    PROVE  Event(kind, what) \in Lines
BY DEF TypeOK, Event, Lines

\* What rehydrateTask takes the next event id from.
LEMMA LastEventIDType == ASSUME TypeOK PROVE LastEventID(log) \in Nat
<1>1. ReadEvents(log) \in Seq(Lines)
  <2>1. log \in Seq(Lines) /\ (log # <<>> => Front(log) \in Seq(Lines))
    BY SubSeqProperties DEF TypeOK, Front
  <2> QED BY <2>1 DEF ReadEvents
<1>2. CASE ReadEvents(log) = <<>>
  BY <1>2 DEF LastEventID
<1>3. CASE ReadEvents(log) # <<>>
  <2>1. Last(ReadEvents(log)) \in Lines
    BY <1>1, <1>3 DEF Last
  <2> QED BY <1>3, <2>1 DEF LastEventID, Lines
<1> QED BY <1>2, <1>3

\* The bound on stops, which Close checks and Exit relies on.
StopsBounded == up /\ closed => stops < MaxStops

LEMMA TypeStep == TypeOK /\ StopsBounded /\ [Next]_vars => TypeOK'
<1> SUFFICES ASSUME TypeOK, StopsBounded, [Next]_vars PROVE TypeOK'
  OBVIOUS
<1> USE DEF memVars, procVars, Goto, Return, ReturnError, PCs
<1>s. /\ Statuses \subseteq Causes \cup Statuses /\ {"queued", "running", "completed", "failed", "canceled"} \subseteq Statuses
      /\ Threads \cup {"agent", "none"} \subseteq Causes
      /\ {"dispatcher", "runner", "canceler", "restarter"} \subseteq Threads /\ Failers \subseteq Threads
  BY DEF Statuses, Causes, Threads
<1>p. \A th \in Threads, where \in PCs : [pc EXCEPT ![th] = where] \in [Threads -> PCs]
  BY DEF TypeOK
<1>1. ASSUME NEW ok \in BOOLEAN, Dispatch(ok) PROVE TypeOK'
  <2>1. CASE status = "queued"
    <3>1. TransitionTo("dispatcher", "running", ok)
      BY <1>1, <2>1 DEF Dispatch
    <3>2. EmitLine(Event("status", "running"), "running", ok)
      BY <3>1 DEF TransitionTo
    <3>3. /\ log' \in Seq(Lines) /\ faults' \in 0 .. MaxLogFaults
          /\ seq' \in Nat /\ status' \in Statuses /\ open' \in BOOLEAN
      BY <1>s, <3>2, EmitType, EventType
    <3> QED BY <1>1, <1>p, <1>s, <3>1, <3>3 DEF Dispatch, TransitionTo, TypeOK
  <2>2. CASE status # "queued"
    <3>1. pc' = [pc EXCEPT !["dispatcher"] = "done"] /\ UNCHANGED <<status, cause, seq, log, open, faults>>
      BY <1>1, <2>2 DEF Dispatch
    <3>2. UNCHANGED <<node, row, reported, snapshot, up, closed, stops>>
      BY <1>1 DEF Dispatch
    <3> QED BY <1>p, <1>s, <3>1, <3>2 DEF TypeOK
  <2> QED BY <2>1, <2>2
<1>2. ASSUME NEW ok \in BOOLEAN, RunnerEmits(ok) PROVE TypeOK'
  <2> SUFFICES /\ log' \in Seq(Lines) /\ faults' \in 0 .. MaxLogFaults
               /\ seq' \in Nat /\ status' \in Statuses /\ open' \in BOOLEAN
               /\ cause' \in Causes /\ (pc' = pc \/ pc' = [pc EXCEPT !["runner"] = "notify"])
    BY <1>2, <1>p, <1>s DEF RunnerEmits, TypeOK
  <2>1. CASE EmitCompletion(ok)
    <3>1. EmitLine(Event("completion", "none"), "completed", ok)
      BY <2>1 DEF EmitCompletion
    <3>2. /\ log' \in Seq(Lines) /\ faults' \in 0 .. MaxLogFaults
          /\ seq' \in Nat /\ status' \in Statuses /\ open' \in BOOLEAN
      BY <1>s, <3>1, EmitType, EventType
    <3> QED BY <2>1, <3>2 DEF EmitCompletion, TypeOK
  <2>2. CASE EmitError("runner", "agent", ok)
    <3>1. EmitLine(Event("error", "agent"), "failed", ok)
      BY <2>2 DEF EmitError
    <3> QED BY <1>s, <2>2, <3>1, EmitType, EventType DEF EmitError, TypeOK
  <2>3. ASSUME NEW s \in Statuses, EmitStatus(s, ok)
        PROVE  /\ log' \in Seq(Lines) /\ faults' \in 0 .. MaxLogFaults
               /\ seq' \in Nat /\ status' \in Statuses /\ open' \in BOOLEAN
               /\ cause' \in Causes /\ (pc' = pc \/ pc' = [pc EXCEPT !["runner"] = "notify"])
    <3>1. Event("status", s) \in Lines /\ status \in Statuses
      BY <1>s, EventType DEF TypeOK
    <3>2. CASE EmitLine(Event("status", s), status, ok) /\ UNCHANGED pc
      BY <2>3, <3>1, <3>2, EmitType DEF EmitStatus, TypeOK
    <3>3. CASE EmitLine(Event("status", s), s, ok) /\ Goto("runner", "notify")
      BY <2>3, <3>1, <3>3, EmitType DEF EmitStatus, TypeOK
    <3>4. CASE seq' = seq + 1 /\ UNCHANGED <<status, log, faults, open, pc>>
      BY <2>3, <3>4 DEF EmitStatus, TypeOK
    <3> QED BY <2>3, <3>2, <3>3, <3>4 DEF EmitStatus
  <2> QED BY <1>2, <2>1, <2>2, <2>3 DEF RunnerEmits
<1>3. ASSUME NEW ok \in BOOLEAN, CancelTask(ok) PROVE TypeOK'
  <2>1. CASE Terminal
    BY <1>3, <1>p, <1>s, <2>1 DEF CancelTask, TypeOK
  <2>2. CASE ~Terminal
    <3>1. log' \in Seq(Lines) /\ faults' \in 0 .. MaxLogFaults
      BY <1>3, <1>s, <2>2, WriteType, EventType DEF CancelTask
    <3>2. /\ seq' = seq + 1 /\ status' = "canceled" /\ open' = FALSE
          /\ pc' = [pc EXCEPT !["canceler"] = "notify"]
          /\ UNCHANGED <<cause, node, row, reported, snapshot, up, closed, stops>>
      BY <1>3, <2>2 DEF CancelTask
    <3>3. /\ pc' \in [Threads -> PCs]
          /\ status' \in Statuses /\ seq' \in Nat
      BY <1>p, <1>s, <3>2 DEF TypeOK
    <3>4. open' \in BOOLEAN
      BY <3>2
    <3> QED BY <3>1, <3>2, <3>3, <3>4 DEF TypeOK
  <2> QED BY <2>1, <2>2
<1>4. CASE AttributeNode
  BY <1>4, <1>p, <1>s DEF AttributeNode, TypeOK
<1>5. ASSUME NEW th \in Threads, CollectTask(th) PROVE TypeOK'
  BY <1>5, <1>p DEF CollectTask, TypeOK
<1>6. ASSUME NEW th \in Threads, FailTaskRecords(th) PROVE TypeOK'
  <2>1. CASE Terminal
    BY <1>6, <1>p, <2>1 DEF FailTaskRecords, TypeOK
  <2>2. CASE ~Terminal
    <3>1. reported' \in [Threads -> BOOLEAN]
      <4>1. reported' = [reported EXCEPT ![th] = (cause # "none")] /\ reported \in [Threads -> BOOLEAN]
        BY <1>6, <2>2 DEF FailTaskRecords, TypeOK
      <4>2. (cause # "none") \in BOOLEAN
        OBVIOUS
      <4> HIDE <1>6, <2>2
      <4> QED BY <4>1, <4>2, Zenon
    <3>2. /\ cause' = th /\ pc' = [pc EXCEPT ![th] = "recorded"]
          /\ UNCHANGED <<status, node, seq, log, open, row, snapshot, up, closed, stops, faults>>
      BY <1>6, <2>2 DEF FailTaskRecords
    <3> QED BY <1>p, <1>s, <3>1, <3>2 DEF TypeOK
  <2> QED BY <2>1, <2>2
<1>7. ASSUME NEW th \in Threads, NEW ok \in BOOLEAN, FailTaskFinalizes(th, ok) PROVE TypeOK'
  <2>1. CASE EmitError(th, th, ok)
    <3>1. EmitLine(Event("error", th), "failed", ok)
      BY <2>1 DEF EmitError
    <3>2. /\ log' \in Seq(Lines) /\ faults' \in 0 .. MaxLogFaults
          /\ seq' \in Nat /\ status' \in Statuses /\ open' \in BOOLEAN
      BY <1>s, <3>1, EmitType, EventType
    <3> QED BY <1>7, <1>p, <1>s, <2>1, <3>2 DEF FailTaskFinalizes, EmitError, TypeOK
  <2>2. CASE TransitionTo(th, "failed", ok)
    <3>1. EmitLine(Event("status", "failed"), "failed", ok)
      BY <2>2 DEF TransitionTo
    <3>2. /\ log' \in Seq(Lines) /\ faults' \in 0 .. MaxLogFaults
          /\ seq' \in Nat /\ status' \in Statuses /\ open' \in BOOLEAN
      BY <1>s, <3>1, EmitType, EventType
    <3> QED BY <1>7, <1>p, <1>s, <2>2, <3>2 DEF FailTaskFinalizes, TransitionTo, TypeOK
  <2>3. CASE Goto(th, Return(th)) /\ UNCHANGED <<status, cause, seq, log, open, faults>>
    BY <1>7, <1>p, <2>3 DEF FailTaskFinalizes, TypeOK
  <2> QED BY <1>7, <2>1, <2>2, <2>3 DEF FailTaskFinalizes
<1>8. ASSUME NEW th \in Threads, SyncCheck(th) \/ SyncSnapshot(th) PROVE TypeOK'
  <2>1. CASE SyncCheck(th)
    BY <1>p, <2>1 DEF SyncCheck, TypeOK
  <2>2. CASE SyncSnapshot(th)
    BY <1>p, <2>2 DEF SyncSnapshot, TypeOK
  <2> QED BY <1>8, <2>1, <2>2
<1>9. ASSUME NEW th \in Threads, SyncWrite(th) PROVE TypeOK'
  BY <1>9, <1>p DEF SyncWrite, TypeOK
<1>10. CASE Close \/ Exit
  <2>1. stops' \in 0 .. MaxStops
    BY <1>10, BoundsAssumption DEF Close, Exit, TypeOK, StopsBounded
  <2>2. /\ up' \in BOOLEAN /\ closed' \in BOOLEAN /\ open' \in BOOLEAN
        /\ UNCHANGED <<status, cause, node, seq, log, row, pc, reported, snapshot, faults>>
    BY <1>10 DEF Close, Exit, TypeOK
  <2> QED BY <2>1, <2>2 DEF TypeOK
<1>11. CASE Crash
  <2>2. log' \in Seq(Lines)
    BY <1>11, PartType DEF Crash, TypeOK
  <2>3. stops' \in 0 .. MaxStops
    BY <1>11, BoundsAssumption DEF Crash, TypeOK
  <2>4. /\ up' = FALSE /\ open' = FALSE
        /\ UNCHANGED <<status, cause, node, seq, row, pc, reported, snapshot, closed, faults>>
    BY <1>11 DEF Crash
  <2> QED BY <2>2, <2>3, <2>4 DEF TypeOK
<1>12. CASE Restart
  BY <1>12, LastEventIDType DEF Restart, TypeOK
<1>13. CASE UNCHANGED vars
  BY <1>13 DEF vars, TypeOK
<1> QED
  BY <1>1, <1>2, <1>3, <1>4, <1>5, <1>6, <1>7, <1>8, <1>9, <1>10, <1>11, <1>12, <1>13
     DEF Next, FailStep, SyncStep, Waiting

LEMMA StopsStep == TypeOK /\ StopsBounded /\ [Next]_vars => StopsBounded'
BY DEF TypeOK, StopsBounded, Next, vars, procVars, Dispatch, RunnerEmits, CancelTask, AttributeNode,
       CollectTask, FailStep, FailTaskRecords, FailTaskFinalizes, SyncStep, SyncCheck, SyncSnapshot, SyncWrite,
       Close, Exit, Crash, Restart, Waiting

\* Type correctness, the log, the store row and the bounds included.
THEOREM TypeCorrect == Spec => []TypeOK
<1>1. Init => TypeOK
  <2>1. [id |-> 1, kind |-> "status", what |-> "queued"] \in Lines
    BY DEF Lines, Causes, Statuses
  <2>2. [status |-> "queued", cause |-> "none"] \in [status : Statuses, cause : Causes]
    BY DEF Causes, Statuses
  <2> SUFFICES ASSUME Init PROVE TypeOK
    OBVIOUS
  <2>3. /\ log \in Seq(Lines) /\ row \in [status : Statuses, cause : Causes]
        /\ snapshot \in [Threads -> [status : Statuses, cause : Causes]]
    BY <2>1, <2>2 DEF Init
  <2>4. status \in Statuses /\ cause \in Causes /\ stops \in 0 .. MaxStops /\ faults \in 0 .. MaxLogFaults
    BY BoundsAssumption DEF Init, Statuses, Causes
  <2>5. /\ pc \in [Threads -> PCs]
        /\ reported \in [Threads -> BOOLEAN] /\ seq \in Nat
    BY DEF Init, PCs
  <2>6. node \in BOOLEAN /\ open \in BOOLEAN /\ up \in BOOLEAN /\ closed \in BOOLEAN
    BY DEF Init
  <2> QED BY <2>3, <2>4, <2>5, <2>6 DEF TypeOK
<1>2. Init => StopsBounded
  BY DEF Init, StopsBounded
<1> QED
  BY <1>1, <1>2, TypeStep, StopsStep, PTL DEF Spec

-----------------------------------------------------------------------------
(* Final states.                                                           *)

\* Every step of a live process that changes the status of the task found it
\* unfinished, or it is the restart.
LEMMA OnlyLiveTasksMove ==
    ASSUME Next, status' # status PROVE ~Terminal \/ (~up /\ up')
<1> USE DEF memVars
<1>1. ASSUME NEW ok \in BOOLEAN, Dispatch(ok) PROVE ~Terminal
  BY <1>1 DEF Dispatch, Terminal, TerminalStatuses
<1>2. ASSUME NEW ok \in BOOLEAN, RunnerEmits(ok) \/ CancelTask(ok) PROVE ~Terminal
  BY <1>2 DEF RunnerEmits, RunnerActive, CancelTask
<1>3. ASSUME NEW th \in Threads, NEW ok \in BOOLEAN, FailTaskFinalizes(th, ok) PROVE ~Terminal
  BY <1>3 DEF FailTaskFinalizes
<1>4. CASE Restart
  BY <1>4 DEF Restart
<1>5. ASSUME AttributeNode \/ Close \/ Exit \/ Crash \/ Waiting PROVE FALSE
  BY <1>5 DEF AttributeNode, Close, Exit, Crash, Waiting, vars
<1>6. ASSUME NEW th \in Threads, CollectTask(th) \/ FailTaskRecords(th) \/ SyncStep(th) PROVE FALSE
  BY <1>6 DEF CollectTask, FailTaskRecords, SyncStep, SyncCheck, SyncSnapshot, SyncWrite
<1> QED
  BY <1>1, <1>2, <1>3, <1>4, <1>5, <1>6 DEF Next, FailStep

\* A completed, failed or canceled task keeps its state as long as the
\* process lives, whatever its runner, cancel handler and failers still do.
THEOREM FinalStateKept == Spec => TerminalImmutable
<1>1. [Next]_vars => [up /\ up' /\ Terminal => status' = status]_vars
  BY OnlyLiveTasksMove
<1> QED
  BY <1>1, PTL DEF Spec, TerminalImmutable

\* A write of syncTaskToStore that is still on its way carries an outcome
\* only if the task has that outcome.
WritesReal ==
    \A th \in Threads :
        up /\ pc[th] = "write" /\ snapshot[th].status \in TerminalStatuses
        => status = snapshot[th].status

RowInv == TypeOK /\ WritesReal /\ RowOutcomeReal

LEMMA RowStep == RowInv /\ [Next]_vars => WritesReal' /\ RowOutcomeReal'
<1> SUFFICES ASSUME RowInv, [Next]_vars PROVE WritesReal' /\ RowOutcomeReal'
  OBVIOUS
<1>t. /\ pc \in [Threads -> PCs]
      /\ snapshot \in [Threads -> [status : Statuses, cause : Causes]]
      /\ WritesReal /\ RowOutcomeReal
  BY DEF RowInv, TypeOK
<1>f. ASSUME UNCHANGED <<row, snapshot>>, Terminal => status' = status, up' => up,
             \A th \in Threads : pc'[th] = "write" => pc[th] = "write"
      PROVE  WritesReal' /\ RowOutcomeReal'
  BY <1>f, <1>t DEF WritesReal, RowOutcomeReal, Terminal
<1> DEFINE Quiet == /\ UNCHANGED <<row, snapshot>> /\ (Terminal => status' = status) /\ (up' => up)
                    /\ \A th \in Threads : pc'[th] = "write" => pc[th] = "write"
<1> USE DEF memVars, procVars, Goto, Return, ReturnError
<1>1. ASSUME NEW ok \in BOOLEAN, Dispatch(ok) PROVE Quiet
  BY <1>1, <1>t DEF Dispatch, TransitionTo, Terminal, TerminalStatuses
<1>2. ASSUME NEW ok \in BOOLEAN, RunnerEmits(ok) PROVE Quiet
  BY <1>2, <1>t DEF RunnerEmits, RunnerActive, EmitCompletion, EmitError, EmitStatus
<1>3. ASSUME NEW ok \in BOOLEAN, CancelTask(ok) PROVE Quiet
  BY <1>3, <1>t DEF CancelTask
<1>4. ASSUME AttributeNode PROVE Quiet
  BY <1>4, <1>t DEF AttributeNode
<1>5. ASSUME NEW th \in Threads, CollectTask(th) \/ FailTaskRecords(th) PROVE Quiet
  BY <1>5, <1>t DEF CollectTask, FailTaskRecords
<1>6. ASSUME NEW th \in Threads, NEW ok \in BOOLEAN, FailTaskFinalizes(th, ok) PROVE Quiet
  BY <1>6, <1>t DEF FailTaskFinalizes, EmitError, TransitionTo
<1>11. ASSUME NEW th \in Threads, SyncCheck(th) PROVE Quiet
  BY <1>11, <1>t DEF SyncCheck
<1>7. ASSUME NEW th \in Threads, SyncSnapshot(th) PROVE WritesReal' /\ RowOutcomeReal'
  BY <1>7, <1>t DEF SyncSnapshot, WritesReal, RowOutcomeReal
<1>8. ASSUME NEW th \in Threads, SyncWrite(th) PROVE WritesReal' /\ RowOutcomeReal'
  BY <1>8, <1>t DEF SyncWrite, At, WritesReal, RowOutcomeReal
<1>9. CASE Close \/ Exit \/ Crash \/ UNCHANGED vars
  BY <1>9, <1>f DEF Close, Exit, Crash, vars
<1>10. CASE Restart
  BY <1>10, <1>t DEF Restart, WritesReal, RowOutcomeReal
<1> QED
  BY <1>f, <1>1, <1>2, <1>3, <1>4, <1>5, <1>6, <1>7, <1>8, <1>9, <1>10, <1>11 DEF Next, FailStep, SyncStep, Waiting

\* The store never shows an outcome the task does not have, although
\* syncTaskToStore writes after it released the task.
THEOREM StoredOutcomesReal == Spec => []RowOutcomeReal
<1>1. Init => WritesReal /\ RowOutcomeReal
  BY DEF Init, WritesReal, RowOutcomeReal, TerminalStatuses
<1> QED
  BY <1>1, RowStep, TypeCorrect, PTL DEF Spec, RowInv

-----------------------------------------------------------------------------
(* Event streams.                                                          *)

\* No stream survives the process, and no step of a process whose log writes
\* all succeed finishes the task and leaves a stream open.
StreamInv == StreamEnds /\ (up \/ ~open)

LEMMA StreamStep ==
    ASSUME TypeOK, StreamInv, [Next]_vars PROVE StreamInv'
<1>1. ASSUME NEW line, NEW s, NEW ok \in BOOLEAN, EmitLine(line, s, ok), up, UNCHANGED up
      PROVE  StreamInv'
  <2>1. CASE ok
    <3>1. status' = s /\ (s \in TerminalStatuses => ~open')
      BY <1>1, <2>1 DEF EmitLine
    <3> QED BY <1>1, <3>1 DEF StreamInv, StreamEnds, Terminal
  <2>2. CASE ~ok
    <3>1. faults' # 0
      BY <1>1, <2>2 DEF EmitLine, WriteEvent, TypeOK
    <3> QED BY <1>1, <3>1 DEF StreamInv, StreamEnds
  <2> QED BY <2>1, <2>2
<1>2. ASSUME UNCHANGED <<status, open, up, faults>> PROVE StreamInv'
  BY <1>2 DEF StreamInv, StreamEnds, Terminal
<1> USE DEF memVars, procVars
<1>3. ASSUME NEW ok \in BOOLEAN, Dispatch(ok) PROVE StreamInv'
  <2>1. up /\ UNCHANGED up
    BY <1>3 DEF Dispatch, At
  <2> QED BY <1>1, <1>2, <1>3, <2>1 DEF Dispatch, TransitionTo
<1>4. ASSUME NEW ok \in BOOLEAN, RunnerEmits(ok) PROVE StreamInv'
  <2>1. up /\ UNCHANGED up
    BY <1>4 DEF RunnerEmits, RunnerActive, At
  <2> QED BY <1>1, <1>2, <1>4, <2>1 DEF RunnerEmits, EmitCompletion, EmitError, EmitStatus
<1>5. ASSUME NEW ok \in BOOLEAN, CancelTask(ok) PROVE StreamInv'
  BY <1>2, <1>5 DEF CancelTask, StreamInv, StreamEnds
<1>6. ASSUME NEW th \in Threads, NEW ok \in BOOLEAN, FailTaskFinalizes(th, ok) PROVE StreamInv'
  <2>1. up /\ UNCHANGED up
    BY <1>6 DEF FailTaskFinalizes, At
  <2> QED BY <1>1, <1>2, <1>6, <2>1 DEF FailTaskFinalizes, EmitError, TransitionTo
<1>7. ASSUME NEW th \in Threads, CollectTask(th) \/ FailTaskRecords(th) \/ SyncStep(th) PROVE StreamInv'
  BY <1>2, <1>7 DEF CollectTask, FailTaskRecords, SyncStep, SyncCheck, SyncSnapshot, SyncWrite
<1>8. CASE AttributeNode \/ Close \/ UNCHANGED vars
  BY <1>2, <1>8 DEF AttributeNode, Close, vars
<1>9. CASE Exit \/ Crash
  BY <1>9 DEF Exit, Crash, StreamInv, StreamEnds
<1>10. CASE Restart
  BY <1>10 DEF Restart, StreamInv, StreamEnds
<1> QED
  BY <1>3, <1>4, <1>5, <1>6, <1>7, <1>8, <1>9, <1>10 DEF Next, FailStep, Waiting

\* As long as no write of the event log failed, the SSE streams of a finished
\* task are closed, whichever thread finished it.
THEOREM StreamsClosed == Spec => []StreamEnds
<1>1. Init => StreamInv
  BY DEF Init, StreamInv, StreamEnds, Terminal, TerminalStatuses
<1>2. TypeOK /\ StreamInv /\ [Next]_vars => StreamInv'
  BY StreamStep
<1>3. StreamInv => StreamEnds
  BY DEF StreamInv
<1> QED
  BY <1>1, <1>2, <1>3, TypeCorrect, PTL DEF Spec

-----------------------------------------------------------------------------
(* Event ids.                                                              *)

\* What ReadEvents returns is all of the log but a bad last line, so the
\* invariant speaks of the lines themselves: as long as the log can be read,
\* each event has a larger id than all the lines before it, and the counter
\* of a live task has reached every one of them.
Increasing ==
    ~Unreadable(log)
    => \A j \in 1 .. Len(log) : ~Bad(log[j]) => \A i \in 1 .. j - 1 : log[i].id < log[j].id
Counted ==
    ~Unreadable(log) /\ up => \A j \in 1 .. Len(log) : ~Bad(log[j]) => log[j].id <= seq

IdsInv == TypeOK /\ Increasing /\ Counted

\* What one step can do to the log and to the ids it is written with.
Logs == up /\ seq' = seq + 1 /\ \E line \in Lines : ~Bad(line) /\ line.id = seq + 1 /\ log' = Append1(line)
Skips == up /\ seq' = seq + 1 /\ UNCHANGED log
Keeps == UNCHANGED <<seq, log>> /\ (up' => up)
Cuts == log' = Append(log, Torn) /\ (up' => up /\ seq' = seq + 1)

LEMMA LogMoves ==
    ASSUME TypeOK, [Next]_vars PROVE Logs \/ Skips \/ Keeps \/ Cuts \/ Restart
<1> USE DEF memVars, procVars
<1>s. Statuses \subseteq Causes \cup Statuses /\ Threads \cup {"agent", "none"} \subseteq Causes \cup Statuses
      /\ {"queued", "running", "completed", "failed", "canceled"} \subseteq Causes \cup Statuses
  BY DEF Statuses, Causes
<1>w. ASSUME NEW kind \in {"status", "completion", "error"}, NEW what \in Causes \cup Statuses,
             NEW ok \in BOOLEAN, WriteEvent(Event(kind, what), ok), seq' = seq + 1, up
      PROVE  Logs \/ Skips \/ Cuts
  <2>1. Event(kind, what) \in Lines
    BY EventType
  <2>2. ~Bad(Event(kind, what)) /\ Event(kind, what).id = seq + 1
    BY DEF Bad, Event
  <2>3. log' = Append1(Event(kind, what)) \/ log' = log \/ log' = Append(log, Torn)
    BY <1>w DEF WriteEvent, AppendPart
  <2> QED BY <1>w, <2>1, <2>2, <2>3 DEF Logs, Skips, Cuts
<1>e. ASSUME NEW kind \in {"status", "completion", "error"}, NEW what \in Causes \cup Statuses,
             NEW ok \in BOOLEAN, NEW s, EmitLine(Event(kind, what), s, ok), up
      PROVE  Logs \/ Skips \/ Cuts
  BY <1>w, <1>e DEF EmitLine
<1>1. ASSUME NEW ok \in BOOLEAN, Dispatch(ok) PROVE Logs \/ Skips \/ Keeps \/ Cuts
  BY <1>1, <1>s, <1>e DEF Dispatch, At, TransitionTo, Keeps
<1>2. ASSUME NEW ok \in BOOLEAN, RunnerEmits(ok) PROVE Logs \/ Skips \/ Cuts
  <2>1. up
    BY <1>2 DEF RunnerEmits, RunnerActive, At
  <2>2. CASE EmitCompletion(ok) \/ EmitError("runner", "agent", ok)
    BY <1>s, <1>e, <2>1, <2>2 DEF EmitCompletion, EmitError
  <2>3. ASSUME NEW s \in Statuses, EmitStatus(s, ok) PROVE Logs \/ Skips \/ Cuts
    BY <1>s, <1>e, <2>1, <2>3 DEF EmitStatus, Skips
  <2> QED BY <1>2, <2>2, <2>3 DEF RunnerEmits
<1>3. ASSUME NEW ok \in BOOLEAN, CancelTask(ok) PROVE Logs \/ Skips \/ Keeps \/ Cuts
  BY <1>3, <1>s, <1>w DEF CancelTask, At, Keeps
<1>4. ASSUME NEW th \in Threads, NEW ok \in BOOLEAN, FailTaskFinalizes(th, ok)
      PROVE  Logs \/ Skips \/ Keeps \/ Cuts
  <2>1. up /\ UNCHANGED up
    BY <1>4 DEF FailTaskFinalizes, At
  <2>2. CASE EmitError(th, th, ok) \/ TransitionTo(th, "failed", ok)
    BY <1>s, <1>e, <2>1, <2>2 DEF EmitError, TransitionTo
  <2>3. CASE UNCHANGED <<status, cause, seq, log, open, faults>>
    BY <2>1, <2>3 DEF Keeps
  <2> QED BY <1>4, <2>2, <2>3 DEF FailTaskFinalizes
<1>5. ASSUME NEW th \in Threads, CollectTask(th) \/ FailTaskRecords(th) \/ SyncStep(th) PROVE Keeps
  BY <1>5 DEF CollectTask, FailTaskRecords, SyncStep, SyncCheck, SyncSnapshot, SyncWrite, Keeps
<1>6. CASE AttributeNode \/ Close \/ Exit \/ UNCHANGED vars
  BY <1>6 DEF AttributeNode, Close, Exit, vars, Keeps
<1>7. CASE Crash
  BY <1>7 DEF Crash, AppendPart, Keeps, Cuts
<1> QED
  BY <1>1, <1>2, <1>3, <1>4, <1>5, <1>6, <1>7 DEF Next, FailStep, Waiting

\* A bad line that is not the last stays where it is: nothing makes an
\* unreadable log readable again.
LEMMA AppendKeepsLines ==
    ASSUME NEW lines \in Seq(Lines), NEW line \in Lines, ~Unreadable(Append(lines, line))
    PROVE  /\ ~Unreadable(lines)
           /\ \A j \in 1 .. Len(lines) : ~Bad(lines[j]) /\ Append(lines, line)[j] = lines[j]
           /\ Len(Append(lines, line)) = Len(lines) + 1 /\ Append(lines, line)[Len(lines) + 1] = line
<1>1. PICK n \in Nat : n = Len(lines)
  OBVIOUS
<1>2. /\ Len(Append(lines, line)) = n + 1 /\ Append(lines, line)[n + 1] = line
      /\ \A j \in 1 .. n : Append(lines, line)[j] = lines[j]
  BY <1>1, AppendProperties
<1>3. \A j \in 1 .. n : ~Bad(lines[j])
  BY <1>1, <1>2 DEF Unreadable
<1> QED BY <1>1, <1>2, <1>3 DEF Unreadable

\* Appending to a line that a crash cut short spoils that line only.
LEMMA GarbleKeepsLines ==
    ASSUME NEW lines \in Seq(Lines), lines # <<>>
    PROVE  /\ Len(ReplaceAt(lines, Len(lines), Garbled)) = Len(lines)
           /\ \A j \in 1 .. Len(lines) - 1 : ReplaceAt(lines, Len(lines), Garbled)[j] = lines[j]
           /\ ReplaceAt(lines, Len(lines), Garbled)[Len(lines)] = Garbled
BY DEF ReplaceAt

LEMMA IdsStep == IdsInv /\ [Next]_vars => Increasing' /\ Counted'
<1> SUFFICES ASSUME IdsInv, [Next]_vars PROVE Increasing' /\ Counted'
  OBVIOUS
<1>t. /\ log \in Seq(Lines) /\ seq \in Nat /\ Increasing /\ Counted
      /\ \A j \in 1 .. Len(log) : log[j].id \in Nat
  <2>1. log \in Seq(Lines) /\ seq \in Nat /\ Increasing /\ Counted
    BY DEF IdsInv, TypeOK
  <2>2. \A j \in 1 .. Len(log) : log[j] \in Lines
    BY <2>1
  <2> QED BY <2>1, <2>2 DEF Lines
<1>n. PICK n \in Nat : n = Len(log)
  BY <1>t
<1>1. CASE Logs
  <2>1. PICK line \in Lines : ~Bad(line) /\ line.id = seq + 1 /\ log' = Append1(line)
    BY <1>1 DEF Logs
  <2>2. CASE log # <<>> /\ Last(log) = Torn
    <3>1. /\ Len(log') = n /\ (\A j \in 1 .. n - 1 : log'[j] = log[j]) /\ log'[n] = Garbled
      BY <1>t, <1>n, <2>1, <2>2, GarbleKeepsLines DEF Append1
    <3>2. Unreadable(log)' <=> Unreadable(log)
      BY <1>n, <3>1 DEF Unreadable
    <3>3. \A j \in 1 .. n : ~Bad(log'[j]) => j \in 1 .. n - 1 /\ log'[j] = log[j]
      BY <3>1 DEF Bad, Garbled
    <3>4. Increasing'
      BY <1>t, <1>n, <3>1, <3>2, <3>3, SMTT(30) DEF Increasing
    <3>5. Counted'
      BY <1>1, <1>t, <1>n, <3>1, <3>2, <3>3 DEF Counted, Logs
    <3> QED BY <3>4, <3>5
  <2>3. CASE ~(log # <<>> /\ Last(log) = Torn)
    <3>1. log' = Append(log, line)
      BY <2>1, <2>3 DEF Append1
    <3> SUFFICES ASSUME ~Unreadable(log') PROVE Increasing' /\ Counted'
      BY DEF Increasing, Counted
    <3>2. /\ ~Unreadable(log) /\ (\A j \in 1 .. n : ~Bad(log[j]) /\ log'[j] = log[j])
          /\ Len(log') = n + 1 /\ log'[n + 1] = line
      BY <1>t, <1>n, <2>1, <3>1, AppendKeepsLines
    <3>3. \A j \in 1 .. n : log[j].id \in Nat /\ log[j].id <= seq /\ \A i \in 1 .. j - 1 : log[i].id < log[j].id
      BY <1>1, <1>t, <1>n, <3>2 DEF Logs, Increasing, Counted
    <3>4. \A j \in 1 .. n + 1 : log'[j].id <= seq + 1 /\ \A i \in 1 .. j - 1 : log'[i].id < log'[j].id
      BY <1>t, <2>1, <3>2, <3>3, SMTT(30)
    <3> QED BY <1>1, <3>2, <3>4 DEF Logs, Increasing, Counted
  <2> QED BY <2>2, <2>3
<1>2. CASE Skips \/ Keeps
  BY <1>2, <1>t, SMTT(30) DEF Skips, Keeps, Increasing, Counted
<1>3. CASE Cuts
  <2> SUFFICES ASSUME ~Unreadable(log') PROVE Increasing' /\ Counted'
    BY DEF Increasing, Counted
  <2>1. Torn \in Lines /\ Bad(Torn)
    BY DEF Torn, Lines, Causes, Bad
  <2>2. /\ ~Unreadable(log) /\ (\A j \in 1 .. n : log'[j] = log[j])
        /\ Len(log') = n + 1 /\ log'[n + 1] = Torn
    BY <1>t, <1>n, <1>3, <2>1, AppendKeepsLines DEF Cuts
  <2>3. Increasing'
    BY <1>t, <1>n, <2>1, <2>2 DEF Increasing
  <2>4. Counted'
    BY <1>t, <1>n, <1>3, <2>1, <2>2 DEF Counted, Cuts
  <2> QED BY <2>3, <2>4
<1>4. CASE Restart
  <2>1. log' = log /\ seq' = LastEventID(log) /\ Increasing'
    BY <1>4, <1>t DEF Restart, Increasing
  <2> SUFFICES ASSUME ~Unreadable(log), NEW j \in 1 .. n, ~Bad(log[j]) PROVE log[j].id <= LastEventID(log)
    BY <1>n, <2>1 DEF Counted
  <2>2. log # <<>> /\ n # 0
    BY <1>t, <1>n
  <2>3. Last(log) = log[n] /\ Front(log) = SubSeq(log, 1, n - 1)
    BY <1>n DEF Last, Front
  <2>4. CASE Bad(log[n])
    <3>1. j \in 1 .. n - 1 /\ ReadEvents(log) = SubSeq(log, 1, n - 1)
      BY <1>n, <2>2, <2>3, <2>4 DEF ReadEvents
    <3>2. Len(SubSeq(log, 1, n - 1)) = n - 1 /\ SubSeq(log, 1, n - 1)[n - 1] = log[n - 1]
      BY <1>t, <1>n, <3>1, SubSeqProperties
    <3>3. LastEventID(log) = log[n - 1].id
      <4>1. SubSeq(log, 1, n - 1) # <<>>
        <5>1. n - 1 # 0 /\ Len(<<>>) = 0
          BY <3>1
        <5> QED BY <3>2, <5>1, Zenon
      <4> QED BY <3>1, <3>2, <4>1 DEF LastEventID, Last
    <3>4. ~Bad(log[n - 1])
      BY <1>n, <3>1 DEF Unreadable
    <3> QED BY <1>t, <1>n, <3>1, <3>3, <3>4 DEF Increasing
  <2>5. CASE ~Bad(log[n])
    <3>1. LastEventID(log) = log[n].id
      BY <1>n, <2>2, <2>3, <2>5 DEF ReadEvents, LastEventID
    <3> QED BY <1>t, <1>n, <2>2, <2>5, <3>1 DEF Increasing
  <2> QED BY <2>4, <2>5
<1> QED
  BY <1>1, <1>2, <1>3, <1>4, LogMoves DEF IdsInv

\* The event ids a reader of the log sees increase strictly, across crashes
\* that cut a line short and restarts that take the counter from the log, and
\* no event of a live task has an id the counter is still to give out.
THEOREM EventIdsIncrease == Spec => []LogIdsIncrease
<1>1. Init => Increasing /\ Counted
  BY DEF Init, Increasing, Counted
<1>2. IdsInv => LogIdsIncrease
  <2> SUFFICES ASSUME IdsInv, ReadEvents(log) # <<>> PROVE LogIdsIncrease
    BY DEF LogIdsIncrease
  <2>1. log \in Seq(Lines) /\ Increasing /\ Counted
    BY DEF IdsInv, TypeOK
  <2>2. PICK n \in Nat : n = Len(log)
    BY <2>1
  <2>3. log # <<>> /\ ~Unreadable(log)
    BY DEF ReadEvents
  <2>4. \A j \in 1 .. n - 1 : ~Bad(log[j])
    BY <2>2, <2>3 DEF Unreadable
  <2>5. \E m \in Nat : /\ m <= n /\ Len(ReadEvents(log)) = m
                       /\ \A j \in 1 .. m : ReadEvents(log)[j] = log[j] /\ ~Bad(log[j])
    <3>1. Last(log) = log[n] /\ Front(log) = SubSeq(log, 1, n - 1) /\ n # 0
      BY <2>1, <2>2, <2>3 DEF Last, Front
    <3>2. CASE Bad(log[n])
      <4>1. ReadEvents(log) = SubSeq(log, 1, n - 1)
        BY <2>3, <3>1, <3>2 DEF ReadEvents
      <4>2. Len(SubSeq(log, 1, n - 1)) = n - 1 /\ \A j \in 1 .. n - 1 : SubSeq(log, 1, n - 1)[j] = log[j]
        BY <2>1, <2>2, <3>1, SubSeqProperties
      <4> QED BY <2>2, <2>4, <3>1, <4>1, <4>2
    <3>3. CASE ~Bad(log[n])
      BY <2>2, <2>3, <2>4, <3>1, <3>3 DEF ReadEvents
    <3> QED BY <3>2, <3>3
  <2>6. PICK m \in Nat : /\ m <= n /\ Len(ReadEvents(log)) = m
                         /\ \A j \in 1 .. m : ReadEvents(log)[j] = log[j] /\ ~Bad(log[j])
    BY <2>5
  <2>7. \A j \in 1 .. m : /\ up => log[j].id <= seq
                          /\ \A i \in 1 .. j - 1 : log[i].id < log[j].id
    BY <2>1, <2>2, <2>3, <2>6 DEF Increasing, Counted
  <2> QED BY <2>6, <2>7 DEF LogIdsIncrease
<1> QED
  BY <1>1, <1>2, IdsStep, TypeCorrect, PTL DEF Spec, IdsInv

=============================================================================
