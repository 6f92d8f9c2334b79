------------------------- MODULE MeshDispatchProofs -------------------------
(***************************************************************************)
(* Theorems about MeshDispatch, for any tasks, nodes, slots, retries and   *)
(* number of disturbances.                                                 *)
(***************************************************************************)
EXTENDS MeshDispatch, FiniteSetTheorems, SequenceTheorems, TLAPS

-----------------------------------------------------------------------------
(* Types.                                                                  *)

Items == {"200", "429", "401", "status", "completed", "failed", "eof"}
Jobs == {"none", "arrived", "queued", "executing", "refused", "expired",
         "ended", "killed", "lost", "dropped"}
Contacted == {"dial", "unreachable", "sent", "stream"}

\* A reservation and a call have a node.
Placed ==
    /\ \A t \in Tasks : pc[t] \in Contacted => target[t] \in Nodes
    /\ \A c \in Calls : job[c] # "none" => at[c] \in Nodes

\* A call is an offer of one Run of one task.
LEMMA CallsAre ==
    \A c : c \in Calls <=> \E t \in Tasks : \E r \in 0 .. MaxRetries[t], i \in 1 .. meshDispatchAttempts : c = <<t, r, i>>
  BY DEF Calls

LEMMA CallIsCall == TypeOK => \A t \in Tasks : Call(t) \in Calls
<1> SUFFICES ASSUME TypeOK, NEW t \in Tasks PROVE Call(t) \in Calls
  OBVIOUS
<1>1. retries[t] \in 0 .. MaxRetries[t] /\ attempt[t] \in 1 .. meshDispatchAttempts
  BY WorkerAssumption, BoundsAssumption DEF TypeOK
<1> QED BY <1>1, CallsAre DEF Call

LEMMA CallFields ==
    \A c \in Calls : /\ c = <<c[1], c[2], c[3]>>
                     /\ c[1] \in Tasks /\ c[2] \in 0 .. MaxRetries[c[1]] /\ c[3] \in 1 .. meshDispatchAttempts
  BY CallsAre

LEMMA OneItem == \A x \in Items : <<x>> \in Seq(Items)
  OBVIOUS

LEMMA ReadType ==
    ASSUME TypeOK, NEW t \in Tasks, wire[Call(t)] # <<>>
    PROVE  Next1(t) \in Items /\ (Pop(t) => wire' \in [Calls -> Seq(Items)])
<1>1. wire[Call(t)] \in Seq(Items) /\ Call(t) \in Calls
  BY CallIsCall DEF TypeOK, Items
<1>2. Head(wire[Call(t)]) \in Items /\ Tail(wire[Call(t)]) \in Seq(Items)
  BY <1>1, HeadTailProperties
<1> QED BY <1>1, <1>2 DEF Next1, Pop, TypeOK, Items

LEMMA HangupType ==
    ASSUME TypeOK, NEW t \in Tasks, Hangup(t)
    PROVE  wire' \in [Calls -> Seq(Items)] /\ link' \in [Calls -> BOOLEAN]
<1>1. <<>> \in Seq(Items) /\ Call(t) \in Calls
  BY CallIsCall
<1> QED BY <1>1 DEF Hangup, TypeOK, Items

LEMMA SendType ==
    ASSUME TypeOK, NEW c \in Calls, NEW items \in Seq(Items), Send(c, items)
    PROVE  wire' \in [Calls -> Seq(Items)]
<1>1. wire[c] \in Seq(Items) /\ wire[c] \o items \in Seq(Items)
  BY ConcatProperties DEF TypeOK, Items
<1> QED BY <1>1 DEF Send, TypeOK, Items

\* What the end of a Run does to a task.
LEMMA RunErrorType ==
    ASSUME TypeOK, NEW t \in Tasks, NEW retryable \in BOOLEAN, RunError(t, retryable)
    PROVE  /\ outcome' \in [Tasks -> {"running", "completed", "failed", "canceled"}]
           /\ retries' \in [Tasks -> Nat] /\ \A u \in Tasks : retries'[u] <= MaxRetries[u]
           /\ pc' \in [Tasks -> {"idle", "select", "local", "dial", "unreachable", "sent", "stream",
                                 "backoff", "done"}]
           /\ pc'[t] \in {"backoff", "done"} /\ \A u \in Tasks \ {t} : pc'[u] = pc[u]
<1> USE WorkerAssumption DEF TypeOK, Goto, Settle
<1>1. CASE pc' = [pc EXCEPT ![t] = "done"] /\ UNCHANGED <<outcome, retries>>
  BY <1>1
<1>2. CASE /\ retries[t] < MaxRetries[t] /\ retries' = [retries EXCEPT ![t] = @ + 1]
           /\ pc' = [pc EXCEPT ![t] = "backoff"] /\ UNCHANGED outcome
  BY <1>2
<1>3. CASE outcome' = [outcome EXCEPT ![t] = "failed"] /\ pc' = [pc EXCEPT ![t] = "done"] /\ UNCHANGED retries
  BY <1>3
<1> QED BY <1>1, <1>2, <1>3, Zenon DEF RunError

LEMMA NextAttemptType ==
    ASSUME TypeOK, NEW t \in Tasks, NextAttempt(t)
    PROVE  /\ outcome' \in [Tasks -> {"running", "completed", "failed", "canceled"}]
           /\ retries' \in [Tasks -> Nat] /\ \A u \in Tasks : retries'[u] <= MaxRetries[u]
           /\ pc' \in [Tasks -> {"idle", "select", "local", "dial", "unreachable", "sent", "stream",
                                 "backoff", "done"}]
           /\ pc'[t] \in {"select", "backoff", "done"} /\ \A u \in Tasks \ {t} : pc'[u] = pc[u]
           /\ attempt' \in [Tasks -> 1 .. meshDispatchAttempts]
<1>1. CASE attempt[t] < meshDispatchAttempts
  <2>1. attempt[t] + 1 \in 1 .. meshDispatchAttempts
    BY <1>1, BoundsAssumption DEF TypeOK
  <2>2. /\ attempt' = [attempt EXCEPT ![t] = @ + 1] /\ pc' = [pc EXCEPT ![t] = "select"]
        /\ outcome' = outcome /\ retries' = retries
    BY <1>1, Zenon DEF NextAttempt, Goto
  <2> QED BY <2>1, <2>2 DEF TypeOK
<1>2. CASE ~(attempt[t] < meshDispatchAttempts)
  BY <1>2, RunErrorType, ZenonT(30) DEF NextAttempt, TypeOK
<1> QED BY <1>1, <1>2

\* A reservation that is given back.
LEMMA ReleaseType ==
    ASSUME TypeOK, Placed, NEW t \in Tasks, pc[t] \in Contacted, Release(t)
    PROVE  inFlight' \in [Nodes -> Nat]
  BY DEF TypeOK, Placed, Release

-----------------------------------------------------------------------------
(* The inductive invariant: who holds a slot, and which call is whose.     *)

Holders(n) == {t \in Tasks : InExchange(t) /\ target[t] = n}
Executing(n) == {c \in Calls : at[c] = n /\ job[c] = "executing"}
Queued(n) == {c \in Calls : at[c] = n /\ job[c] = "queued"}

\* Registry.inFlight, and the two semaphores of each worker.
Reserved == \A n \in Nodes : IsFiniteSet(Holders(n)) /\ inFlight[n] = Cardinality(Holders(n))
SlotsTaken ==
    \A n \in Nodes :
        /\ IsFiniteSet(Executing(n)) /\ sem[n] = Cardinality(Executing(n)) /\ sem[n] <= Concurrency[n]
        /\ IsFiniteSet(Queued(n)) /\ queueSem[n] = Cardinality(Queued(n)) /\ queueSem[n] <= QueueSize[n]

LEMMA SlotHeld ==
    ASSUME Placed, SlotsTaken, TypeOK, NEW c \in Calls
    PROVE  /\ job[c] = "executing" => sem[at[c]] > 0
           /\ job[c] = "queued" => queueSem[at[c]] > 0
<1>1. ASSUME job[c] = "executing" PROVE sem[at[c]] > 0
  <2>1. at[c] \in Nodes /\ c \in Executing(at[c])
    BY <1>1 DEF Placed, Executing
  <2>2. Cardinality(Executing(at[c])) # 0
    BY <2>1, FS_EmptySet DEF SlotsTaken
  <2> QED BY <2>1, <2>2 DEF SlotsTaken, TypeOK
<1>2. ASSUME job[c] = "queued" PROVE queueSem[at[c]] > 0
  <2>1. at[c] \in Nodes /\ c \in Queued(at[c])
    BY <1>2 DEF Placed, Queued
  <2>2. Cardinality(Queued(at[c])) # 0
    BY <2>1, FS_EmptySet DEF SlotsTaken
  <2> QED BY <2>1, <2>2 DEF SlotsTaken, TypeOK
<1> QED BY <1>1, <1>2

\* The parts of TypeOK: registry, runners, workers, bounds.
RegTypes ==
    /\ status \in [Nodes -> {"absent", "online", "degraded", "offline"}]
    /\ beat \in [Nodes -> {"fresh", "late", "dead"}]
    /\ active \in [Nodes -> Nat] /\ inFlight \in [Nodes -> Nat]
    /\ older \subseteq Nodes \X Nodes /\ doomed \in SUBSET Nodes
RunTypes ==
    /\ outcome \in [Tasks -> {"running", "completed", "failed", "canceled"}]
    /\ node \in [Tasks -> Nodes \cup {None}]
    /\ retries \in [Tasks -> Nat] /\ \A t \in Tasks : retries[t] <= MaxRetries[t]
    /\ pc \in [Tasks -> {"idle", "select", "local", "dial", "unreachable", "sent", "stream",
                         "backoff", "done"}]
    /\ attempt \in [Tasks -> 1 .. meshDispatchAttempts]
    /\ target \in [Tasks -> Nodes \cup {None}] /\ saw \in [Tasks -> BOOLEAN]
WorkTypes ==
    /\ alive \in [Nodes -> BOOLEAN]
    /\ sem \in [Nodes -> Nat] /\ queueSem \in [Nodes -> Nat]
    /\ job \in [Calls -> Jobs] /\ at \in [Calls -> Nodes \cup {None}]
    /\ link \in [Calls -> BOOLEAN] /\ wire \in [Calls -> Seq(Items)]
BoundTypes == faults \in 0 .. MaxFaults /\ sinkFault \in BOOLEAN

LEMMA TypeParts == TypeOK <=> RegTypes /\ RunTypes /\ WorkTypes /\ BoundTypes
  BY DEF TypeOK, RegTypes, RunTypes, WorkTypes, BoundTypes, Jobs, Items

LEMMA RegTypesStep == TypeOK /\ Placed /\ [Next]_vars => RegTypes'
<1> SUFFICES ASSUME TypeOK, Placed, [Next]_vars PROVE RegTypes'
  OBVIOUS
<1> USE TypeParts DEF regVars, runVars, workVars, bounds
<1>1. ASSUME UNCHANGED regVars PROVE RegTypes'
  BY <1>1 DEF RegTypes
<1>2. ASSUME NEW t \in Tasks, SelectAndReserve(t) PROVE RegTypes'
  BY <1>2 DEF SelectAndReserve, Candidates, Matching, RegTypes
<1>3. ASSUME NEW t \in Tasks, pc[t] \in Contacted, Release(t), UNCHANGED <<status, beat, active, older, doomed>>
      PROVE  RegTypes'
  BY <1>3, ReleaseType DEF RegTypes
<1>4. ASSUME NEW t \in Tasks, DialFails(t) \/ ReadBroken(t) \/ ContextDone(t) \/ ReadResponse(t) \/ ReadEvent(t)
      PROVE  RegTypes'
  <2>1. pc[t] \in Contacted /\ UNCHANGED <<status, beat, active, older, doomed>> /\ (Release(t) \/ UNCHANGED inFlight)
    BY <1>4 DEF DialFails, ReadBroken, ContextDone, ReadResponse, ReadEvent, Contacted
  <2> QED BY <1>1, <1>3, <2>1
<1>5. ASSUME NEW t \in Tasks, MarkNodeUnreachable(t) PROVE RegTypes'
  BY <1>5 DEF MarkNodeUnreachable, RegTypes, Placed, Contacted
<1>6. ASSUME NEW n \in Nodes, RegisterNode(n) \/ TimePasses(n) \/ RevokeNode(n) \/ FailTasksOfNode(n) PROVE RegTypes'
  BY <1>6 DEF RegisterNode, TimePasses, RevokeNode, FailTasksOfNode, RegTypes
<1>7. ASSUME NEW n \in Nodes, Heartbeat(n) PROVE RegTypes'
  BY <1>7 DEF Heartbeat, RegTypes, WorkTypes
<1>8. CASE PruneStaleNodes \/ ListOfflineNodes
  BY <1>8 DEF PruneStaleNodes, ListOfflineNodes, RegTypes
<1>9. ASSUME NEW t \in Tasks, StartRun(t) \/ BackoffAborted(t) \/ NoNode(t) \/ LocalRun(t) \/ DialSucceeds(t) \/ CancelTask(t)
      PROVE  UNCHANGED regVars
  BY <1>9 DEF StartRun, BackoffAborted, NoNode, LocalRun, DialSucceeds, CancelTask
<1>10. ASSUME NEW c \in Calls, WorkerStep(c) \/ LinkDies(c) \/ LinkCut(c) PROVE UNCHANGED regVars
  BY <1>10 DEF WorkerStep, Admit, TakeSlot, QueueTimeout, QueueAborted, Finish, LinkDies, LinkCut, Break
<1>11. ASSUME NEW n \in Nodes, WorkerDies(n) \/ WorkerRestarts(n) PROVE UNCHANGED regVars
  BY <1>11 DEF WorkerDies, WorkerRestarts
<1>12. CASE UNCHANGED vars
  BY <1>1, <1>12 DEF vars
<1> QED BY <1>1, <1>2, <1>4, <1>5, <1>6, <1>7, <1>8, <1>9, <1>10, <1>11, <1>12 DEF Next, RunnerStep, RegistryStep

LEMMA RunTypesStep == TypeOK /\ Placed /\ [Next]_vars => RunTypes'
<1> SUFFICES ASSUME TypeOK, Placed, [Next]_vars PROVE RunTypes'
  OBVIOUS
<1> USE TypeParts DEF regVars, runVars, workVars, bounds
<1>1. ASSUME UNCHANGED runVars PROVE RunTypes'
  BY <1>1 DEF RunTypes
<1>2. ASSUME NEW t \in Tasks, StartRun(t) PROVE RunTypes'
  <2>1. 1 \in 1 .. meshDispatchAttempts
    BY BoundsAssumption
  <2> QED BY <1>2, <2>1 DEF StartRun, Goto, RunTypes
<1>3. ASSUME NEW t \in Tasks, BackoffAborted(t) \/ ContextDone(t) \/ CancelTask(t) PROVE RunTypes'
  BY <1>3 DEF BackoffAborted, ContextDone, CancelTask, Goto, Settle, RunTypes
<1>4. ASSUME NEW t \in Tasks, SelectAndReserve(t) PROVE RunTypes'
  BY <1>4 DEF SelectAndReserve, Candidates, Matching, Goto, RunTypes
<1>5. ASSUME NEW t \in Tasks, NEW x \in BOOLEAN, RunError(t, x), UNCHANGED <<attempt, target, saw>>,
             node' \in [Tasks -> Nodes \cup {None}]
      PROVE  RunTypes'
  BY <1>5, RunErrorType DEF RunTypes
<1>6. ASSUME NEW t \in Tasks, NextAttempt(t), UNCHANGED <<node, target, saw>> PROVE RunTypes'
  BY <1>6, NextAttemptType DEF RunTypes
<1>7. ASSUME NEW t \in Tasks, NoNode(t) PROVE RunTypes'
  <2>1. CASE Goto(t, "local") /\ UNCHANGED <<outcome, retries>>
    BY <1>7, <2>1 DEF NoNode, Goto, RunTypes
  <2>2. CASE RunError(t, TRUE)
    BY <1>5, <1>7, <2>2 DEF NoNode, RunTypes
  <2> QED BY <1>7, <2>1, <2>2 DEF NoNode
<1>8. ASSUME NEW t \in Tasks, LocalRun(t) PROVE RunTypes'
  <2>1. CASE Goto(t, "done") /\ UNCHANGED retries /\ \E o \in {"completed", "failed"} : Settle(t, o)
    BY <1>8, <2>1 DEF LocalRun, Goto, Settle, RunTypes
  <2>2. CASE RunError(t, TRUE)
    BY <1>5, <1>8, <2>2 DEF LocalRun, RunTypes
  <2> QED BY <1>8, <2>1, <2>2 DEF LocalRun
<1>9. ASSUME NEW t \in Tasks, DialFails(t) \/ DialSucceeds(t) PROVE RunTypes'
  BY <1>9 DEF DialFails, DialSucceeds, Goto, RunTypes
<1>10. ASSUME NEW t \in Tasks, MarkNodeUnreachable(t) PROVE RunTypes'
  BY <1>6, <1>10 DEF MarkNodeUnreachable
<1>11. ASSUME NEW t \in Tasks, ReadResponse(t) PROVE RunTypes'
  <2>1. CASE Goto(t, "stream") /\ UNCHANGED <<outcome, retries, attempt>>
    BY <1>11, <2>1 DEF ReadResponse, Goto, RunTypes
  <2>2. CASE NextAttempt(t)
    BY <1>6, <1>11, <2>2 DEF ReadResponse
  <2>3. CASE RunError(t, TRUE) /\ UNCHANGED attempt
    BY <1>5, <1>11, <2>3 DEF ReadResponse, RunTypes
  <2> QED BY <1>11, <2>1, <2>2, <2>3 DEF ReadResponse
<1>12. ASSUME NEW t \in Tasks, ReadEvent(t) PROVE RunTypes'
  <2>1. UNCHANGED <<attempt, target>> /\ wire[Call(t)] # <<>> /\ pc[t] \in Contacted
    BY <1>12 DEF ReadEvent, Contacted
  <2>2. AttributeNode(t) \/ UNCHANGED node
    BY <1>12 DEF ReadEvent
  <2>3. node' \in [Tasks -> Nodes \cup {None}]
    BY <2>1, <2>2 DEF AttributeNode, Placed, RunTypes
  <2>4. CASE saw' = [saw EXCEPT ![t] = TRUE] /\ UNCHANGED <<outcome, retries, pc>>
    BY <2>1, <2>3, <2>4 DEF RunTypes
  <2>5. CASE UNCHANGED saw /\ (RunError(t, TRUE) \/ RunError(t, FALSE))
    BY <1>5, <2>1, <2>3, <2>5
  <2>6. CASE Next1(t) \in {"completed", "failed"} /\ Settle(t, Next1(t)) /\ Goto(t, "done") /\ UNCHANGED <<retries, saw>>
    BY <2>1, <2>3, <2>6 DEF Settle, Goto, RunTypes
  <2> QED BY <1>12, <2>4, <2>5, <2>6 DEF ReadEvent
<1>13. ASSUME NEW t \in Tasks, ReadBroken(t) PROVE RunTypes'
  <2>1. \E x \in BOOLEAN : RunError(t, x)
    BY <1>13, Zenon DEF ReadBroken
  <2> QED BY <1>5, <1>13, <2>1 DEF ReadBroken, RunTypes
<1>14. ASSUME NEW n \in Nodes, FailTasksOfNode(n) PROVE RunTypes'
  BY <1>14 DEF FailTasksOfNode, RunTypes
<1>15. ASSUME NEW c \in Calls, WorkerStep(c) \/ LinkDies(c) \/ LinkCut(c) PROVE UNCHANGED runVars
  BY <1>15 DEF WorkerStep, Admit, TakeSlot, QueueTimeout, QueueAborted, Finish, LinkDies, LinkCut, Break
<1>16. ASSUME NEW n \in Nodes,
              WorkerDies(n) \/ WorkerRestarts(n) \/ RegisterNode(n) \/ Heartbeat(n) \/ TimePasses(n) \/ RevokeNode(n)
       PROVE  UNCHANGED runVars
  BY <1>16 DEF WorkerDies, WorkerRestarts, RegisterNode, Heartbeat, TimePasses, RevokeNode
<1>17. ASSUME PruneStaleNodes \/ ListOfflineNodes \/ UNCHANGED vars PROVE UNCHANGED runVars
  BY <1>17 DEF PruneStaleNodes, ListOfflineNodes, vars
<1> QED BY <1>1, <1>2, <1>3, <1>4, <1>7, <1>8, <1>9, <1>10, <1>11, <1>12, <1>13, <1>14, <1>15, <1>16, <1>17
        DEF Next, RunnerStep, RegistryStep

\* The semaphores of a worker.
LEMMA SemTypes ==
    ASSUME TypeOK, Placed, SlotsTaken, NEW c \in Calls, job[c] # "none"
    PROVE  /\ [sem EXCEPT ![at[c]] = @ + 1] \in [Nodes -> Nat]
           /\ [queueSem EXCEPT ![at[c]] = @ + 1] \in [Nodes -> Nat]
           /\ job[c] = "executing" => [sem EXCEPT ![at[c]] = @ - 1] \in [Nodes -> Nat]
           /\ job[c] = "queued" => [queueSem EXCEPT ![at[c]] = @ - 1] \in [Nodes -> Nat]
<1>1. at[c] \in Nodes /\ sem \in [Nodes -> Nat] /\ queueSem \in [Nodes -> Nat]
  BY DEF Placed, TypeOK
<1>2. (job[c] = "executing" => sem[at[c]] - 1 \in Nat) /\ (job[c] = "queued" => queueSem[at[c]] - 1 \in Nat)
  BY <1>1, SlotHeld
<1> QED BY <1>1, <1>2

LEMMA WorkTypesStep == TypeOK /\ Placed /\ SlotsTaken /\ [Next]_vars => WorkTypes'
<1> SUFFICES ASSUME TypeOK, Placed, SlotsTaken, [Next]_vars PROVE WorkTypes'
  OBVIOUS
<1> USE TypeParts DEF regVars, runVars, workVars, bounds
<1>1. ASSUME UNCHANGED workVars PROVE WorkTypes'
  BY <1>1 DEF WorkTypes
<1>2. ASSUME NEW t \in Tasks, Pop(t), wire[Call(t)] # <<>>, UNCHANGED <<alive, sem, queueSem, job, at, link>> PROVE WorkTypes'
  BY <1>2, ReadType DEF WorkTypes
<1>3. ASSUME NEW t \in Tasks, Hangup(t), UNCHANGED <<alive, sem, queueSem, job, at>> PROVE WorkTypes'
  BY <1>3, HangupType DEF WorkTypes
<1>4. ASSUME NEW t \in Tasks, ReadResponse(t) \/ ReadEvent(t) \/ ContextDone(t) PROVE WorkTypes'
  <2>1. UNCHANGED <<alive, sem, queueSem, job, at>> /\ (Hangup(t) \/ (UNCHANGED link /\ Pop(t) /\ wire[Call(t)] # <<>>))
    BY <1>4 DEF ReadResponse, ReadEvent, ContextDone
  <2> QED BY <1>2, <1>3, <2>1
<1>5. ASSUME NEW t \in Tasks, DialSucceeds(t) PROVE WorkTypes'
  <2>1. Call(t) \in Calls /\ target[t] \in Nodes \cup {None}
    BY CallIsCall DEF RunTypes
  <2> QED BY <1>5, <2>1 DEF DialSucceeds, WorkTypes, Jobs
<1>6. ASSUME NEW c \in Calls, Admit(c) PROVE WorkTypes'
  <2>1. \E items \in Seq(Items) : Send(c, items)
    <3>1. <<"429">> \in Seq(Items) /\ <<"401">> \in Seq(Items) /\ <<"200", "status">> \in Seq(Items)
      BY DEF Items
    <3> QED BY <1>6, <3>1 DEF Admit
  <2>2. wire' \in [Calls -> Seq(Items)]
    BY <2>1, SendType
  <2>4. UNCHANGED <<alive, at, link>> /\ sem' \in [Nodes -> Nat] /\ queueSem' \in [Nodes -> Nat]
    <3>1. sem' \in {sem, [sem EXCEPT ![at[c]] = @ + 1]} /\ queueSem' \in {queueSem, [queueSem EXCEPT ![at[c]] = @ + 1]}
      BY <1>6 DEF Admit
    <3>2. job[c] # "none" /\ UNCHANGED <<alive, at, link>>
      BY <1>6 DEF Admit
    <3>3. [sem EXCEPT ![at[c]] = @ + 1] \in [Nodes -> Nat] /\ [queueSem EXCEPT ![at[c]] = @ + 1] \in [Nodes -> Nat]
      BY <3>2, SemTypes
    <3>4. sem \in [Nodes -> Nat] /\ queueSem \in [Nodes -> Nat]
      BY DEF WorkTypes
    <3> QED BY <3>1, <3>2, <3>3, <3>4, Zenon
  <2>5. job' \in [Calls -> Jobs]
    BY <1>6 DEF Admit, Become, WorkTypes, Jobs
  <2> QED BY <2>2, <2>4, <2>5 DEF WorkTypes
<1>7. ASSUME NEW c \in Calls, TakeSlot(c) \/ QueueAborted(c) PROVE WorkTypes'
  <2>1. sem' \in [Nodes -> Nat] /\ queueSem' \in [Nodes -> Nat]
    BY <1>7, SemTypes, ZenonT(30) DEF TakeSlot, QueueAborted, LeaveQueue, WorkTypes
  <2> QED BY <1>7, <2>1 DEF TakeSlot, QueueAborted, Become, WorkTypes, Jobs
<1>8. ASSUME NEW c \in Calls, QueueTimeout(c) PROVE WorkTypes'
  <2>1. queueSem' \in [Nodes -> Nat]
    BY <1>8, SemTypes DEF QueueTimeout, LeaveQueue
  <2>2. wire' \in [Calls -> Seq(Items)]
    <3>1. Send(c, <<"failed">>) /\ <<"failed">> \in Seq(Items)
      BY <1>8, OneItem DEF QueueTimeout, Items
    <3> QED BY <3>1, SendType
  <2> QED BY <1>8, <2>1, <2>2 DEF QueueTimeout, Become, WorkTypes, Jobs
<1>9. ASSUME NEW c \in Calls, Finish(c) PROVE WorkTypes'
  <2>1. sem' \in [Nodes -> Nat]
    BY <1>9, SemTypes DEF Finish
  <2>2. wire' \in [Calls -> Seq(Items)]
    <3>1. PICK result \in {"completed", "failed", "eof"} : Send(c, <<result>>)
      BY <1>9 DEF Finish
    <3>2. <<result>> \in Seq(Items)
      BY OneItem DEF Items
    <3> QED BY <3>1, <3>2, SendType
  <2> QED BY <1>9, <2>1, <2>2 DEF Finish, Become, WorkTypes, Jobs
<1>10. ASSUME NEW n \in Nodes, WorkerDies(n) \/ WorkerRestarts(n) PROVE WorkTypes'
  <2>1. CASE WorkerRestarts(n)
    BY <2>1 DEF WorkerRestarts, WorkTypes
  <2>2. CASE WorkerDies(n)
    <3>1. job' \in [Calls -> Jobs]
      BY <2>2 DEF WorkerDies, WorkTypes, Jobs
    <3>2. alive' \in [Nodes -> BOOLEAN] /\ sem' \in [Nodes -> Nat] /\ queueSem' \in [Nodes -> Nat]
      BY <2>2 DEF WorkerDies, WorkTypes
    <3> QED BY <2>2, <3>1, <3>2 DEF WorkerDies, WorkTypes
  <2> QED BY <1>10, <2>1, <2>2
<1>11. ASSUME NEW c \in Calls, LinkDies(c) \/ LinkCut(c) PROVE WorkTypes'
  <2>1. <<>> \in Seq(Items)
    OBVIOUS
  <2> QED BY <1>11, <2>1 DEF LinkDies, LinkCut, Break, WorkTypes
<1>12. ASSUME NEW t \in Tasks,
              StartRun(t) \/ BackoffAborted(t) \/ SelectAndReserve(t) \/ NoNode(t) \/ LocalRun(t) \/ DialFails(t)
              \/ MarkNodeUnreachable(t) \/ ReadBroken(t) \/ CancelTask(t)
       PROVE  UNCHANGED workVars
  BY <1>12 DEF StartRun, BackoffAborted, SelectAndReserve, NoNode, LocalRun, DialFails, MarkNodeUnreachable,
               ReadBroken, CancelTask
<1>13. ASSUME RegistryStep \/ UNCHANGED vars PROVE UNCHANGED workVars
  BY <1>13 DEF RegistryStep, RegisterNode, Heartbeat, TimePasses, RevokeNode, FailTasksOfNode, PruneStaleNodes,
               ListOfflineNodes, vars
<1> QED BY <1>1, <1>4, <1>5, <1>6, <1>7, <1>8, <1>9, <1>10, <1>11, <1>12, <1>13 DEF Next, RunnerStep, WorkerStep

\* Only Fault moves the bounds.
LEMMA BoundTypesStep == TypeOK /\ [Next]_vars => BoundTypes'
<1> SUFFICES ASSUME TypeOK, [Next]_vars PROVE BoundTypes'
  OBVIOUS
<1> USE TypeParts DEF bounds
<1>1. ASSUME faults' = faults \/ Fault, sinkFault' \in {sinkFault, TRUE} PROVE BoundTypes'
  <2>1. faults' \in 0 .. MaxFaults
    BY <1>1, BoundsAssumption DEF Fault, BoundTypes
  <2>2. sinkFault' \in BOOLEAN
    BY <1>1, Zenon DEF BoundTypes
  <2> QED BY <2>1, <2>2 DEF BoundTypes
<1>2. ASSUME NEW t \in Tasks, RunnerStep(t) \/ CancelTask(t) PROVE (faults' = faults \/ Fault) /\ sinkFault' \in {sinkFault, TRUE}
  BY <1>2 DEF RunnerStep, StartRun, BackoffAborted, SelectAndReserve, NoNode, LocalRun, DialFails, DialSucceeds,
              MarkNodeUnreachable, ReadResponse, ReadEvent, ReadBroken, ContextDone, CancelTask
<1>3. ASSUME NEW c \in Calls, WorkerStep(c) \/ LinkDies(c) \/ LinkCut(c) PROVE (faults' = faults \/ Fault) /\ sinkFault' = sinkFault
  BY <1>3 DEF WorkerStep, Admit, TakeSlot, QueueTimeout, QueueAborted, Finish, LinkDies, LinkCut, Break
<1>4. ASSUME NEW n \in Nodes, WorkerDies(n) \/ WorkerRestarts(n) PROVE (faults' = faults \/ Fault) /\ sinkFault' = sinkFault
  BY <1>4 DEF WorkerDies, WorkerRestarts
<1>5. ASSUME RegistryStep \/ UNCHANGED vars PROVE (faults' = faults \/ Fault) /\ sinkFault' = sinkFault
  BY <1>5 DEF RegistryStep, RegisterNode, Heartbeat, TimePasses, RevokeNode, FailTasksOfNode, PruneStaleNodes,
              ListOfflineNodes, vars
<1> QED BY <1>1, <1>2, <1>3, <1>4, <1>5 DEF Next

\* A task comes to "dial" with a node, and a call to its worker by DialSucceeds.
LEMMA PlacedStep == TypeOK /\ Placed /\ [Next]_vars => Placed'
<1> SUFFICES ASSUME TypeOK, Placed, [Next]_vars PROVE Placed'
  OBVIOUS
<1> USE TypeParts DEF regVars, runVars, workVars, bounds, Contacted
<1>1. ASSUME NEW t \in Tasks, RunnerStep(t) \/ CancelTask(t)
      PROVE  \A u \in Tasks : pc'[u] \in Contacted => target'[u] \in Nodes
  <2>1. ASSUME UNCHANGED target,
               \A u \in Tasks : pc'[u] = pc[u] \/ pc'[u] \notin Contacted \/ pc[u] \in Contacted
        PROVE  \A u \in Tasks : pc'[u] \in Contacted => target'[u] \in Nodes
    BY <2>1 DEF Placed
  <2>2. CASE SelectAndReserve(t)
    BY <2>2 DEF SelectAndReserve, Candidates, Matching, Goto, RunTypes, Placed
  <2>3. CASE StartRun(t) \/ BackoffAborted(t) \/ ContextDone(t) \/ DialFails(t) \/ DialSucceeds(t) \/ CancelTask(t)
    BY <2>1, <2>3 DEF StartRun, BackoffAborted, ContextDone, DialFails, DialSucceeds, CancelTask, Goto, RunTypes
  <2>4. ASSUME NEW x \in BOOLEAN, RunError(t, x) PROVE \A u \in Tasks : pc'[u] = pc[u] \/ pc'[u] \notin Contacted
    BY <2>4, RunErrorType
  <2>5. ASSUME NextAttempt(t) PROVE \A u \in Tasks : pc'[u] = pc[u] \/ pc'[u] \notin Contacted
    BY <2>5, NextAttemptType
  <2>6. CASE NoNode(t) \/ LocalRun(t)
    <3>1. UNCHANGED target /\ (Goto(t, "local") \/ Goto(t, "done") \/ RunError(t, TRUE))
      BY <2>6 DEF NoNode, LocalRun
    <3> QED BY <2>1, <2>4, <3>1 DEF Goto, RunTypes
  <2>7. CASE MarkNodeUnreachable(t)
    BY <2>1, <2>5, <2>7 DEF MarkNodeUnreachable
  <2>8. CASE ReadResponse(t)
    <3>1. UNCHANGED target /\ pc[t] = "sent" /\ (Goto(t, "stream") \/ NextAttempt(t) \/ RunError(t, TRUE))
      BY <2>8 DEF ReadResponse
    <3> QED BY <2>1, <2>4, <2>5, <3>1 DEF Goto, RunTypes
  <2>9. CASE ReadEvent(t)
    <3>1. UNCHANGED target /\ (UNCHANGED pc \/ Goto(t, "done") \/ RunError(t, TRUE) \/ RunError(t, FALSE))
      BY <2>9 DEF ReadEvent
    <3> QED BY <2>1, <2>4, <3>1 DEF Goto, RunTypes
  <2>10. CASE ReadBroken(t)
    <3>1. UNCHANGED target /\ \E x \in BOOLEAN : RunError(t, x)
      BY <2>10, Zenon DEF ReadBroken
    <3> QED BY <2>1, <2>4, <3>1
  <2> QED BY <1>1, <2>2, <2>3, <2>6, <2>7, <2>8, <2>9, <2>10 DEF RunnerStep
<1>2. ASSUME UNCHANGED runVars PROVE \A u \in Tasks : pc'[u] \in Contacted => target'[u] \in Nodes
  BY <1>2 DEF Placed
<1>3. ASSUME NEW n \in Nodes, FailTasksOfNode(n) PROVE \A u \in Tasks : pc'[u] \in Contacted => target'[u] \in Nodes
  BY <1>3 DEF FailTasksOfNode, Placed
<1>4. ASSUME \A c \in Calls : /\ job'[c] # "none" => job[c] # "none"
                              /\ at'[c] = at[c]
      PROVE  \A c \in Calls : job'[c] # "none" => at'[c] \in Nodes
  BY <1>4 DEF Placed
<1>5. ASSUME NEW t \in Tasks, DialSucceeds(t) PROVE \A c \in Calls : job'[c] # "none" => at'[c] \in Nodes
  BY <1>5, CallIsCall DEF DialSucceeds, WorkTypes, Placed
<1>6. ASSUME NEW t \in Tasks, ~DialSucceeds(t), RunnerStep(t) \/ CancelTask(t) PROVE UNCHANGED <<job, at>>
  BY <1>6 DEF RunnerStep, StartRun, BackoffAborted, SelectAndReserve, NoNode, LocalRun, DialFails,
              MarkNodeUnreachable, ReadResponse, ReadEvent, ReadBroken, ContextDone, CancelTask
<1>7. ASSUME NEW c \in Calls, WorkerStep(c) \/ LinkDies(c) \/ LinkCut(c)
      PROVE  UNCHANGED runVars /\ \A d \in Calls : (job'[d] # "none" => job[d] # "none") /\ at'[d] = at[d]
  BY <1>7 DEF WorkerStep, Admit, TakeSlot, QueueTimeout, QueueAborted, Finish, LinkDies, LinkCut, Break, Become, WorkTypes
<1>8. ASSUME NEW n \in Nodes, WorkerDies(n) \/ WorkerRestarts(n)
      PROVE  UNCHANGED runVars /\ \A d \in Calls : (job'[d] # "none" => job[d] # "none") /\ at'[d] = at[d]
  BY <1>8 DEF WorkerDies, WorkerRestarts, WorkTypes, Jobs
<1>9. ASSUME RegistryStep \/ UNCHANGED vars PROVE UNCHANGED <<job, at>> /\ (UNCHANGED runVars \/ \E n \in Nodes : FailTasksOfNode(n))
  BY <1>9 DEF RegistryStep, RegisterNode, Heartbeat, TimePasses, RevokeNode, FailTasksOfNode, PruneStaleNodes,
              ListOfflineNodes, vars
<1>10. \A u \in Tasks : pc'[u] \in Contacted => target'[u] \in Nodes
  BY <1>1, <1>2, <1>3, <1>7, <1>8, <1>9 DEF Next
<1>11. \A c \in Calls : job'[c] # "none" => at'[c] \in Nodes
  BY <1>4, <1>5, <1>6, <1>7, <1>8, <1>9 DEF Next
<1> QED BY <1>10, <1>11 DEF Placed

-----------------------------------------------------------------------------
(* What a worker, the network and the registry do to the calls.            *)

Live(c) == job[c] \notin {"none", "refused"}

\* A call that was made stays made; refused and accepted calls stay so.
Advance ==
    \A c \in Calls :
        /\ at'[c] = at[c] /\ (job'[c] = "none" <=> job[c] = "none")
        /\ job[c] = "refused" => job'[c] = "refused"
        /\ Live(c)' => Live(c)
        /\ Accepted(c) => Accepted(c)'

LEMMA JobsAdvance ==
    ASSUME TypeOK, [Next]_vars, \A t \in Tasks : ~DialSucceeds(t)
    PROVE  Advance
<1> USE TypeParts DEF Live, Accepted, Executed, regVars, runVars, workVars, bounds
<1>1. ASSUME UNCHANGED <<job, at>> PROVE Advance
  BY <1>1 DEF Advance
<1>2. ASSUME NEW t \in Tasks, RunnerStep(t) \/ CancelTask(t) PROVE UNCHANGED <<job, at>>
  BY <1>2 DEF RunnerStep, StartRun, BackoffAborted, SelectAndReserve, NoNode, LocalRun, DialFails,
              MarkNodeUnreachable, ReadResponse, ReadEvent, ReadBroken, ContextDone, CancelTask
<1>3. ASSUME NEW c \in Calls, WorkerStep(c) PROVE Advance
  <2>1. /\ job[c] \in {"arrived", "queued", "executing"} /\ UNCHANGED at
        /\ \E j \in {"executing", "queued", "refused", "expired", "ended"} : job' = [job EXCEPT ![c] = j]
        /\ job[c] = "arrived" \/ job'[c] \in {"executing", "expired", "ended"}
    BY <1>3 DEF WorkerStep, Admit, TakeSlot, QueueTimeout, QueueAborted, Finish, Become, WorkTypes
  <2> QED BY <2>1 DEF Advance, WorkTypes, Jobs
<1>4. ASSUME NEW c \in Calls, LinkDies(c) \/ LinkCut(c) PROVE UNCHANGED <<job, at>>
  BY <1>4 DEF LinkDies, LinkCut, Break
<1>5. ASSUME NEW n \in Nodes, WorkerDies(n) PROVE Advance
  BY <1>5 DEF WorkerDies, Advance, WorkTypes, Jobs
<1>6. ASSUME NEW n \in Nodes, WorkerRestarts(n) PROVE UNCHANGED <<job, at>>
  BY <1>6 DEF WorkerRestarts
<1>7. ASSUME RegistryStep \/ UNCHANGED vars PROVE UNCHANGED <<job, at>>
  BY <1>7 DEF RegistryStep, RegisterNode, Heartbeat, TimePasses, RevokeNode, FailTasksOfNode, PruneStaleNodes,
              ListOfflineNodes, vars
<1> QED BY <1>1, <1>2, <1>3, <1>4, <1>5, <1>6, <1>7 DEF Next

-----------------------------------------------------------------------------
(* What a runner does to its task.                                         *)

Offering == {"select", "local", "dial", "unreachable"}

\* The steps of a Run: it starts, it goes on with an offer, it makes the next
\* one, it is retried, or it is over.
Starts(t) == /\ pc[t] \in {"idle", "backoff"} /\ pc'[t] = "select" /\ attempt'[t] = 1
             /\ retries'[t] = retries[t]
Proceeds(t) == /\ \/ pc[t] = "select" /\ pc'[t] \in {"dial", "local"}
                  \/ pc[t] = "dial" /\ pc'[t] = "unreachable"
                  \/ pc[t] \in {"sent", "stream"} /\ pc'[t] = "stream" /\ target'[t] = target[t]
               /\ attempt'[t] = attempt[t] /\ retries'[t] = retries[t]
Reoffers(t) == /\ pc[t] \in {"unreachable", "sent"} /\ pc'[t] = "select"
               /\ attempt'[t] = attempt[t] + 1 /\ retries'[t] = retries[t]
Retries(t) == pc[t] \notin {"idle", "done"} /\ pc'[t] = "backoff" /\ retries'[t] = retries[t] + 1
Stops(t) == pc'[t] = "done" /\ attempt'[t] = attempt[t] /\ retries'[t] = retries[t]

Moves(t) == Starts(t) \/ Proceeds(t) \/ Reoffers(t) \/ Retries(t) \/ Stops(t)

LEMMA RunErrorMoves ==
    ASSUME TypeOK, NEW t \in Tasks, NEW x \in BOOLEAN, RunError(t, x), pc[t] \notin {"idle", "done"}, attempt' = attempt
    PROVE  /\ Retries(t) \/ Stops(t)
           /\ \A u \in Tasks \ {t} : pc'[u] = pc[u] /\ retries'[u] = retries[u]
           /\ ~x => Stops(t)
<1> USE TypeParts DEF RunTypes
<1>1. CASE pc' = [pc EXCEPT ![t] = "done"] /\ UNCHANGED retries
  BY <1>1 DEF Stops
<1>2. CASE x /\ retries' = [retries EXCEPT ![t] = @ + 1] /\ pc' = [pc EXCEPT ![t] = "backoff"]
  BY <1>2 DEF Retries
<1> QED BY <1>1, <1>2, Zenon DEF RunError, Goto

LEMMA NextAttemptMoves ==
    ASSUME TypeOK, NEW t \in Tasks, NextAttempt(t), pc[t] \in {"unreachable", "sent"}
    PROVE  /\ Reoffers(t) \/ Retries(t) \/ Stops(t)
           /\ \A u \in Tasks \ {t} : pc'[u] = pc[u] /\ retries'[u] = retries[u] /\ attempt'[u] = attempt[u]
<1> USE TypeParts DEF RunTypes
<1>1. CASE attempt[t] < meshDispatchAttempts
  <2>1. attempt' = [attempt EXCEPT ![t] = @ + 1] /\ pc' = [pc EXCEPT ![t] = "select"] /\ retries' = retries
    BY <1>1, Zenon DEF NextAttempt, Goto
  <2> QED BY <2>1 DEF Reoffers
<1>2. CASE ~(attempt[t] < meshDispatchAttempts)
  <2>1. RunError(t, TRUE) /\ attempt' = attempt
    BY <1>2, Zenon DEF NextAttempt
  <2> QED BY <2>1, RunErrorMoves
<1> QED BY <1>1, <1>2

Others(t) == \A u \in Tasks \ {t} : /\ pc'[u] = pc[u] /\ retries'[u] = retries[u] /\ attempt'[u] = attempt[u]
                                    /\ target'[u] = target[u] /\ node'[u] = node[u] /\ saw'[u] = saw[u]

\* A runner that does not hand a call over moves its own task only, and makes
\* another offer after "sent" only when it was refused.
LEMMA RunnerMoves ==
    ASSUME TypeOK, NEW t \in Tasks, RunnerStep(t), ~DialSucceeds(t)
    PROVE  /\ Others(t) /\ Moves(t)
           /\ Reoffers(t) /\ pc[t] = "sent" => wire[Call(t)] # <<>> /\ Next1(t) = "429"
           /\ Proceeds(t) /\ pc[t] = "sent" => wire[Call(t)] # <<>> /\ Next1(t) = "200"
<1> USE TypeParts DEF RunTypes, regVars, runVars, workVars, bounds
<1>1. CASE StartRun(t)
  BY <1>1, BoundsAssumption DEF StartRun, Goto, Others, Moves, Starts, Reoffers, Proceeds
<1>2. CASE BackoffAborted(t) \/ ContextDone(t)
  BY <1>2 DEF BackoffAborted, ContextDone, Goto, Others, Moves, Stops, Reoffers, Proceeds
<1>3. CASE SelectAndReserve(t)
  BY <1>3 DEF SelectAndReserve, Candidates, Matching, Goto, Others, Moves, Proceeds, Reoffers
<1>4. CASE NoNode(t)
  <2>1. pc[t] = "select" /\ UNCHANGED <<node, attempt, target, saw>>
    BY <1>4 DEF NoNode
  <2>2. CASE Goto(t, "local") /\ UNCHANGED retries
    BY <2>1, <2>2 DEF Goto, Others, Moves, Proceeds, Reoffers
  <2>3. CASE RunError(t, TRUE)
    BY <2>1, <2>3, RunErrorMoves DEF Others, Moves, Reoffers, Proceeds
  <2> QED BY <1>4, <2>2, <2>3 DEF NoNode
<1>5. CASE LocalRun(t)
  <2>1. pc[t] = "local" /\ UNCHANGED <<node, attempt, target, saw>>
    BY <1>5 DEF LocalRun
  <2>2. CASE Goto(t, "done") /\ UNCHANGED retries
    BY <2>1, <2>2 DEF Goto, Others, Moves, Stops, Reoffers, Proceeds
  <2>3. CASE RunError(t, TRUE)
    BY <2>1, <2>3, RunErrorMoves DEF Others, Moves, Reoffers, Proceeds
  <2> QED BY <1>5, <2>2, <2>3 DEF LocalRun
<1>6. CASE DialFails(t)
  BY <1>6 DEF DialFails, Goto, Others, Moves, Proceeds, Reoffers
<1>7. CASE MarkNodeUnreachable(t)
  <2>1. pc[t] = "unreachable" /\ NextAttempt(t) /\ UNCHANGED <<node, target, saw>>
    BY <1>7 DEF MarkNodeUnreachable
  <2> QED BY <2>1, NextAttemptMoves DEF Others, Moves, Reoffers, Retries, Stops, Proceeds
<1>8. CASE ReadResponse(t)
  <2>1. pc[t] = "sent" /\ wire[Call(t)] # <<>> /\ UNCHANGED <<node, target, saw>>
    BY <1>8 DEF ReadResponse
  <2>2. CASE Next1(t) = "200" /\ Goto(t, "stream") /\ UNCHANGED <<retries, attempt>>
    BY <2>1, <2>2 DEF Goto, Others, Moves, Proceeds, Reoffers
  <2>3. CASE Next1(t) = "429" /\ NextAttempt(t)
    BY <2>1, <2>3, NextAttemptMoves DEF Others, Moves, Reoffers, Retries, Stops, Proceeds
  <2>4. CASE RunError(t, TRUE) /\ UNCHANGED attempt
    BY <2>1, <2>4, RunErrorMoves DEF Others, Moves, Reoffers, Proceeds, Retries, Stops
  <2> QED BY <1>8, <2>2, <2>3, <2>4 DEF ReadResponse
<1>9. CASE ReadEvent(t)
  <2>1. pc[t] = "stream" /\ UNCHANGED <<attempt, target>>
    BY <1>9 DEF ReadEvent
  <2>2. \A u \in Tasks \ {t} : node'[u] = node[u] /\ saw'[u] = saw[u]
    BY <1>9 DEF ReadEvent, AttributeNode
  <2>3. CASE UNCHANGED <<pc, retries>>
    BY <2>1, <2>2, <2>3 DEF Others, Moves, Proceeds, Reoffers
  <2>4. CASE RunError(t, TRUE) \/ RunError(t, FALSE)
    BY <2>1, <2>2, <2>4, RunErrorMoves DEF Others, Moves, Reoffers, Proceeds
  <2>5. CASE Goto(t, "done") /\ UNCHANGED retries
    BY <2>1, <2>2, <2>5 DEF Goto, Others, Moves, Stops, Reoffers, Proceeds
  <2> QED BY <1>9, <2>3, <2>4, <2>5 DEF ReadEvent
<1>10. CASE ReadBroken(t)
  <2>1. pc[t] \in {"sent", "stream"} /\ UNCHANGED <<node, attempt, target, saw>>
    BY <1>10 DEF ReadBroken
  <2>2. PICK x \in BOOLEAN : RunError(t, x)
    BY <1>10, Zenon DEF ReadBroken
  <2> QED BY <2>1, <2>2, RunErrorMoves DEF Others, Moves, Reoffers, Proceeds, Retries, Stops
<1> QED BY <1>1, <1>2, <1>3, <1>4, <1>5, <1>6, <1>7, <1>8, <1>9, <1>10 DEF RunnerStep

\* Everybody else leaves the runners alone, except that a task may end.
LEMMA NoRunner ==
    ASSUME [Next]_vars, ~\E t \in Tasks : RunnerStep(t)
    PROVE  UNCHANGED <<pc, retries, attempt, target, node, saw, inFlight>>
  BY DEF Next, CancelTask, WorkerStep, Admit, TakeSlot, QueueTimeout, QueueAborted, Finish, LinkDies, LinkCut,
         Break, WorkerDies, WorkerRestarts, RegistryStep, RegisterNode, Heartbeat, TimePasses, RevokeNode,
         FailTasksOfNode, PruneStaleNodes, ListOfflineNodes, vars, runVars, regVars

-----------------------------------------------------------------------------
(* Which offers of a Run have been made.                                   *)

\* Offers that lie ahead of the runner, and those of this Run it has left behind.
Unmade(c) ==
    \/ c[2] > retries[c[1]]
    \/ /\ c[2] = retries[c[1]]
       /\ \/ pc[c[1]] \in {"idle", "backoff"} \/ c[3] > attempt[c[1]]
          \/ c[3] = attempt[c[1]] /\ pc[c[1]] \in Offering
Passed(c) ==
    /\ c[2] = retries[c[1]] /\ c[3] < attempt[c[1]]
    /\ pc[c[1]] \in Offering \cup {"sent", "stream"}

Offers ==
    \A c \in Calls : (Unmade(c) => job[c] = "none") /\ (Passed(c) => job[c] \in {"none", "refused"})

\* The offer under way is the one the runner waits for.
UnderWay ==
    \A t \in Tasks :
        /\ pc[t] \in {"sent", "stream"} => job[Call(t)] # "none" /\ at[Call(t)] = target[t]
        /\ pc[t] = "stream" => Accepted(Call(t))

\* A worker answers what it did.
Answered ==
    \A c \in Calls : \A i \in 1 .. Len(wire[c]) :
        /\ wire[c][i] = "429" => job[c] = "refused"
        /\ wire[c][i] = "200" => Accepted(c)

OneLive == \A c, d \in Calls : c[1] = d[1] /\ c[2] = d[2] /\ Live(c) /\ Live(d) => c = d

LEMMA OwnCall == TypeOK => \A t \in Tasks : Call(t) \in Calls /\ Call(t)[1] = t /\ Call(t)[2] = retries[t] /\ Call(t)[3] = attempt[t]
  BY CallIsCall DEF Call

\* Handing a call over: an offer nobody has seen, at the node that was chosen.
LEMMA HandOver ==
    ASSUME TypeOK, Placed, Offers, NEW t \in Tasks, DialSucceeds(t)
    PROVE  /\ job[Call(t)] = "none" /\ Call(t)' = Call(t)
           /\ job' = [job EXCEPT ![Call(t)] = "arrived"] /\ at' = [at EXCEPT ![Call(t)] = target[t]]
           /\ pc' = [pc EXCEPT ![t] = "sent"] /\ saw' = [saw EXCEPT ![t] = FALSE]
           /\ UNCHANGED <<retries, attempt, target, node, wire, inFlight, sem, queueSem>>
           /\ pc[t] = "dial" /\ target[t] \in Nodes
<1>1. pc[t] = "dial" /\ UNCHANGED <<retries, attempt, target, node, wire, inFlight, sem, queueSem>>
  BY DEF DialSucceeds, regVars
<1>2. Unmade(Call(t)) /\ Call(t) \in Calls
  BY <1>1, OwnCall DEF Unmade, Offering
<1>3. job[Call(t)] = "none"
  BY <1>2 DEF Offers
<1>4. Call(t)' = Call(t)
  BY <1>1 DEF Call
<1> QED BY <1>1, <1>3, <1>4 DEF DialSucceeds, Goto, Placed, Contacted

LEMMA OffersStep ==
    ASSUME TypeOK, Placed, Offers, Answered, [Next]_vars
    PROVE  Offers'
<1> USE TypeParts DEF RunTypes, WorkTypes
<1> SUFFICES ASSUME NEW c \in Calls
             PROVE  (Unmade(c)' => job'[c] = "none") /\ (Passed(c)' => job'[c] \in {"none", "refused"})
  BY DEF Offers
<1> DEFINE t == c[1]
<1>0. t \in Tasks /\ c[2] \in Nat /\ c[3] \in Nat \ {0} /\ c = <<t, c[2], c[3]>> /\ retries[t] \in Nat /\ attempt[t] \in Nat
  BY CallFields, WorkerAssumption, BoundsAssumption
<1>1. CASE \E u \in Tasks : DialSucceeds(u)
  <2>1. PICK u \in Tasks : DialSucceeds(u)
    BY <1>1
  <2>2. CASE c = Call(u)
    <3>1. t = u /\ c[2] = retries[u] /\ c[3] = attempt[u]
      BY <2>2, OwnCall
    <3> QED BY <1>0, <2>1, <3>1, HandOver DEF Unmade, Passed, Offering
  <2>3. CASE c # Call(u)
    <3>1. job'[c] = job[c]
      BY <2>1, <2>3, HandOver, OwnCall
    <3>2. CASE t # u
      BY <1>0, <2>1, <3>1, <3>2, HandOver DEF Unmade, Passed, Offers
    <3>3. CASE t = u
      <4>1. c[2] # retries[u] \/ c[3] # attempt[u]
        BY <1>0, <2>3, <3>3 DEF Call
      <4> QED BY <1>0, <2>1, <3>1, <3>3, <4>1, HandOver DEF Unmade, Passed, Offers, Offering
    <3> QED BY <3>2, <3>3
  <2> QED BY <2>2, <2>3
<1>2. CASE \A u \in Tasks : ~DialSucceeds(u)
  <2>1. /\ job'[c] = "none" <=> job[c] = "none"
        /\ job[c] = "refused" => job'[c] = "refused"
    BY <1>2, JobsAdvance DEF Advance
  <2>2. CASE pc'[t] = pc[t] /\ retries'[t] = retries[t] /\ attempt'[t] = attempt[t]
    BY <1>0, <2>1, <2>2 DEF Unmade, Passed, Offers
  <2>3. CASE RunnerStep(t)
    <3>1. Moves(t) /\ (Reoffers(t) /\ pc[t] = "sent" => wire[Call(t)] # <<>> /\ Next1(t) = "429")
      BY <1>0, <1>2, <2>3, RunnerMoves
    <3>2. CASE Starts(t)
      BY <1>0, <2>1, <3>2 DEF Starts, Unmade, Passed, Offers, Offering
    <3>3. CASE Proceeds(t)
      BY <1>0, <2>1, <3>3 DEF Proceeds, Unmade, Passed, Offers, Offering
    <3>4. CASE Reoffers(t)
      <4>1. CASE c[3] # attempt[t] \/ c[2] # retries[t]
        BY <1>0, <2>1, <3>4, <4>1 DEF Reoffers, Unmade, Passed, Offers, Offering
      <4>2. CASE c[3] = attempt[t] /\ c[2] = retries[t]
        <5>1. c = Call(t)
          BY <1>0, <4>2 DEF Call
        <5>2. ~Unmade(c)'
          BY <1>0, <3>4, <4>2 DEF Reoffers, Unmade, Offering
        <5>3. CASE pc[t] = "unreachable"
          BY <1>0, <2>1, <4>2, <5>2, <5>3 DEF Unmade, Offers, Offering
        <5>4. CASE pc[t] = "sent"
          <6>1. wire[c] # <<>> /\ Head(wire[c]) = "429" /\ wire[c] \in Seq(Items)
            BY <3>1, <3>4, <5>1, <5>4 DEF Next1
          <6>2. Len(wire[c]) \in Nat \ {0} /\ wire[c][1] = "429"
            BY <6>1
          <6> QED BY <2>1, <5>2, <6>2 DEF Answered
        <5> QED BY <3>4, <5>3, <5>4 DEF Reoffers
      <4> QED BY <4>1, <4>2
    <3>5. CASE Retries(t)
      BY <1>0, <2>1, <3>5 DEF Retries, Unmade, Passed, Offers, Offering
    <3>6. CASE Stops(t)
      BY <1>0, <2>1, <3>6 DEF Stops, Unmade, Passed, Offers, Offering
    <3> QED BY <3>1, <3>2, <3>3, <3>4, <3>5, <3>6 DEF Moves
  <2>4. ASSUME NEW u \in Tasks, RunnerStep(u), u # t
        PROVE  pc'[t] = pc[t] /\ retries'[t] = retries[t] /\ attempt'[t] = attempt[t]
    BY <1>0, <1>2, <2>4, RunnerMoves DEF Others
  <2>5. ASSUME ~\E u \in Tasks : RunnerStep(u) PROVE UNCHANGED <<pc, retries, attempt>>
    BY <2>5, NoRunner
  <2> QED BY <2>2, <2>3, <2>4, <2>5
<1> QED BY <1>1, <1>2

LEMMA UnderWayStep ==
    ASSUME TypeOK, Placed, Offers, UnderWay, Answered, [Next]_vars
    PROVE  UnderWay'
<1> USE TypeParts DEF RunTypes, WorkTypes
<1> SUFFICES ASSUME NEW t \in Tasks
             PROVE  /\ pc'[t] \in {"sent", "stream"} => job'[Call(t)'] # "none" /\ at'[Call(t)'] = target'[t]
                    /\ pc'[t] = "stream" => Accepted(Call(t))'
  BY DEF UnderWay
<1>1. CASE \E u \in Tasks : DialSucceeds(u)
  <2>1. PICK u \in Tasks : DialSucceeds(u)
    BY <1>1
  <2>2. CASE t = u
    BY <2>1, <2>2, HandOver, OwnCall
  <2>3. CASE t # u
    <3>1. Call(t)' = Call(t) /\ Call(t) # Call(u) /\ Call(t) \in Calls /\ Call(u) \in Calls
      BY <2>1, <2>3, HandOver, OwnCall DEF Call
    <3>2. job'[Call(t)] = job[Call(t)] /\ at'[Call(t)] = at[Call(t)] /\ pc'[t] = pc[t] /\ target'[t] = target[t]
      BY <2>1, <2>3, <3>1, HandOver
    <3> QED BY <3>1, <3>2 DEF UnderWay, Accepted, Executed
  <2> QED BY <2>2, <2>3
<1>2. CASE \A u \in Tasks : ~DialSucceeds(u)
  <2>1. Advance /\ Call(t) \in Calls
    BY <1>2, JobsAdvance, CallIsCall
  <2>2. ASSUME Call(t)' = Call(t), target'[t] = target[t], pc[t] \in {"sent", "stream"},
               pc'[t] = "stream" => Accepted(Call(t))
        PROVE  /\ pc'[t] \in {"sent", "stream"} => job'[Call(t)'] # "none" /\ at'[Call(t)'] = target'[t]
               /\ pc'[t] = "stream" => Accepted(Call(t))'
    <3>1. job'[Call(t)] # "none" /\ at'[Call(t)] = target[t]
      BY <2>1, <2>2 DEF UnderWay, Advance
    <3>2. pc'[t] = "stream" => Accepted(Call(t))'
      BY <2>1, <2>2 DEF Advance, Accepted, Executed
    <3> QED BY <2>2, <3>1, <3>2
  <2>3. CASE pc'[t] = pc[t] /\ retries'[t] = retries[t] /\ attempt'[t] = attempt[t] /\ target'[t] = target[t]
    <3>1. Call(t)' = Call(t)
      BY <2>3 DEF Call
    <3> QED BY <2>2, <2>3, <3>1 DEF UnderWay
  <2>4. CASE RunnerStep(t)
    <3>1. Moves(t) /\ (Proceeds(t) /\ pc[t] = "sent" => wire[Call(t)] # <<>> /\ Next1(t) = "200")
      BY <1>2, <2>4, RunnerMoves
    <3>2. CASE Proceeds(t) /\ pc'[t] = "stream"
      <4>1. Call(t)' = Call(t) /\ target'[t] = target[t] /\ pc[t] \in {"sent", "stream"}
        BY <3>2 DEF Proceeds, Call
      <4>2. CASE pc[t] = "stream"
        BY <2>2, <4>1, <4>2 DEF UnderWay
      <4>3. CASE pc[t] = "sent"
        <5>1. wire[Call(t)] # <<>> /\ Head(wire[Call(t)]) = "200" /\ wire[Call(t)] \in Seq(Items)
          BY <2>1, <3>1, <3>2, <4>3 DEF Next1
        <5>2. Len(wire[Call(t)]) \in Nat \ {0} /\ wire[Call(t)][1] = "200"
          BY <5>1
        <5>3. 1 \in 1 .. Len(wire[Call(t)])
          BY <5>2
        <5>4. Accepted(Call(t))
          BY <2>1, <5>2, <5>3, Zenon DEF Answered
        <5> QED BY <2>2, <4>1, <5>4
      <4> QED BY <4>1, <4>2, <4>3
    <3>3. CASE pc'[t] \notin {"sent", "stream"}
      BY <3>3
    <3> QED BY <3>1, <3>2, <3>3 DEF Moves, Starts, Proceeds, Reoffers, Retries, Stops
  <2>5. ASSUME NEW u \in Tasks, RunnerStep(u), u # t
        PROVE  pc'[t] = pc[t] /\ retries'[t] = retries[t] /\ attempt'[t] = attempt[t] /\ target'[t] = target[t]
    BY <1>2, <2>5, RunnerMoves DEF Others
  <2> QED BY <2>3, <2>4, <2>5, NoRunner
<1> QED BY <1>1, <1>2

LEMMA OneLiveStep ==
    ASSUME TypeOK, Placed, Offers, OneLive, [Next]_vars
    PROVE  OneLive'
<1> USE TypeParts DEF RunTypes, WorkTypes
<1>1. CASE \A u \in Tasks : ~DialSucceeds(u)
  BY <1>1, JobsAdvance DEF Advance, OneLive
<1>2. ASSUME NEW u \in Tasks, DialSucceeds(u) PROVE OneLive'
  <2>1. \A c \in Calls : c # Call(u) => (Live(c)' <=> Live(c))
    BY <1>2, HandOver, OwnCall DEF Live
  <2>2. ASSUME NEW c \in Calls, c[1] = u, c[2] = retries[u], c # Call(u) PROVE ~Live(c)
    <3>1. c = <<u, retries[u], c[3]>> /\ c[3] \in Nat /\ attempt[u] \in Nat /\ c[3] # attempt[u]
      BY <2>2, CallFields, BoundsAssumption DEF Call
    <3>2. Unmade(c) \/ Passed(c)
      BY <1>2, <2>2, <3>1, HandOver DEF Unmade, Passed, Offering
    <3> QED BY <3>2 DEF Offers, Live
  <2>3. ASSUME NEW c \in Calls, NEW d \in Calls, c[1] = d[1], c[2] = d[2], Live(c)', Live(d)' PROVE c = d
    <3>1. CASE c = Call(u) \/ d = Call(u)
      BY <2>1, <2>2, <2>3, <3>1, OwnCall
    <3>2. CASE c # Call(u) /\ d # Call(u)
      BY <2>1, <2>3, <3>2 DEF OneLive
    <3> QED BY <3>1, <3>2
  <2> QED BY <2>3 DEF OneLive
<1> QED BY <1>1, <1>2

\* What may be written to the connection of a call, for the state it is left in.
Writings(c) ==
    {items \in {<<"200", "status">>} : Accepted(c)'} \cup {items \in {<<"429">>} : job'[c] = "refused"}
        \cup {<<"401">>, <<"completed">>, <<"failed">>, <<"eof">>}

\* A connection: it is read, cut, or the worker writes to it.
WireMove(c) ==
    \/ wire'[c] = wire[c] \/ wire'[c] = <<>>
    \/ wire[c] # <<>> /\ wire'[c] = Tail(wire[c])
    \/ \E items \in Writings(c) : wire'[c] = wire[c] \o items

LEMMA WireMoves ==
    ASSUME TypeOK, [Next]_vars, NEW c \in Calls
    PROVE  WireMove(c)
<1> USE TypeParts DEF WorkTypes, regVars, runVars, workVars, bounds
<1>1. ASSUME UNCHANGED wire PROVE WireMove(c)
  BY <1>1 DEF WireMove
<1>2. ASSUME NEW t \in Tasks, Hangup(t) \/ (Pop(t) /\ wire[Call(t)] # <<>>) PROVE WireMove(c)
  BY <1>2, CallIsCall DEF Hangup, Pop, WireMove
<1>3. ASSUME NEW t \in Tasks, RunnerStep(t) \/ CancelTask(t)
      PROVE  UNCHANGED wire \/ Hangup(t) \/ (Pop(t) /\ wire[Call(t)] # <<>>)
  BY <1>3 DEF RunnerStep, StartRun, BackoffAborted, SelectAndReserve, NoNode, LocalRun, DialFails, DialSucceeds,
              MarkNodeUnreachable, ReadResponse, ReadEvent, ReadBroken, ContextDone, CancelTask
<1>4. ASSUME NEW d \in Calls, NEW items, Send(d, items), d = c => items \in Writings(c) PROVE WireMove(c)
  BY <1>4 DEF Send, WireMove
<1>5. ASSUME NEW d \in Calls, Admit(d) PROVE WireMove(c)
  <2>1. CASE (Become(d, "executing") \/ Become(d, "queued")) /\ Send(d, <<"200", "status">>)
    <3>1. Accepted(d)'
      BY <2>1 DEF Become, Accepted, Executed
    <3> QED BY <1>4, <2>1, <3>1 DEF Writings
  <2>2. CASE Become(d, "refused") /\ Send(d, <<"429">>)
    <3>1. job'[d] = "refused"
      BY <2>2 DEF Become
    <3> QED BY <1>4, <2>2, <3>1 DEF Writings
  <2>3. CASE Send(d, <<"401">>)
    BY <1>4, <2>3 DEF Writings
  <2> QED BY <1>5, <2>1, <2>2, <2>3 DEF Admit
<1>6. ASSUME NEW d \in Calls, QueueTimeout(d) PROVE WireMove(c)
  BY <1>4, <1>6 DEF QueueTimeout, Writings
<1>7. ASSUME NEW d \in Calls, Finish(d) PROVE WireMove(c)
  <2>1. PICK result \in {"completed", "failed", "eof"} : Send(d, <<result>>)
    BY <1>7 DEF Finish
  <2> QED BY <1>4, <2>1 DEF Writings
<1>8. ASSUME NEW d \in Calls, TakeSlot(d) \/ QueueAborted(d) PROVE UNCHANGED wire
  BY <1>8 DEF TakeSlot, QueueAborted
<1>9. ASSUME NEW d \in Calls, LinkDies(d) \/ LinkCut(d) PROVE WireMove(c)
  BY <1>9 DEF LinkDies, LinkCut, Break, WireMove
<1>10. ASSUME NEW n \in Nodes, WorkerDies(n) \/ WorkerRestarts(n) PROVE UNCHANGED wire
  BY <1>10 DEF WorkerDies, WorkerRestarts
<1>11. ASSUME RegistryStep \/ UNCHANGED vars PROVE UNCHANGED wire
  BY <1>11 DEF RegistryStep, RegisterNode, Heartbeat, TimePasses, RevokeNode, FailTasksOfNode, PruneStaleNodes,
               ListOfflineNodes, vars
<1> QED BY <1>1, <1>2, <1>3, <1>5, <1>6, <1>7, <1>8, <1>9, <1>10, <1>11 DEF Next, WorkerStep

\* An answer stays true of the call it answers.
LEMMA AnsweredStep ==
    ASSUME TypeOK, Placed, Offers, Answered, [Next]_vars
    PROVE  Answered'
<1> USE TypeParts DEF WorkTypes
<1> SUFFICES ASSUME NEW c \in Calls, NEW i \in 1 .. Len(wire'[c])
             PROVE  /\ wire'[c][i] = "429" => job'[c] = "refused"
                    /\ wire'[c][i] = "200" => Accepted(c)'
  BY DEF Answered
<1>1. ASSUME NEW k \in 1 .. Len(wire[c])
      PROVE  /\ wire[c][k] = "429" => job'[c] = "refused"
             /\ wire[c][k] = "200" => Accepted(c)'
  <2>1. /\ wire[c][k] = "429" => job[c] = "refused"
        /\ wire[c][k] = "200" => Accepted(c)
    BY DEF Answered
  <2>2. (job[c] = "refused" => job'[c] = "refused") /\ (Accepted(c) => Accepted(c)')
    <3>1. ASSUME NEW t \in Tasks, DialSucceeds(t)
          PROVE (job[c] = "refused" => job'[c] = "refused") /\ (Accepted(c) => Accepted(c)')
      BY <3>1, HandOver DEF Accepted, Executed
    <3>2. CASE \A t \in Tasks : ~DialSucceeds(t)
      BY <3>2, JobsAdvance DEF Advance
    <3> QED BY <3>1, <3>2
  <2> QED BY <2>1, <2>2
<1>2. wire[c] \in Seq(Items) /\ Len(wire[c]) \in Nat /\ WireMove(c)
  BY WireMoves
<1>3. CASE wire'[c] = wire[c] \/ wire'[c] = <<>>
  BY <1>1, <1>3
<1>4. CASE wire[c] # <<>> /\ wire'[c] = Tail(wire[c])
  <2>1. i + 1 \in 1 .. Len(wire[c]) /\ wire'[c][i] = wire[c][i + 1]
    BY <1>2, <1>4
  <2> QED BY <1>1, <2>1
<1>5. ASSUME NEW items \in Writings(c), wire'[c] = wire[c] \o items
      PROVE  /\ wire'[c][i] = "429" => job'[c] = "refused"
             /\ wire'[c][i] = "200" => Accepted(c)'
  <2>0. <<"200", "status">> \in Seq(Items) /\ <<"429">> \in Seq(Items) /\ <<"401">> \in Seq(Items)
        /\ <<"completed">> \in Seq(Items) /\ <<"failed">> \in Seq(Items) /\ <<"eof">> \in Seq(Items)
    BY DEF Items
  <2>1. items \in Seq(Items) /\ Len(items) \in Nat
    <3>1. items \in Seq(Items)
      BY <2>0 DEF Writings
    <3> QED BY <3>1
  <2>2. Len(wire'[c]) = Len(wire[c]) + Len(items)
        /\ wire'[c][i] = IF i <= Len(wire[c]) THEN wire[c][i] ELSE items[i - Len(wire[c])]
    BY <1>2, <1>5, <2>1, ConcatProperties
  <2>3. CASE i <= Len(wire[c])
    BY <1>1, <1>2, <2>2, <2>3
  <2>4. CASE ~(i <= Len(wire[c]))
    <3>1. i - Len(wire[c]) \in 1 .. Len(items) /\ wire'[c][i] = items[i - Len(wire[c])]
      BY <1>2, <2>1, <2>2, <2>4
    <3>2. \A k \in 1 .. Len(items) : /\ items[k] = "429" => job'[c] = "refused"
                                     /\ items[k] = "200" => Accepted(c)'
      BY DEF Writings
    <3> QED BY <3>1, <3>2
  <2> QED BY <2>3, <2>4
<1> QED BY <1>2, <1>3, <1>4, <1>5 DEF WireMove

-----------------------------------------------------------------------------
(* Which node a task is put down to.                                       *)

\* The node recorded for a task accepted one of its calls.  As long as every
\* event could be logged, a task has a node only while the first Run that
\* heard of one lasts, and after it.
Attributed ==
    \A t \in Tasks :
        /\ pc[t] = "sent" => ~saw[t]
        /\ node[t] # None => \E c \in Calls : c[1] = t /\ at[c] = node[t] /\ Accepted(c)
        /\ ~sinkFault => /\ node[t] # None => pc[t] = "done" \/ (pc[t] = "stream" /\ saw[t])
                         /\ pc[t] = "stream" /\ saw[t] => node[t] = target[t]

\* What reading the stream does: it goes on with a node known, it is over, an
\* event was not logged, or it is retried before the first event.
Heard(t) ==
    \/ node'[t] = node[t] \/ (node[t] = None /\ node'[t] = target[t])
Reading(t) ==
    /\ Heard(t) /\ target'[t] = target[t]
    /\ \/ pc'[t] = "done"
       \/ pc'[t] = "stream" /\ saw'[t] /\ node'[t] # None
       \/ pc'[t] = "backoff" /\ sinkFault'
       \/ pc'[t] = "backoff" /\ ~saw[t] /\ node'[t] = node[t]

LEMMA SinkFaultStays == ASSUME TypeOK, [Next]_vars, sinkFault PROVE sinkFault'
<1> USE DEF bounds
<1>1. ASSUME NEW t \in Tasks, RunnerStep(t) \/ CancelTask(t) PROVE sinkFault'
  BY <1>1 DEF RunnerStep, StartRun, BackoffAborted, SelectAndReserve, NoNode, LocalRun, DialFails, DialSucceeds,
              MarkNodeUnreachable, ReadResponse, ReadEvent, ReadBroken, ContextDone, CancelTask
<1>2. ASSUME NEW c \in Calls, WorkerStep(c) \/ LinkDies(c) \/ LinkCut(c) PROVE sinkFault'
  BY <1>2 DEF WorkerStep, Admit, TakeSlot, QueueTimeout, QueueAborted, Finish, LinkDies, LinkCut, Break
<1>3. ASSUME NEW n \in Nodes, WorkerDies(n) \/ WorkerRestarts(n) PROVE sinkFault'
  BY <1>3 DEF WorkerDies, WorkerRestarts
<1>4. ASSUME RegistryStep \/ UNCHANGED vars PROVE sinkFault'
  BY <1>4 DEF RegistryStep, RegisterNode, Heartbeat, TimePasses, RevokeNode, FailTasksOfNode, PruneStaleNodes,
              ListOfflineNodes, vars
<1> QED BY <1>1, <1>2, <1>3, <1>4 DEF Next

LEMMA RunnerReads ==
    ASSUME TypeOK, Placed, NEW t \in Tasks, RunnerStep(t), ~DialSucceeds(t)
    PROVE  /\ pc[t] # "stream" => node'[t] = node[t] /\ saw'[t] = saw[t]
           /\ pc[t] = "stream" => Reading(t)
<1> USE TypeParts DEF RunTypes, regVars, runVars, workVars, bounds
<1>1. CASE StartRun(t) \/ BackoffAborted(t) \/ SelectAndReserve(t) \/ NoNode(t) \/ LocalRun(t) \/ DialFails(t)
           \/ MarkNodeUnreachable(t) \/ ReadResponse(t)
  BY <1>1 DEF StartRun, BackoffAborted, SelectAndReserve, NoNode, LocalRun, DialFails, MarkNodeUnreachable, ReadResponse
<1>2. CASE ContextDone(t)
  BY <1>2 DEF ContextDone, Goto, Reading, Heard
<1>3. CASE ReadBroken(t)
  <2>1. UNCHANGED <<node, target, saw, attempt>> /\ pc[t] \in {"sent", "stream"}
    BY <1>3 DEF ReadBroken
  <2>2. CASE pc[t] = "stream"
    <3>1. CASE saw[t]
      <4>1. RunError(t, FALSE)
        <5>1. ~(pc[t] = "stream" /\ saw[t]) = FALSE
          BY <2>2, <3>1
        <5>2. RunError(t, ~(pc[t] = "stream" /\ saw[t]))
          BY <1>3 DEF ReadBroken
        <5> QED BY <5>1, <5>2, Zenon
      <4> QED BY <2>1, <2>2, <4>1, RunErrorMoves DEF Stops, Reading, Heard
    <3>2. CASE ~saw[t]
      <4>1. \E x \in BOOLEAN : RunError(t, x)
        BY <1>3, Zenon DEF ReadBroken
      <4> QED BY <2>1, <2>2, <3>2, <4>1, RunErrorMoves DEF Stops, Retries, Reading, Heard
    <3> QED BY <3>1, <3>2
  <2> QED BY <2>1, <2>2
<1>4. CASE ReadEvent(t)
  <2>1. pc[t] = "stream" /\ UNCHANGED <<attempt, target>> /\ target[t] \in Nodes /\ target[t] # None
    BY <1>4, NodesAssumption DEF ReadEvent, Placed, Contacted
  <2>2. ASSUME AttributeNode(t) PROVE Heard(t) /\ node'[t] # None
    BY <2>1, <2>2 DEF AttributeNode, Heard
  <2>3. CASE AttributeNode(t) /\ saw' = [saw EXCEPT ![t] = TRUE] /\ UNCHANGED pc
    BY <2>1, <2>2, <2>3 DEF Reading
  <2>4. CASE sinkFault' = TRUE /\ AttributeNode(t) /\ RunError(t, TRUE)
    BY <2>1, <2>2, <2>4, RunErrorMoves DEF Reading, Stops, Retries
  <2>5. CASE AttributeNode(t) /\ Goto(t, "done")
    BY <2>1, <2>2, <2>5 DEF Reading, Goto
  <2>6. CASE RunError(t, FALSE) /\ UNCHANGED node
    BY <2>1, <2>6, RunErrorMoves DEF Reading, Heard, Stops
  <2> QED BY <1>4, <2>3, <2>4, <2>5, <2>6 DEF ReadEvent
<1> QED BY <1>1, <1>2, <1>3, <1>4 DEF RunnerStep

LEMMA AttributedStep ==
    ASSUME TypeOK, Placed, Offers, UnderWay, Attributed, [Next]_vars
    PROVE  Attributed'
<1> USE TypeParts DEF RunTypes, WorkTypes
<1> SUFFICES ASSUME NEW t \in Tasks
             PROVE  /\ pc'[t] = "sent" => ~saw'[t]
                    /\ node'[t] # None => \E c \in Calls : c[1] = t /\ at'[c] = node'[t] /\ Accepted(c)'
                    /\ ~sinkFault' => /\ node'[t] # None => pc'[t] = "done" \/ (pc'[t] = "stream" /\ saw'[t])
                                      /\ pc'[t] = "stream" /\ saw'[t] => node'[t] = target'[t]
  BY DEF Attributed
<1>1. ASSUME NEW c \in Calls, Accepted(c) PROVE at'[c] = at[c] /\ Accepted(c)'
  <2>1. ASSUME NEW u \in Tasks, DialSucceeds(u) PROVE at'[c] = at[c] /\ Accepted(c)'
    BY <1>1, <2>1, HandOver DEF Accepted, Executed
  <2>2. CASE \A u \in Tasks : ~DialSucceeds(u)
    BY <1>1, <2>2, JobsAdvance DEF Advance
  <2> QED BY <2>1, <2>2
<1>2. ASSUME Heard(t), node'[t] = target[t] /\ node[t] = None => pc[t] = "stream"
      PROVE  node'[t] # None => \E c \in Calls : c[1] = t /\ at'[c] = node'[t] /\ Accepted(c)'
  <2>1. CASE node'[t] = node[t] /\ node[t] # None
    <3>1. PICK c \in Calls : c[1] = t /\ at[c] = node[t] /\ Accepted(c)
      BY <2>1 DEF Attributed
    <3> QED BY <1>1, <2>1, <3>1
  <2>2. CASE node[t] = None /\ node'[t] = target[t]
    <3>1. Call(t) \in Calls /\ Call(t)[1] = t /\ at[Call(t)] = target[t] /\ Accepted(Call(t))
      BY <1>2, <2>2, OwnCall DEF UnderWay
    <3> QED BY <1>1, <2>2, <3>1
  <2> QED BY <1>2, <2>1, <2>2 DEF Heard
<1>3. ~sinkFault' => ~sinkFault
  BY SinkFaultStays
<1>4. CASE pc'[t] = pc[t] /\ node'[t] = node[t] /\ saw'[t] = saw[t] /\ target'[t] = target[t]
  <2>1. node'[t] # None => \E c \in Calls : c[1] = t /\ at'[c] = node'[t] /\ Accepted(c)'
    <3>1. CASE node[t] # None
      <4>1. PICK c \in Calls : c[1] = t /\ at[c] = node[t] /\ Accepted(c)
        BY <3>1 DEF Attributed
      <4> QED BY <1>1, <1>4, <4>1
    <3> QED BY <1>4, <3>1
  <2> QED BY <1>3, <1>4, <2>1 DEF Attributed
<1>5. ASSUME DialSucceeds(t)
      PROVE  pc'[t] = "sent" /\ ~saw'[t] /\ node'[t] = node[t] /\ pc[t] = "dial"
  BY <1>5, HandOver
<1>6. CASE DialSucceeds(t)
  <2>1. sinkFault' \/ node[t] = None
    BY <1>3, <1>5, <1>6 DEF Attributed
  <2>2. node'[t] # None => \E c \in Calls : c[1] = t /\ at'[c] = node'[t] /\ Accepted(c)'
    <3>1. CASE node[t] # None
      <4>1. PICK c \in Calls : c[1] = t /\ at[c] = node[t] /\ Accepted(c)
        BY <3>1 DEF Attributed
      <4> QED BY <1>1, <1>5, <1>6, <4>1
    <3> QED BY <1>5, <1>6, <3>1
  <2> QED BY <1>5, <1>6, <2>1, <2>2
<1>7. CASE RunnerStep(t) /\ ~DialSucceeds(t)
  <2>1. Moves(t)
    BY <1>7, RunnerMoves
  <2>2. CASE pc[t] # "stream"
    <3>1. node'[t] = node[t] /\ saw'[t] = saw[t]
      BY <1>7, <2>2, RunnerReads
    <3>2. pc'[t] # "sent" /\ (pc'[t] = "stream" => pc[t] = "sent") /\ (pc[t] = "done" => pc'[t] = "done")
      BY <2>1, <2>2 DEF Moves, Starts, Proceeds, Reoffers, Retries, Stops
    <3>3. node'[t] # None => \E c \in Calls : c[1] = t /\ at'[c] = node'[t] /\ Accepted(c)'
      <4>1. CASE node[t] # None
        <5>1. PICK c \in Calls : c[1] = t /\ at[c] = node[t] /\ Accepted(c)
          BY <4>1 DEF Attributed
        <5> QED BY <1>1, <3>1, <5>1
      <4> QED BY <3>1, <4>1
    <3> QED BY <1>3, <2>2, <3>1, <3>2, <3>3 DEF Attributed
  <2>3. CASE pc[t] = "stream"
    <3>1. Reading(t)
      BY <1>7, <2>3, RunnerReads
    <3>2. node'[t] # None => \E c \in Calls : c[1] = t /\ at'[c] = node'[t] /\ Accepted(c)'
      BY <1>2, <2>3, <3>1 DEF Reading
    <3>3. CASE pc'[t] = "stream" /\ saw'[t] /\ node'[t] # None
      <4>1. sinkFault' \/ node'[t] = target[t]
        BY <1>3, <2>3, <3>1, <3>3 DEF Reading, Heard, Attributed
      <4> QED BY <3>1, <3>2, <3>3, <4>1 DEF Reading
    <3>4. CASE pc'[t] = "backoff" /\ ~saw[t] /\ node'[t] = node[t]
      BY <1>3, <2>3, <3>2, <3>4 DEF Attributed
    <3> QED BY <3>1, <3>2, <3>3, <3>4 DEF Reading
  <2> QED BY <2>2, <2>3
<1>8. ASSUME NEW u \in Tasks, RunnerStep(u), u # t
      PROVE  pc'[t] = pc[t] /\ node'[t] = node[t] /\ saw'[t] = saw[t] /\ target'[t] = target[t]
  <2>1. CASE DialSucceeds(u)
    BY <1>8, <2>1, HandOver
  <2>2. CASE ~DialSucceeds(u)
    BY <1>8, <2>2, RunnerMoves DEF Others
  <2> QED BY <2>1, <2>2
<1> QED BY <1>4, <1>6, <1>7, <1>8, NoRunner

-----------------------------------------------------------------------------
(* Slots.                                                                  *)

\* A runner takes a reservation, gives it back, or leaves them as they are.
Takes(t) ==
    /\ ~InExchange(t) /\ InExchange(t)'
    /\ \E n \in Nodes : inFlight' = [inFlight EXCEPT ![n] = @ + 1] /\ target' = [target EXCEPT ![t] = n]
GivesBack(t) == InExchange(t) /\ ~InExchange(t)' /\ Release(t) /\ UNCHANGED target
Keeps(t) == (InExchange(t)' <=> InExchange(t)) /\ UNCHANGED <<inFlight, target>>

LEMMA RunnerSlots ==
    ASSUME TypeOK, NEW t \in Tasks, RunnerStep(t)
    PROVE  Takes(t) \/ GivesBack(t) \/ Keeps(t)
<1> USE TypeParts DEF RunTypes, regVars, runVars, workVars, bounds, InExchange
<1>1. CASE StartRun(t) \/ BackoffAborted(t) \/ DialSucceeds(t)
  BY <1>1 DEF StartRun, BackoffAborted, DialSucceeds, Goto, Keeps
<1>2. CASE SelectAndReserve(t)
  <2>1. PICK n \in Candidates(t) : inFlight' = [inFlight EXCEPT ![n] = @ + 1] /\ target' = [target EXCEPT ![t] = n]
    BY <1>2 DEF SelectAndReserve
  <2>2. n \in Nodes
    BY DEF Candidates, Matching
  <2> QED BY <1>2, <2>1, <2>2 DEF SelectAndReserve, Goto, Takes
<1>3. CASE NoNode(t) \/ LocalRun(t)
  <2>1. pc[t] \in {"select", "local"} /\ UNCHANGED <<inFlight, target>>
        /\ (Goto(t, "local") \/ Goto(t, "done") \/ RunError(t, TRUE))
    BY <1>3 DEF NoNode, LocalRun
  <2>2. pc'[t] \in {"local", "backoff", "done"}
    BY <2>1, RunErrorType DEF Goto
  <2> QED BY <2>1, <2>2 DEF Keeps
<1>4. CASE DialFails(t) \/ ContextDone(t)
  BY <1>4 DEF DialFails, ContextDone, Goto, GivesBack
<1>5. CASE MarkNodeUnreachable(t)
  BY <1>5, NextAttemptType DEF MarkNodeUnreachable, Keeps
<1>6. CASE ReadResponse(t)
  <2>1. pc[t] = "sent" /\ UNCHANGED target
    BY <1>6 DEF ReadResponse
  <2>2. CASE Goto(t, "stream") /\ UNCHANGED inFlight
    BY <2>1, <2>2 DEF Goto, Keeps
  <2>3. CASE Release(t) /\ NextAttempt(t)
    BY <2>1, <2>3, NextAttemptType DEF GivesBack
  <2>4. CASE Release(t) /\ RunError(t, TRUE)
    BY <2>1, <2>4, RunErrorType DEF GivesBack
  <2> QED BY <1>6, <2>2, <2>3, <2>4 DEF ReadResponse
<1>7. CASE ReadEvent(t)
  <2>1. pc[t] = "stream" /\ UNCHANGED target
    BY <1>7 DEF ReadEvent
  <2>2. CASE UNCHANGED <<pc, inFlight>>
    BY <2>1, <2>2 DEF Keeps
  <2>3. CASE Release(t) /\ (RunError(t, TRUE) \/ RunError(t, FALSE))
    BY <2>1, <2>3, RunErrorType DEF GivesBack
  <2>4. CASE Release(t) /\ Goto(t, "done")
    BY <2>1, <2>4 DEF Goto, GivesBack
  <2> QED BY <1>7, <2>2, <2>3, <2>4 DEF ReadEvent
<1>8. CASE ReadBroken(t)
  <2>1. PICK x \in BOOLEAN : RunError(t, x)
    BY <1>8, Zenon DEF ReadBroken
  <2>2. pc[t] \in {"sent", "stream"} /\ UNCHANGED target /\ Release(t)
    BY <1>8 DEF ReadBroken
  <2> QED BY <2>1, <2>2, RunErrorType DEF GivesBack
<1> QED BY <1>1, <1>2, <1>3, <1>4, <1>5, <1>6, <1>7, <1>8 DEF RunnerStep

LEMMA ReservedStep ==
    ASSUME TypeOK, Placed, Offers, Reserved, [Next]_vars
    PROVE  Reserved'
<1> USE TypeParts DEF RunTypes, RegTypes
<1> SUFFICES ASSUME NEW n \in Nodes PROVE IsFiniteSet(Holders(n)') /\ inFlight'[n] = Cardinality(Holders(n)')
  BY DEF Reserved
<1>0. IsFiniteSet(Holders(n)) /\ inFlight[n] = Cardinality(Holders(n)) /\ inFlight[n] \in Nat
  BY DEF Reserved
<1>1. CASE Holders(n)' = Holders(n) /\ inFlight'[n] = inFlight[n]
  BY <1>0, <1>1
<1>2. ASSUME NEW t \in Tasks, RunnerStep(t)
      PROVE  IsFiniteSet(Holders(n)') /\ inFlight'[n] = Cardinality(Holders(n)')
  <2>1. \A u \in Tasks \ {t} : (InExchange(u)' <=> InExchange(u)) /\ target'[u] = target[u]
    <3>1. CASE DialSucceeds(t)
      BY <1>2, <3>1, HandOver DEF InExchange
    <3>2. CASE ~DialSucceeds(t)
      BY <1>2, <3>2, RunnerMoves DEF Others, InExchange
    <3> QED BY <3>1, <3>2
  <2>2. CASE Takes(t)
    <3>1. PICK m \in Nodes : inFlight' = [inFlight EXCEPT ![m] = @ + 1] /\ target' = [target EXCEPT ![t] = m]
      BY <2>2 DEF Takes
    <3>2. ~InExchange(t) /\ InExchange(t)' /\ target'[t] = m
      BY <2>2, <3>1 DEF Takes
    <3>3. CASE m = n
      <4>1. Holders(n)' = Holders(n) \cup {t} /\ t \notin Holders(n)
        BY <2>1, <3>2, <3>3 DEF Holders
      <4> QED BY <1>0, <3>1, <3>3, <4>1, FS_AddElement
    <3>4. CASE m # n
      <4>1. Holders(n)' = Holders(n)
        BY <2>1, <3>2, <3>4 DEF Holders
      <4> QED BY <1>1, <3>1, <3>4, <4>1
    <3> QED BY <3>3, <3>4
  <2>3. CASE GivesBack(t)
    <3>1. InExchange(t) /\ ~InExchange(t)' /\ Release(t) /\ target'[t] = target[t] /\ target[t] \in Nodes
      BY <2>3 DEF GivesBack, InExchange, Placed, Contacted
    <3>2. CASE target[t] = n
      <4>1. Holders(n)' = Holders(n) \ {t} /\ t \in Holders(n)
        BY <2>1, <3>1, <3>2 DEF Holders
      <4>2. inFlight[n] # 0
        BY <1>0, <4>1, FS_EmptySet
      <4>3. inFlight'[n] = inFlight[n] - 1
        BY <1>0, <3>1, <3>2, <4>2 DEF Release
      <4> QED BY <1>0, <4>1, <4>3, FS_RemoveElement
    <3>3. CASE target[t] # n
      <4>1. Holders(n)' = Holders(n)
        BY <2>1, <3>1, <3>3 DEF Holders
      <4> QED BY <1>1, <3>1, <3>3, <4>1 DEF Release
    <3> QED BY <3>2, <3>3
  <2>4. CASE Keeps(t)
    <3>1. Holders(n)' = Holders(n)
      BY <2>1, <2>4 DEF Keeps, Holders
    <3> QED BY <1>1, <2>4, <3>1 DEF Keeps
  <2> QED BY <1>2, <2>2, <2>3, <2>4, RunnerSlots
<1>3. CASE ~\E t \in Tasks : RunnerStep(t)
  <2>1. UNCHANGED <<pc, target, inFlight>>
    BY <1>3, NoRunner
  <2>2. Holders(n)' = Holders(n)
    BY <2>1 DEF Holders, InExchange
  <2> QED BY <1>1, <2>1, <2>2
<1> QED BY <1>2, <1>3

\* A worker that takes or leaves a slot, and the calls that hold one.
LEMMA SlotsTakenStep ==
    ASSUME TypeOK, Placed, Offers, SlotsTaken, [Next]_vars
    PROVE  SlotsTaken'
<1> USE TypeParts DEF WorkTypes, regVars, runVars, workVars, bounds
<1> DEFINE SemOK(n) == IsFiniteSet(Executing(n)) /\ sem[n] = Cardinality(Executing(n)) /\ sem[n] <= Concurrency[n]
           QueueOK(n) == IsFiniteSet(Queued(n)) /\ queueSem[n] = Cardinality(Queued(n)) /\ queueSem[n] <= QueueSize[n]
<1> SUFFICES ASSUME NEW n \in Nodes PROVE SemOK(n)' /\ QueueOK(n)'
  BY DEF SlotsTaken
<1>0. SemOK(n) /\ QueueOK(n) /\ sem[n] \in Nat /\ queueSem[n] \in Nat /\ Concurrency[n] \in Nat /\ QueueSize[n] \in Nat
  BY WorkerAssumption DEF SlotsTaken
<1>1. ASSUME sem'[n] = sem[n], Executing(n)' = Executing(n) PROVE SemOK(n)'
  BY <1>0, <1>1
<1>2. ASSUME queueSem'[n] = queueSem[n], Queued(n)' = Queued(n) PROVE QueueOK(n)'
  BY <1>0, <1>2
<1>3. ASSUME NEW c \in Calls, c \notin Executing(n), Executing(n)' = Executing(n) \cup {c},
             sem'[n] = sem[n] + 1, sem[n] < Concurrency[n]
      PROVE  SemOK(n)'
  <2>1. IsFiniteSet(Executing(n) \cup {c}) /\ Cardinality(Executing(n) \cup {c}) = Cardinality(Executing(n)) + 1
    BY <1>0, <1>3, FS_AddElement
  <2>2. sem[n] + 1 <= Concurrency[n]
    BY <1>0, <1>3
  <2> QED BY <1>0, <1>3, <2>1, <2>2
<1>4. ASSUME NEW c \in Calls, c \notin Queued(n), Queued(n)' = Queued(n) \cup {c},
             queueSem'[n] = queueSem[n] + 1, queueSem[n] < QueueSize[n]
      PROVE  QueueOK(n)'
  <2>1. IsFiniteSet(Queued(n) \cup {c}) /\ Cardinality(Queued(n) \cup {c}) = Cardinality(Queued(n)) + 1
    BY <1>0, <1>4, FS_AddElement
  <2>2. queueSem[n] + 1 <= QueueSize[n]
    BY <1>0, <1>4
  <2> QED BY <1>0, <1>4, <2>1, <2>2
<1>5. ASSUME NEW c \in Executing(n), Executing(n)' = Executing(n) \ {c}, sem'[n] = sem[n] - 1 PROVE SemOK(n)'
  BY <1>0, <1>5, FS_RemoveElement
<1>6. ASSUME NEW c \in Queued(n), Queued(n)' = Queued(n) \ {c}, queueSem'[n] = queueSem[n] - 1 PROVE QueueOK(n)'
  BY <1>0, <1>6, FS_RemoveElement
<1>7. ASSUME UNCHANGED <<sem, queueSem, job, at>> PROVE SemOK(n)' /\ QueueOK(n)'
  <2>1. Executing(n)' = Executing(n) /\ Queued(n)' = Queued(n)
    BY <1>7 DEF Executing, Queued
  <2> QED BY <1>1, <1>2, <1>7, <2>1
<1>8. ASSUME NEW t \in Tasks, DialSucceeds(t) PROVE SemOK(n)' /\ QueueOK(n)'
  <2>1. Executing(n)' = Executing(n) /\ Queued(n)' = Queued(n)
    BY <1>8, HandOver DEF Executing, Queued
  <2> QED BY <1>1, <1>2, <1>8, <2>1, HandOver
<1>9. ASSUME NEW c \in Calls, Admit(c) PROVE SemOK(n)' /\ QueueOK(n)'
  <2>0. job[c] = "arrived" /\ at[c] \in Nodes /\ at' = at
    BY <1>9 DEF Admit, Placed
  <2>1. CASE /\ sem[at[c]] < Concurrency[at[c]] /\ sem' = [sem EXCEPT ![at[c]] = @ + 1]
             /\ job' = [job EXCEPT ![c] = "executing"] /\ queueSem' = queueSem
    <3>1. Queued(n)' = Queued(n)
      BY <2>0, <2>1 DEF Queued
    <3>2. CASE at[c] = n
      <4>1. c \notin Executing(n) /\ Executing(n)' = Executing(n) \cup {c}
        BY <2>0, <2>1, <3>2 DEF Executing
      <4> QED BY <1>2, <1>3, <2>1, <3>1, <3>2, <4>1
    <3>3. CASE at[c] # n
      <4>1. Executing(n)' = Executing(n)
        BY <2>0, <2>1, <3>3 DEF Executing
      <4> QED BY <1>1, <1>2, <2>1, <3>1, <3>3, <4>1
    <3> QED BY <3>2, <3>3
  <2>2. CASE /\ queueSem[at[c]] < QueueSize[at[c]] /\ queueSem' = [queueSem EXCEPT ![at[c]] = @ + 1]
             /\ job' = [job EXCEPT ![c] = "queued"] /\ sem' = sem
    <3>1. Executing(n)' = Executing(n)
      BY <2>0, <2>2 DEF Executing
    <3>2. CASE at[c] = n
      <4>1. c \notin Queued(n) /\ Queued(n)' = Queued(n) \cup {c}
        BY <2>0, <2>2, <3>2 DEF Queued
      <4> QED BY <1>1, <1>4, <2>2, <3>1, <3>2, <4>1
    <3>3. CASE at[c] # n
      <4>1. Queued(n)' = Queued(n)
        BY <2>0, <2>2, <3>3 DEF Queued
      <4> QED BY <1>1, <1>2, <2>2, <3>1, <3>3, <4>1
    <3> QED BY <3>2, <3>3
  <2>3. CASE job' = [job EXCEPT ![c] = "refused"] /\ UNCHANGED <<sem, queueSem>>
    <3>1. Executing(n)' = Executing(n) /\ Queued(n)' = Queued(n)
      BY <2>0, <2>3 DEF Executing, Queued
    <3> QED BY <1>1, <1>2, <2>3, <3>1
  <2> QED BY <1>9, <2>1, <2>2, <2>3 DEF Admit, Become
<1>10. ASSUME NEW c \in Calls, job[c] = "queued", LeaveQueue(c), UNCHANGED at, at[c] \in Nodes,
              job'[c] # "queued", \A d \in Calls \ {c} : job'[d] = job[d]
       PROVE  QueueOK(n)'
  <2>1. CASE at[c] = n
    <3>1. c \in Queued(n) /\ Queued(n)' = Queued(n) \ {c}
      BY <1>10, <2>1 DEF Queued
    <3> QED BY <1>6, <1>10, <2>1, <3>1 DEF LeaveQueue
  <2>2. CASE at[c] # n
    <3>1. Queued(n)' = Queued(n)
      BY <1>10, <2>2 DEF Queued
    <3> QED BY <1>2, <1>10, <2>2, <3>1 DEF LeaveQueue
  <2> QED BY <2>1, <2>2
<1>11. ASSUME NEW c \in Calls, TakeSlot(c) PROVE SemOK(n)' /\ QueueOK(n)'
  <2>1. /\ job[c] = "queued" /\ LeaveQueue(c) /\ UNCHANGED at /\ at[c] \in Nodes
        /\ sem[at[c]] < Concurrency[at[c]] /\ sem' = [sem EXCEPT ![at[c]] = @ + 1]
        /\ job' = [job EXCEPT ![c] = "executing"]
    BY <1>11 DEF TakeSlot, Become, Placed
  <2>2. QueueOK(n)'
    BY <1>10, <2>1
  <2>3. CASE at[c] = n
    <3>1. c \notin Executing(n) /\ Executing(n)' = Executing(n) \cup {c}
      BY <2>1, <2>3 DEF Executing
    <3> QED BY <1>3, <2>1, <2>2, <2>3, <3>1
  <2>4. CASE at[c] # n
    <3>1. Executing(n)' = Executing(n)
      BY <2>1, <2>4 DEF Executing
    <3> QED BY <1>1, <2>1, <2>2, <2>4, <3>1
  <2> QED BY <2>3, <2>4
<1>12. ASSUME NEW c \in Calls, QueueTimeout(c) \/ QueueAborted(c) PROVE SemOK(n)' /\ QueueOK(n)'
  <2>1. /\ job[c] = "queued" /\ LeaveQueue(c) /\ UNCHANGED <<at, sem>> /\ at[c] \in Nodes
        /\ job' = [job EXCEPT ![c] = "expired"]
    BY <1>12 DEF QueueTimeout, QueueAborted, Become, Placed
  <2>2. QueueOK(n)'
    BY <1>10, <2>1
  <2>3. Executing(n)' = Executing(n)
    BY <2>1 DEF Executing
  <2> QED BY <1>1, <2>1, <2>2, <2>3
<1>13. ASSUME NEW c \in Calls, Finish(c) PROVE SemOK(n)' /\ QueueOK(n)'
  <2>1. /\ job[c] = "executing" /\ UNCHANGED <<at, queueSem>> /\ at[c] \in Nodes
        /\ sem' = [sem EXCEPT ![at[c]] = @ - 1] /\ job' = [job EXCEPT ![c] = "ended"]
    BY <1>13 DEF Finish, Become, Placed
  <2>2. Queued(n)' = Queued(n)
    BY <2>1 DEF Queued
  <2>3. CASE at[c] = n
    <3>1. c \in Executing(n) /\ Executing(n)' = Executing(n) \ {c}
      BY <2>1, <2>3 DEF Executing
    <3> QED BY <1>2, <1>5, <2>1, <2>2, <2>3, <3>1
  <2>4. CASE at[c] # n
    <3>1. Executing(n)' = Executing(n)
      BY <2>1, <2>4 DEF Executing
    <3> QED BY <1>1, <1>2, <2>1, <2>2, <2>4, <3>1
  <2> QED BY <2>3, <2>4
<1>14. ASSUME NEW m \in Nodes, WorkerDies(m) PROVE SemOK(n)' /\ QueueOK(n)'
  <2>1. /\ sem' = [sem EXCEPT ![m] = 0] /\ queueSem' = [queueSem EXCEPT ![m] = 0] /\ at' = at
        /\ \A c \in Calls : IF at[c] # m THEN job'[c] = job[c] ELSE job'[c] \notin {"executing", "queued"}
    BY <1>14 DEF WorkerDies, Jobs
  <2>2. CASE m = n
    <3>1. Executing(n)' = {} /\ Queued(n)' = {}
      BY <2>1, <2>2 DEF Executing, Queued
    <3> QED BY <1>0, <2>1, <2>2, <3>1, FS_EmptySet
  <2>3. CASE m # n
    <3>1. Executing(n)' = Executing(n) /\ Queued(n)' = Queued(n)
      BY <2>1, <2>3 DEF Executing, Queued
    <3> QED BY <1>1, <1>2, <2>1, <2>3, <3>1
  <2> QED BY <2>2, <2>3
<1>15. ASSUME NEW t \in Tasks, ~DialSucceeds(t), RunnerStep(t) \/ CancelTask(t) PROVE UNCHANGED <<sem, queueSem, job, at>>
  BY <1>15 DEF RunnerStep, StartRun, BackoffAborted, SelectAndReserve, NoNode, LocalRun, DialFails,
               MarkNodeUnreachable, ReadResponse, ReadEvent, ReadBroken, ContextDone, CancelTask
<1>16. ASSUME NEW c \in Calls, LinkDies(c) \/ LinkCut(c) PROVE UNCHANGED <<sem, queueSem, job, at>>
  BY <1>16 DEF LinkDies, LinkCut, Break
<1>17. ASSUME NEW m \in Nodes, WorkerRestarts(m) PROVE UNCHANGED <<sem, queueSem, job, at>>
  BY <1>17 DEF WorkerRestarts
<1>18. ASSUME RegistryStep \/ UNCHANGED vars PROVE UNCHANGED <<sem, queueSem, job, at>>
  BY <1>18 DEF RegistryStep, RegisterNode, Heartbeat, TimePasses, RevokeNode, FailTasksOfNode, PruneStaleNodes,
               ListOfflineNodes, vars
<1> QED BY <1>7, <1>8, <1>9, <1>11, <1>12, <1>13, <1>14, <1>15, <1>16, <1>17, <1>18 DEF Next, WorkerStep

-----------------------------------------------------------------------------
(* The theorems.                                                           *)

MeshInv ==
    /\ TypeOK /\ Placed /\ Reserved /\ SlotsTaken
    /\ Offers /\ UnderWay /\ Answered /\ OneLive /\ Attributed

LEMMA MeshInit == Init => MeshInv
<1> SUFFICES ASSUME Init PROVE MeshInv
  OBVIOUS
<1>1. TypeOK
  <2>1. 1 \in 1 .. meshDispatchAttempts /\ 0 \in 0 .. MaxFaults /\ <<>> \in Seq(Items)
    BY BoundsAssumption
  <2>2. RegTypes /\ WorkTypes /\ BoundTypes
    BY <2>1 DEF Init, RegTypes, WorkTypes, BoundTypes, Jobs
  <2>3. RunTypes
    BY <2>1, WorkerAssumption DEF Init, RunTypes
  <2> QED BY <2>2, <2>3, TypeParts
<1>2. Placed
  BY DEF Init, Placed, Contacted
<1>3. Reserved
  <2>1. \A n \in Nodes : Holders(n) = {}
    BY DEF Init, Holders, InExchange
  <2> QED BY <2>1, FS_EmptySet DEF Init, Reserved
<1>4. SlotsTaken
  <2>1. \A n \in Nodes : Executing(n) = {} /\ Queued(n) = {}
    BY DEF Init, Executing, Queued
  <2>2. \A n \in Nodes : sem[n] = 0 /\ queueSem[n] = 0 /\ 0 <= Concurrency[n] /\ 0 <= QueueSize[n]
    BY WorkerAssumption DEF Init
  <2> QED BY <2>1, <2>2, FS_EmptySet DEF SlotsTaken
<1>5. Offers
  BY DEF Init, Offers
<1>6. UnderWay /\ Answered
  BY DEF Init, UnderWay, Answered
<1>7. OneLive
  BY DEF Init, OneLive, Live
<1>8. Attributed
  BY DEF Init, Attributed
<1> QED BY <1>1, <1>2, <1>3, <1>4, <1>5, <1>6, <1>7, <1>8 DEF MeshInv

LEMMA MeshStep == MeshInv /\ [Next]_vars => MeshInv'
<1> SUFFICES ASSUME MeshInv, [Next]_vars PROVE MeshInv'
  OBVIOUS
<1>1. TypeOK /\ Placed /\ Reserved /\ SlotsTaken /\ Offers /\ UnderWay /\ Answered /\ OneLive /\ Attributed
  BY DEF MeshInv
<1>2. (RegTypes /\ RunTypes /\ WorkTypes /\ BoundTypes)'
  BY <1>1, RegTypesStep, RunTypesStep, WorkTypesStep, BoundTypesStep
<1>3. TypeOK'
  BY <1>2 DEF TypeOK, RegTypes, RunTypes, WorkTypes, BoundTypes, Jobs, Items
<1>4. Placed' /\ Offers' /\ UnderWay' /\ Answered' /\ OneLive' /\ Attributed' /\ Reserved' /\ SlotsTaken'
  BY <1>1, PlacedStep, OffersStep, UnderWayStep, AnsweredStep, OneLiveStep, AttributedStep, ReservedStep, SlotsTakenStep
<1> QED BY <1>3, <1>4 DEF MeshInv

LEMMA MeshInductive == Spec => []MeshInv
  BY MeshInit, MeshStep, PTL DEF Spec

\* Every variable of the registry, the runners and the workers keeps its type,
\* however many tasks, nodes and disturbances there are.
THEOREM MeshTypeCorrect == Spec => []TypeOK
<1>1. MeshInv => TypeOK
  BY DEF MeshInv
<1> QED BY <1>1, MeshInductive, PTL

\* The load the router sees is exactly the dispatches under way, and the
\* semaphores of a worker count exactly the calls it executes and queues: no
\* order of failures, retries, prunings and restarts leaks or double-frees one.
THEOREM MeshSlotsBalance == Spec => []SlotsBalance
<1>1. MeshInv => SlotsBalance
  BY DEF MeshInv, Reserved, SlotsTaken, SlotsBalance, Holders, Executing, Queued
<1> QED BY <1>1, MeshInductive, PTL

\* A Run of the MeshRunner is accepted by at most one worker, and the node put
\* down for a task accepted one of its calls.
THEOREM MeshOneAcceptPerRun == Spec => []OneAcceptPerRun
<1>1. ASSUME MeshInv PROVE OneAcceptPerRun
  <2>1. \A c \in Calls : Accepted(c) => Live(c)
    BY DEF Accepted, Executed, Live
  <2>2. \A c, d \in Calls : c[1] = d[1] /\ c[2] = d[2] /\ Accepted(c) /\ Accepted(d) => c = d
    BY <1>1, <2>1 DEF MeshInv, OneLive
  <2> QED BY <1>1, <2>2 DEF MeshInv, Attributed, OneAcceptPerRun
<1> QED BY <1>1, MeshInductive, PTL

=============================================================================
