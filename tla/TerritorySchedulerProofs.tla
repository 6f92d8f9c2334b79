---------------------- MODULE TerritorySchedulerProofs ----------------------
(***************************************************************************)
(* Theorems about TerritoryScheduler, for every set of tasks, requests,    *)
(* modes and peers.                                                        *)
(***************************************************************************)
EXTENDS TerritoryScheduler, SequenceTheorems, TLAPS

-----------------------------------------------------------------------------
(* What the two queue operations do to a sequence.                         *)

\* enqueueByPriorityLocked: the element goes to position p, the rest shifts.
LEMMA InsertAtFacts ==
  ASSUME NEW S, NEW s \in Seq(S), NEW e \in S, NEW p \in 1 .. Len(s) + 1
  PROVE  /\ InsertAt(s, p, e) \in Seq(S)
         /\ Len(InsertAt(s, p, e)) = Len(s) + 1
         /\ \A i \in 1 .. Len(s) + 1 : 
              InsertAt(s, p, e)[i] = IF i < p THEN s[i] ELSE IF i = p THEN e ELSE s[i-1]
<1> DEFINE a == SubSeq(s, 1, p - 1)
           b == SubSeq(s, p, Len(s))
           ae == a \o <<e>>
<1>1. /\ a \in Seq(S) /\ Len(a) = p - 1
      /\ \A i \in 1 .. p - 1 : a[i] = s[i]
  BY SubSeqProperties
<1>2. /\ b \in Seq(S) /\ Len(b) = Len(s) - p + 1
      /\ \A i \in 1 .. Len(s) - p + 1 : b[i] = s[p + i - 1]
  BY SubSeqProperties
<1>3. <<e>> \in Seq(S) /\ Len(<<e>>) = 1 /\ <<e>>[1] = e
  OBVIOUS
<1> HIDE DEF a, b
<1>4. /\ ae \in Seq(S) /\ Len(ae) = p
      /\ \A i \in 1 .. p : ae[i] = IF i < p THEN s[i] ELSE e
  BY <1>1, <1>3, ConcatProperties
<1> HIDE DEF ae
<1>5. /\ ae \o b \in Seq(S) /\ Len(ae \o b) = Len(ae) + Len(b)
      /\ \A i \in 1 .. Len(ae) + Len(b) :
            (ae \o b)[i] = IF i <= Len(ae) THEN ae[i] ELSE b[i - Len(ae)]
  BY <1>2, <1>4, ConcatProperties
<1>7. Len(s) \in Nat /\ Len(ae) + Len(b) = Len(s) + 1
  BY <1>2, <1>4
<1>6. InsertAt(s, p, e) = ae \o b
  BY DEF InsertAt, ae, a, b
<1>8. ASSUME NEW i \in 1 .. Len(s) + 1
      PROVE  (ae \o b)[i] = IF i < p THEN s[i] ELSE IF i = p THEN e ELSE s[i-1]
  <2>1. CASE i <= p
    BY <2>1, <1>4, <1>5, <1>7
  <2>2. CASE i > p
    <3>1. i - p \in 1 .. Len(s) - p + 1 /\ p + (i - p) - 1 = i - 1
      BY <2>2, <1>7
    <3> QED BY <3>1, <2>2, <1>2, <1>4, <1>5, <1>7
  <2> QED BY <2>1, <2>2, <1>4, <1>7
<1> QED
  BY <1>5, <1>6, <1>7, <1>8

\* A dispatch or a cancellation takes position p out of the queue.
LEMMA RemoveAtFacts ==
  ASSUME NEW S, NEW s \in Seq(S), NEW p \in 1 .. Len(s)
  PROVE  /\ RemoveAt(s, p) \in Seq(S)
         /\ Len(RemoveAt(s, p)) = Len(s) - 1
         /\ \A i \in 1 .. Len(s) - 1 : 
              RemoveAt(s, p)[i] = IF i < p THEN s[i] ELSE s[i+1]
<1> DEFINE a == SubSeq(s, 1, p - 1)
           b == SubSeq(s, p + 1, Len(s))
<1>1. /\ a \in Seq(S) /\ Len(a) = p - 1
      /\ \A i \in 1 .. p - 1 : a[i] = s[i]
  BY SubSeqProperties
<1>2. /\ b \in Seq(S) /\ Len(b) = Len(s) - p
      /\ \A i \in 1 .. Len(s) - p : b[i] = s[p + i]
  BY SubSeqProperties
<1> HIDE DEF a, b
<1>3. /\ a \o b \in Seq(S) /\ Len(a \o b) = Len(a) + Len(b)
      /\ \A i \in 1 .. Len(a) + Len(b) :
            (a \o b)[i] = IF i <= Len(a) THEN a[i] ELSE b[i - Len(a)]
  BY <1>1, <1>2, ConcatProperties
<1>5. Len(s) \in Nat /\ Len(a) + Len(b) = Len(s) - 1
  BY <1>1, <1>2
<1>6. ASSUME NEW i \in 1 .. Len(s) - 1
      PROVE  (a \o b)[i] = IF i < p THEN s[i] ELSE s[i + 1]
  <2>1. CASE i < p
    BY <2>1, <1>1, <1>3, <1>5
  <2>2. CASE i >= p
    <3>1. i - (p - 1) \in 1 .. Len(s) - p /\ p + (i - (p - 1)) = i + 1
      BY <2>2, <1>5
    <3>2. i \in 1 .. Len(a) + Len(b) /\ ~(i <= Len(a)) /\ i - Len(a) = i - (p - 1)
      BY <2>2, <1>1, <1>5
    <3>3. (a \o b)[i] = b[i - (p - 1)]
      BY <3>2, <1>3
    <3>4. b[i - (p - 1)] = s[p + (i - (p - 1))]
      BY <3>1, <1>2
    <3> QED BY <3>1, <3>3, <3>4, <2>2
  <2> QED BY <2>1, <2>2, <1>5
<1>4. RemoveAt(s, p) = a \o b
  BY DEF RemoveAt, a, b
<1> QED
  BY <1>3, <1>4, <1>5, <1>6

-----------------------------------------------------------------------------
(* The strengthening.                                                      *)

\* The runner goroutine of t still has complete() ahead of it.
Tracked(t) == runner[t] \in {"dispatched", "executing", "waiting", "finishing", "released"}

\* s.running is the set of tasks whose goroutine is before complete(); a task
\* is running only while its goroutine has not seen Run return for good, and
\* has none before it is dispatched.
RunnerMatches ==
    \A t \in Tasks :
        /\ t \in running <=> Tracked(t)
        /\ status[t] = "running" => runner[t] \in {"dispatched", "executing", "waiting"}
        /\ status[t] \in {"none", "queued"} => runner[t] = "none"

\* The create handler is before CreateTask only while there is no task.
HandlerMatches ==
    \A t \in Tasks : handler[t] \in {"idle", "refused", "admitted"} => status[t] = "none"

\* The cancel handler releases and drains only after it finalized the task.
CancelerMatches ==
    \A t \in Tasks :
        /\ canceler[t] \in {"canceled", "released", "draining"} => Terminal(t)
        /\ canceler[t] # "idle" => status[t] # "none"

\* Who holds s.mu for a scan is at its drain.
DrainerMatches ==
    \A t \in Tasks : /\ muOwner = <<"runner", t>> => runner[t] = "draining"
                     /\ muOwner = <<"cancel", t>> => canceler[t] = "draining"

\* Between the two halves of complete() the task holds no lock any more.
ReleasedGaveLock ==
    \A k \in LockKeys :
        locks[k] # None => NeedsLock(locks[k]) /\ runner[locks[k]] # "released"

\* The surfaces a task declared are never taken away from it.
DeclaredKept == \A t \in Tasks : Request[t].surfaces \subseteq surfaces[t]

\* Only Schedule puts a task in the queue, and it does so once.
QueueScheduled == \A i \in 1 .. Len(queue) : handler[queue[i]] = "done"

LockInv ==
    /\ TypeOK /\ RunnerMatches /\ HandlerMatches /\ CancelerMatches
    /\ DrainerMatches /\ ReleasedGaveLock /\ LockHolderTracked /\ RunningHoldsLock

QueueInv == LockInv /\ DeclaredKept /\ QueueScheduled /\ RunningDeclaredDisjoint /\ QueueOrdered

-----------------------------------------------------------------------------
(* Type correctness.                                                       *)

LEMMA TypeStep == TypeOK /\ [Next]_vars => TypeOK'
<1> SUFFICES ASSUME TypeOK, [Next]_vars PROVE TypeOK'
  OBVIOUS
<1> USE DEF TypeOK, RunnerStates, schedVars, taskVars, HandlerAt, RunnerAt, CancelerAt, SetStatus
<1> USE RequestAssumption
<1>1. ASSUME NEW t \in Tasks, AdmitStrict(t) PROVE TypeOK'
  BY <1>1 DEF AdmitStrict
<1>2. ASSUME NEW t \in Tasks, CreateTask(t) PROVE TypeOK'
  BY <1>2 DEF CreateTask
<1>3. ASSUME NEW t \in Tasks, ScheduleStarts(t) PROVE TypeOK'
  <2>1. LockKey(t) \in LockKeys
    BY DEF LockKeys
  <2> QED BY <1>3, <2>1 DEF ScheduleStarts, DispatchUnderLock, ClaimLock
<1>4. ASSUME NEW t \in Tasks, ScheduleEnqueues(t) PROVE TypeOK'
  <2>1. PICK p \in 1 .. Len(queue) + 1 : queue' = InsertAt(queue, p, t)
    BY <1>4 DEF ScheduleEnqueues, EnqueueByPriority
  <2>2. queue' \in Seq(Tasks)
    BY <2>1, InsertAtFacts
  <2> QED BY <1>4, <2>2 DEF ScheduleEnqueues
<1>5. ASSUME NEW t \in Tasks, ScheduleFails(t) \/ CancelRejected(t) PROVE TypeOK'
  BY <1>5 DEF ScheduleFails, CancelRejected, Finalize
<1>6. ASSUME NEW t \in Tasks, StartRunner(t) \/ RunReturns(t) \/ RunFails(t) \/ RetryTimer(t) \/ WaitAborted(t)
      PROVE  TypeOK'
  BY <1>6, ZenonT(30) DEF StartRunner, RunReturns, RunFails, RetryTimer, WaitAborted, Finalize
<1>7. ASSUME NEW t \in Tasks, RunRetries(t) PROVE TypeOK'
  <2>1. retries' \in [Tasks -> Nat] /\ \A u \in Tasks : retries'[u] <= Request[u].maxRetries
    BY <1>7 DEF RunRetries
  <2> QED BY <1>7, <2>1 DEF RunRetries
<1>8. ASSUME NEW t \in Tasks, ReleaseBranchLock(t) \/ CancelReleasesLock(t) PROVE TypeOK'
  BY <1>8 DEF ReleaseBranchLock, CancelReleasesLock, ReleaseLock
<1>9. ASSUME NEW t \in Tasks, Complete(t) \/ CancelDrains(t) PROVE TypeOK'
  <2>1. <<"runner", t>> \in Threads /\ <<"cancel", t>> \in Threads
    BY DEF Threads
  <2>2. CASE Complete(t)
    BY <2>1, <2>2 DEF Complete, BeginDrain
  <2>3. CASE CancelDrains(t)
    BY <2>1, <2>3 DEF CancelDrains, BeginDrain
  <2> QED BY <1>9, <2>2, <2>3
<1>10. ASSUME NEW t \in Tasks, CancelQueued(t) PROVE TypeOK'
  <2>1. queue' \in Seq(Tasks)
    BY <1>10, RemoveAtFacts DEF CancelQueued
  <2> QED BY <1>10, <2>1 DEF CancelQueued
<1>11. ASSUME NEW t \in Tasks, CancelTask(t) PROVE TypeOK'
  BY <1>11 DEF CancelTask, Finalize
<1>12. ASSUME NEW t \in Tasks, NEW s \in {"completed", "failed"}, EmitResult(t, s) PROVE TypeOK'
  BY <1>12 DEF EmitResult
<1>13. ASSUME NEW t \in Tasks, NEW x \in Surfaces, AddEditSurface(t, x) PROVE TypeOK'
  BY <1>13 DEF AddEditSurface
<1>14. ASSUME NEW t \in Tasks, FailTaskOfNode(t) PROVE TypeOK'
  BY <1>14 DEF FailTaskOfNode
<1>15. CASE DrainDispatches
  <2>1. scan \in 1 .. Len(queue) /\ queue[scan] \in Tasks
    BY <1>15 DEF DrainDispatches
  <2>2. queue' \in Seq(Tasks)
    BY <1>15, <2>1, RemoveAtFacts DEF DrainDispatches
  <2>3. LockKey(queue[scan]) \in LockKeys
    BY <2>1 DEF LockKeys
  <2> QED BY <1>15, <2>1, <2>2, <2>3 DEF DrainDispatches, DispatchUnderLock, ClaimLock
<1>16. CASE DrainKeeps
  BY <1>16 DEF DrainKeeps
<1>17. ASSUME NEW t \in Tasks, DrainEnds(t) PROVE TypeOK'
  <2>1. CASE RunnerAt(t, "done") /\ UNCHANGED canceler
    BY <1>17, <2>1 DEF DrainEnds
  <2>2. CASE CancelerAt(t, "done") /\ UNCHANGED runner
    BY <1>17, <2>2 DEF DrainEnds
  <2> QED BY <1>17, <2>1, <2>2 DEF DrainEnds
<1>18. CASE SyncPeer
  BY <1>18 DEF SyncPeer
<1>19. CASE UNCHANGED vars
  BY <1>19 DEF vars
<1> QED
  BY <1>1, <1>2, <1>3, <1>4, <1>5, <1>6, <1>7, <1>8, <1>9, <1>10, <1>11, <1>12, <1>13,
     <1>14, <1>15, <1>16, <1>17, <1>18, <1>19
     DEF Next, ScheduleStep, RunStep, CancelStep, DrainStep, Idle

\* The type invariant of the scheduler, with the retry budget of handleRetry.
THEOREM TypeCorrect == Spec => []TypeOK
<1>1. Init => TypeOK
  BY RequestAssumption DEF Init, TypeOK, RunnerStates
<1> QED
  BY <1>1, TypeStep, PTL DEF Spec

-----------------------------------------------------------------------------
(* Branch locks.                                                           *)

LEMMA LockKeyType == \A t \in Tasks : LockKey(t) \in LockKeys
BY DEF LockKeys

\* A dispatch needs a queued task, which has no runner goroutine yet.
LEMMA DispatchLock ==
    ASSUME LockInv, NEW t \in Tasks, DispatchUnderLock(t), TypeOK', UNCHANGED <<canceler, muOwner>>,
           \A u \in Tasks : handler'[u] = handler[u] \/ handler'[u] = "done"
    PROVE  LockInv'
<1> USE DEF LockInv, TypeOK
<1> DEFINE k == LockKey(t)
<1>1. /\ status[t] = "queued" /\ runner[t] = "none" /\ t \notin running
      /\ status' = [status EXCEPT ![t] = "running"]
      /\ runner' = [runner EXCEPT ![t] = "dispatched"]
      /\ running' = running \cup {t}
  BY DEF DispatchUnderLock, CanDispatch, SetStatus, RunnerAt, RunnerMatches, Tracked
<1>2. RunnerMatches'
  BY <1>1 DEF RunnerMatches, Tracked
<1>3. HandlerMatches' /\ CancelerMatches'
  <2>1. HandlerMatches'
    BY <1>1 DEF HandlerMatches
  <2>2. CancelerMatches'
    BY <1>1 DEF CancelerMatches, Terminal
  <2> QED BY <2>1, <2>2
<1>7. DrainerMatches'
  BY <1>1 DEF DrainerMatches
<1>4. k \in LockKeys /\ t # None
  BY LockKeyType, NoneAssumption
<1>5. CASE NeedsLock(t)
  <2>1. locks' = [locks EXCEPT ![k] = t] /\ locks[k] = None
    <3>1. locks[k] \in {None, t}
      BY <1>5 DEF DispatchUnderLock, CanDispatch, LockAvailable
    <3>2. locks[k] # t
      BY <1>1, <1>4 DEF LockHolderTracked
    <3> QED BY <1>5, <3>1, <3>2 DEF DispatchUnderLock, ClaimLock
  <2>2. ReleasedGaveLock'
    <3> SUFFICES ASSUME NEW q \in LockKeys, locks'[q] # None
                 PROVE  NeedsLock(locks'[q]) /\ runner'[locks'[q]] # "released"
      BY DEF ReleasedGaveLock
    <3>1. CASE q = k
      BY <3>1, <1>1, <1>4, <1>5, <2>1
    <3>2. CASE q # k
      BY <3>2, <1>1, <1>4, <2>1 DEF ReleasedGaveLock
    <3> QED BY <3>1, <3>2
  <2>3. LockHolderTracked'
    BY <1>1, <1>4, <2>1 DEF LockHolderTracked
  <2>4. RunningHoldsLock'
    <3> SUFFICES ASSUME NEW u \in Tasks, status'[u] = "running"
                 PROVE  u \in running' /\ (NeedsLock(u) => locks'[LockKey(u)] = u)
      BY DEF RunningHoldsLock, HoldsLock
    <3>1. CASE u = t
      BY <3>1, <1>1, <1>4, <2>1
    <3>2. CASE u # t
      <4>1. u \in running /\ (NeedsLock(u) => locks[LockKey(u)] = u) /\ u # None
        BY <3>2, <1>1, NoneAssumption DEF RunningHoldsLock, HoldsLock
      <4>2. NeedsLock(u) => LockKey(u) # k
        BY <4>1, <2>1
      <4> QED BY <4>1, <4>2, <2>1, <1>1, LockKeyType
    <3> QED BY <3>1, <3>2
  <2> QED BY <1>2, <1>3, <1>7, <2>2, <2>3, <2>4
<1>6. CASE ~NeedsLock(t)
  <2>1. locks' = locks
    BY <1>6 DEF DispatchUnderLock, ClaimLock
  <2>2. ReleasedGaveLock'
    BY <1>1, <2>1 DEF ReleasedGaveLock
  <2>3. LockHolderTracked'
    BY <1>1, <2>1 DEF LockHolderTracked
  <2>4. RunningHoldsLock'
    BY <1>1, <1>6, <2>1 DEF RunningHoldsLock, HoldsLock
  <2> QED BY <1>2, <1>3, <1>7, <2>2, <2>3, <2>4
<1> QED BY <1>5, <1>6

\* Giving back a branch lock disturbs no other task, whoever holds the branch.
LEMMA ReleaseLockFacts ==
    ASSUME TypeOK, LockHolderTracked, NEW t \in Tasks, ReleaseLock(t)
    PROVE  /\ locks' \in [LockKeys -> Tasks \cup {None}]
           /\ \A q \in LockKeys : locks'[q] = locks[q] \/ locks'[q] = None
           /\ NeedsLock(t) => locks'[LockKey(t)] # t
           /\ \A u \in Tasks \ {t} : NeedsLock(u) /\ locks[LockKey(u)] = u => locks'[LockKey(u)] = u
<1> USE DEF TypeOK, ReleaseLock
<1>1. LockKey(t) \in LockKeys /\ t # None
  BY LockKeyType, NoneAssumption
<1> QED BY <1>1, LockKeyType

\* Every step keeps the control state, the status, the tracked tasks and the
\* branch locks consistent.
LEMMA LockStep == LockInv /\ [Next]_vars => LockInv'
<1> SUFFICES ASSUME LockInv, [Next]_vars PROVE LockInv'
  OBVIOUS
<1>0. TypeOK /\ TypeOK'
  BY TypeStep DEF LockInv
<1> DEFINE Parts == /\ RunnerMatches /\ HandlerMatches /\ CancelerMatches
                    /\ DrainerMatches /\ ReleasedGaveLock /\ LockHolderTracked /\ RunningHoldsLock
<1>p. Parts
  BY DEF LockInv
<1> SUFFICES Parts'
  BY <1>0 DEF LockInv
<1> USE <1>0, <1>p DEF TypeOK, schedVars, taskVars, HandlerAt, RunnerAt, CancelerAt, SetStatus, Terminal,
            RunnerMatches, Tracked, HandlerMatches, CancelerMatches, DrainerMatches,
            ReleasedGaveLock, LockHolderTracked, RunningHoldsLock, HoldsLock
<1>1. ASSUME NEW t \in Tasks, AdmitStrict(t) PROVE Parts'
  BY <1>1 DEF AdmitStrict
<1>2. ASSUME NEW t \in Tasks, CreateTask(t) PROVE Parts'
  BY <1>2 DEF CreateTask
<1>3. ASSUME NEW t \in Tasks, ScheduleStarts(t) PROVE Parts'
  BY <1>3, DispatchLock DEF ScheduleStarts, LockInv
<1>4. ASSUME NEW t \in Tasks, ScheduleEnqueues(t) PROVE Parts'
  BY <1>4 DEF ScheduleEnqueues
<1>5. ASSUME NEW t \in Tasks, ScheduleFails(t) PROVE Parts'
  BY <1>5 DEF ScheduleFails
<1>6. ASSUME NEW t \in Tasks, CancelRejected(t) PROVE Parts'
  BY <1>6 DEF CancelRejected, Finalize
<1>7. ASSUME NEW t \in Tasks, StartRunner(t) \/ RetryTimer(t) PROVE Parts'
  BY <1>7 DEF StartRunner, RetryTimer
<1>8. ASSUME NEW t \in Tasks, RunReturns(t) \/ RunFails(t) PROVE Parts'
  <2>1. CASE RunReturns(t)
    BY <2>1 DEF RunReturns
  <2>2. CASE RunFails(t)
    BY <2>2 DEF RunFails
  <2> QED BY <1>8, <2>1, <2>2
<1>9. ASSUME NEW t \in Tasks, RunRetries(t) PROVE Parts'
  BY <1>9 DEF RunRetries
<1>10. ASSUME NEW t \in Tasks, WaitAborted(t) PROVE Parts'
  BY <1>10 DEF WaitAborted, Finalize
<1>11. ASSUME NEW t \in Tasks, ReleaseBranchLock(t) PROVE Parts'
  <2>1. /\ runner[t] = "finishing" /\ ReleaseLock(t) /\ runner' = [runner EXCEPT ![t] = "released"]
        /\ UNCHANGED <<status, running, handler, canceler, muOwner>>
    BY <1>11 DEF ReleaseBranchLock
  <2>2. RunnerMatches' /\ HandlerMatches' /\ CancelerMatches' /\ DrainerMatches'
    BY <2>1
  <2>3. LockHolderTracked'
    BY <2>1, ReleaseLockFacts
  <2>4. ReleasedGaveLock'
    BY <2>1, ReleaseLockFacts
  <2>5. RunningHoldsLock'
    <3>1. status[t] # "running"
      BY <2>1
    <3> QED BY <2>1, <3>1, ReleaseLockFacts
  <2> QED BY <2>2, <2>3, <2>4, <2>5
<1>12. ASSUME NEW t \in Tasks, CancelReleasesLock(t) PROVE Parts'
  <2>1. /\ canceler[t] = "canceled" /\ ReleaseLock(t) /\ canceler' = [canceler EXCEPT ![t] = "released"]
        /\ UNCHANGED <<status, running, handler, runner, muOwner>>
    BY <1>12 DEF CancelReleasesLock
  <2>2. RunnerMatches' /\ HandlerMatches' /\ CancelerMatches' /\ DrainerMatches'
    BY <2>1
  <2>3. LockHolderTracked'
    BY <2>1, ReleaseLockFacts
  <2>4. ReleasedGaveLock'
    BY <2>1, ReleaseLockFacts
  <2>5. RunningHoldsLock'
    <3>1. status[t] # "running"
      BY <2>1
    <3> QED BY <2>1, <3>1, ReleaseLockFacts
  <2> QED BY <2>2, <2>3, <2>4, <2>5
<1>13. ASSUME NEW t \in Tasks, Complete(t) PROVE Parts'
  <2>1. /\ runner[t] = "released" /\ muOwner = None
        /\ runner' = [runner EXCEPT ![t] = "draining"] /\ running' = running \ {t}
        /\ muOwner' = <<"runner", t>>
        /\ UNCHANGED <<status, locks, handler, canceler>>
    BY <1>13 DEF Complete, MuFree, BeginDrain
  <2>2. RunnerMatches' /\ HandlerMatches' /\ CancelerMatches' /\ DrainerMatches' /\ ReleasedGaveLock'
    BY <2>1
  <2>3. LockHolderTracked'
    <3> SUFFICES ASSUME NEW q \in LockKeys, locks[q] # None PROVE locks[q] \in running \ {t} /\ LockKey(locks[q]) = q
      BY <2>1
    <3> QED BY <2>1
  <2>4. RunningHoldsLock'
    BY <2>1
  <2> QED BY <2>2, <2>3, <2>4
<1>14. ASSUME NEW t \in Tasks, CancelDrains(t) PROVE Parts'
  BY <1>14 DEF CancelDrains, BeginDrain, MuFree
<1>15. ASSUME NEW t \in Tasks, CancelQueued(t) PROVE Parts'
  BY <1>15 DEF CancelQueued
<1>16. ASSUME NEW t \in Tasks, CancelTask(t) PROVE Parts'
  <2>1. CASE Terminal(t)
    BY <1>16, <2>1 DEF CancelTask, Finalize
  <2>2. CASE ~Terminal(t)
    <3>1. status' = [status EXCEPT ![t] = "canceled"] /\ status[t] # "none"
      BY <1>16, <2>2 DEF CancelTask, Finalize
    <3> QED BY <1>16, <3>1 DEF CancelTask
  <2> QED BY <2>1, <2>2
<1>17. ASSUME NEW t \in Tasks, NEW s \in {"completed", "failed"}, EmitResult(t, s) PROVE Parts'
  BY <1>17 DEF EmitResult
<1>18. ASSUME NEW t \in Tasks, NEW x \in Surfaces, AddEditSurface(t, x) PROVE Parts'
  BY <1>18 DEF AddEditSurface
<1>19. ASSUME NEW t \in Tasks, FailTaskOfNode(t) PROVE Parts'
  BY <1>19 DEF FailTaskOfNode
<1>20. CASE DrainDispatches
  <2>1. queue[scan] \in Tasks
    BY <1>20 DEF DrainDispatches
  <2> QED BY <1>20, <2>1, DispatchLock DEF DrainDispatches, LockInv
<1>21. CASE DrainKeeps
  BY <1>21 DEF DrainKeeps
<1>22. ASSUME NEW t \in Tasks, DrainEnds(t) PROVE Parts'
  <2>1. CASE muOwner = <<"runner", t>> /\ RunnerAt(t, "done") /\ UNCHANGED canceler
    <3>1. muOwner' = None /\ \A u \in Tasks : <<"runner", u>> # None /\ <<"cancel", u>> # None
      BY <1>22, NoneAssumption DEF DrainEnds, Threads
    <3>2. runner[t] = "draining" /\ UNCHANGED <<status, running, locks, handler, canceler>>
      BY <1>22, <2>1 DEF DrainEnds
    <3> QED BY <2>1, <3>1, <3>2
  <2>2. CASE muOwner = <<"cancel", t>> /\ CancelerAt(t, "done") /\ UNCHANGED runner
    BY <1>22, <2>2, NoneAssumption DEF DrainEnds, Threads
  <2> QED BY <1>22, <2>1, <2>2 DEF DrainEnds
<1>23. CASE SyncPeer
  BY <1>23 DEF SyncPeer
<1>24. CASE UNCHANGED vars
  BY <1>24 DEF vars
<1> HIDE <1>0, <1>p DEF Parts
<1> QED
  BY <1>1, <1>2, <1>3, <1>4, <1>5, <1>6, <1>7, <1>8, <1>9, <1>10, <1>11, <1>12, <1>13,
     <1>14, <1>15, <1>16, <1>17, <1>18, <1>19, <1>20, <1>21, <1>22, <1>23, <1>24
     DEF Next, ScheduleStep, RunStep, CancelStep, DrainStep, Idle

LEMMA LockInit == Init => LockInv
BY RequestAssumption, NoneAssumption
   DEF Init, LockInv, TypeOK, RunnerStates, RunnerMatches, Tracked, HandlerMatches, CancelerMatches,
       DrainerMatches, Threads, ReleasedGaveLock, LockHolderTracked, RunningHoldsLock, Terminal

LEMMA LockInvariant == Spec => []LockInv
BY LockInit, LockStep, PTL DEF Spec

\* No branch lock leaks: complete() of a tracked task will give it back,
\* whatever its cancel handler and its runner do in between.
THEOREM LocksTracked == Spec => []LockHolderTracked
<1>1. LockInv => LockHolderTracked
  BY DEF LockInv
<1> QED
  BY <1>1, LockInvariant, PTL

\* ReleaseLock of one task never frees the branch of another: a running task
\* holds its branch lock in every mode and through every retry.
THEOREM RunningLocked == Spec => []RunningHoldsLock
<1>1. LockInv => RunningHoldsLock
  BY DEF LockInv
<1> QED
  BY <1>1, LockInvariant, PTL

-----------------------------------------------------------------------------
(* Territories and the queue.                                              *)

\* surfacesOverlap is symmetric, and so is the conflict relation.
LEMMA ClashSymmetric ==
    ASSUME NEW x, NEW y, x.surfaces \subseteq Surfaces, y.surfaces \subseteq Surfaces, ClashesWith(x, y)
    PROVE  ClashesWith(y, x)
BY OverlapAssumption DEF ClashesWith

\* The territory a task declared in its request.
Declared(t) == [Territory(t) EXCEPT !.surfaces = Request[t].surfaces]

LEMMA DeclaredClash ==
    ASSUME NEW t \in Tasks, NEW u \in Tasks, DeclaredKept, ClashesWith(Declared(t), Declared(u))
    PROVE  ClashesWith(Territory(t), Territory(u))
BY DEF ClashesWith, Declared, Territory, DeclaredKept

\* A dispatch is safe: the task clashes with no running task.
LEMMA DispatchDisjoint ==
    ASSUME TypeOK, DeclaredKept, RunningDeclaredDisjoint, NEW t \in Tasks,
           HonoursTerritory => ~FindRunningConflict(t),
           status' = [status EXCEPT ![t] = "running"], UNCHANGED <<mode, surfaces>>
    PROVE  RunningDeclaredDisjoint'
<1> SUFFICES ASSUME HonoursTerritory, NEW v \in Tasks, NEW u \in Tasks, v # u,
                    status'[v] = "running", status'[u] = "running",
                    ClashesWith(Declared(v), Declared(u))
             PROVE  FALSE
  BY DEF RunningDeclaredDisjoint, HonoursTerritory, Declared, Territory
<1>1. ASSUME NEW w \in Tasks, w # t, status[w] = "running", ClashesWith(Territory(t), Territory(w))
      PROVE  FALSE
  BY <1>1 DEF FindRunningConflict, RunningTerritories
<1>2. Territory(v).surfaces \subseteq Surfaces /\ Territory(u).surfaces \subseteq Surfaces
  BY DEF Territory, TypeOK
<1>3. ClashesWith(Territory(v), Territory(u)) /\ ClashesWith(Territory(u), Territory(v))
  BY <1>2, DeclaredClash, ClashSymmetric
<1>4. CASE v = t
  BY <1>1, <1>3, <1>4 DEF TypeOK
<1>5. CASE u = t
  BY <1>1, <1>3, <1>5 DEF TypeOK
<1>6. CASE v # t /\ u # t
  BY <1>6 DEF TypeOK, RunningDeclaredDisjoint, Declared
<1> QED BY <1>4, <1>5, <1>6

\* A step that dispatches nothing keeps the running tasks apart, even when an
\* agent edits files it had not declared.
LEMMA NoDispatchDisjoint ==
    ASSUME TypeOK, RunningDeclaredDisjoint, UNCHANGED mode,
           \A t \in Tasks : status'[t] = "running" => status[t] = "running"
    PROVE  RunningDeclaredDisjoint'
<1>1. \A t \in Tasks : Declared(t)' = Declared(t)
  BY DEF Declared, Territory
<1> QED BY <1>1 DEF RunningDeclaredDisjoint, HonoursTerritory, Declared

LEMMA PriorityType == \A t \in Tasks : Priority(t) \in Int
BY RequestAssumption DEF Priority, ClampPriority

\* An insertion at InsertPos keeps the queue ordered.
LEMMA InsertOrdered ==
    ASSUME TypeOK, QueueOrdered, NEW t \in Tasks, NEW p \in 1 .. Len(queue) + 1, InsertPos(t, p),
           queue' = InsertAt(queue, p, t), \A i \in 1 .. Len(queue) : queue[i] # t
    PROVE  /\ QueueOrdered'
           /\ \A i \in 1 .. Len(queue') : queue'[i] = t \/ \E j \in 1 .. Len(queue) : queue'[i] = queue[j]
<1> DEFINE n == Len(queue)
           Q(i) == IF i < p THEN queue[i] ELSE IF i = p THEN t ELSE queue[i - 1]
<1>1. /\ queue \in Seq(Tasks) /\ n \in Nat /\ Len(queue') = n + 1
      /\ \A i \in 1 .. n + 1 : queue'[i] = Q(i)
  <2>1. queue \in Seq(Tasks) /\ n \in Nat
    BY DEF TypeOK
  <2>2. /\ Len(InsertAt(queue, p, t)) = n + 1
        /\ \A i \in 1 .. n + 1 : InsertAt(queue, p, t)[i] = Q(i)
    BY <2>1, InsertAtFacts, SMTT(30)
  <2> QED BY <2>1, <2>2
<1>2. \A i \in 1 .. n : queue[i] \in Tasks /\ Priority(queue[i]) \in Int
  BY <1>1, PriorityType
<1>3. Priority(t) \in Int
  BY PriorityType
<1>4. \A i \in 1 .. n : i < p => Priority(queue[i]) >= Priority(t)
  BY <1>1 DEF InsertPos
<1>5. \A i \in 1 .. n : i >= p => Priority(queue[i]) < Priority(t)
  <2> SUFFICES ASSUME NEW i \in 1 .. n, i >= p PROVE Priority(queue[i]) < Priority(t)
    OBVIOUS
  <2>1. p \in 1 .. n /\ Priority(queue[p]) < Priority(t)
    BY <1>1 DEF InsertPos
  <2>2. i = p \/ Priority(queue[p]) >= Priority(queue[i])
    BY <1>1, <2>1 DEF QueueOrdered
  <2> QED BY <1>2, <1>3, <2>1, <2>2
<1>6. ASSUME NEW i \in 1 .. n + 1, NEW j \in 1 .. n + 1, i < j
      PROVE  Q(i) # Q(j) /\ Priority(Q(i)) >= Priority(Q(j))
  <2> USE <1>1
  <2>1. CASE j < p
    BY <1>6, <2>1 DEF QueueOrdered
  <2>2. CASE i < p /\ j = p
    BY <1>6, <2>2, <1>4
  <2>3. CASE i < p /\ j > p
    <3>1. i \in 1 .. n /\ j - 1 \in 1 .. n /\ i < j - 1
      BY <2>3, <1>6
    <3>2. queue[i] # queue[j - 1] /\ Priority(queue[i]) >= Priority(queue[j - 1])
      BY <3>1 DEF QueueOrdered
    <3> QED BY <2>3, <3>1, <3>2
  <2>4. CASE i = p
    <3>1. j - 1 \in 1 .. n /\ j - 1 >= p
      BY <2>4, <1>6
    <3>2. Priority(queue[j - 1]) < Priority(t) /\ queue[j - 1] # t /\ Priority(queue[j - 1]) \in Int
      BY <3>1, <1>5, <1>2
    <3> QED BY <2>4, <1>6, <3>2, <1>3
  <2>5. CASE i > p
    <3>1. i - 1 \in 1 .. n /\ j - 1 \in 1 .. n /\ i - 1 < j - 1
      BY <2>5, <1>6
    <3>2. queue[i - 1] # queue[j - 1] /\ Priority(queue[i - 1]) >= Priority(queue[j - 1])
      BY <3>1 DEF QueueOrdered
    <3> QED BY <2>5, <1>6, <3>2
  <2> QED BY <1>6, <2>1, <2>2, <2>3, <2>4, <2>5
<1>7. \A i, j \in 1 .. n + 1 : i < j => queue'[i] # queue'[j] /\ Priority(queue'[i]) >= Priority(queue'[j])
  BY <1>1, <1>6, SMTT(30)
<1>8. QueueOrdered'
  BY <1>1, <1>7 DEF QueueOrdered, Priority
<1>9. \A i \in 1 .. Len(queue') : queue'[i] = t \/ \E j \in 1 .. Len(queue) : queue'[i] = queue[j]
  BY <1>1
<1> QED BY <1>8, <1>9

\* So does a removal, which leaves no second copy of the task behind.
LEMMA RemoveOrdered ==
    ASSUME TypeOK, QueueOrdered, NEW p \in 1 .. Len(queue), queue' = RemoveAt(queue, p)
    PROVE  /\ QueueOrdered'
           /\ \A i \in 1 .. Len(queue') : queue'[i] # queue[p]
           /\ \A i \in 1 .. Len(queue') : \E j \in 1 .. Len(queue) :
                 queue'[i] = queue[j] /\ j = IF i < p THEN i ELSE i + 1
<1> DEFINE n == Len(queue)
           R(i) == IF i < p THEN i ELSE i + 1
<1>1. /\ queue \in Seq(Tasks) /\ n \in Nat /\ Len(queue') = n - 1
      /\ \A i \in 1 .. n - 1 : queue'[i] = IF i < p THEN queue[i] ELSE queue[i + 1]
  <2>1. queue \in Seq(Tasks) /\ n \in Nat
    BY DEF TypeOK
  <2>2. /\ Len(RemoveAt(queue, p)) = n - 1
        /\ \A i \in 1 .. n - 1 : RemoveAt(queue, p)[i] = IF i < p THEN queue[i] ELSE queue[i + 1]
    BY <2>1, RemoveAtFacts
  <2> QED BY <2>1, <2>2
<1>2. \A i \in 1 .. n - 1 : R(i) \in 1 .. n /\ R(i) # p /\ queue'[i] = queue[R(i)]
  BY <1>1
<1>3. \A i, j \in 1 .. n - 1 : i < j => R(i) < R(j)
  OBVIOUS
<1>4. QueueOrdered'
  <2> SUFFICES ASSUME NEW i \in 1 .. n - 1, NEW j \in 1 .. n - 1, i < j
               PROVE  queue'[i] # queue'[j] /\ Priority(queue'[i]) >= Priority(queue'[j])
    BY <1>1 DEF QueueOrdered, Priority
  <2>1. R(i) \in 1 .. n /\ R(j) \in 1 .. n /\ R(i) < R(j) /\ queue'[i] = queue[R(i)] /\ queue'[j] = queue[R(j)]
    BY <1>2, <1>3
  <2> HIDE DEF R
  <2> QED BY <2>1 DEF QueueOrdered
<1>5. \A i \in 1 .. n - 1 : queue'[i] # queue[p]
  <2> SUFFICES ASSUME NEW i \in 1 .. n - 1 PROVE queue[R(i)] # queue[p]
    BY <1>2
  <2>1. R(i) \in 1 .. n /\ (R(i) < p \/ p < R(i))
    BY <1>2
  <2> HIDE DEF R
  <2> QED BY <2>1 DEF QueueOrdered
<1> QED
  BY <1>1, <1>2, <1>4, <1>5

\* Steps that leave the queue, the mode and the handlers' progress alone.
LEMMA QueueFrame ==
    ASSUME QueueInv, LockInv', UNCHANGED <<queue, mode>>,
           \A t \in Tasks : surfaces[t] \subseteq surfaces'[t],
           \A t \in Tasks : handler[t] = "done" => handler'[t] = "done",
           \A t \in Tasks : status'[t] = "running" => status[t] = "running"
    PROVE  QueueInv'
<1> USE DEF QueueInv, LockInv
<1>1. queue \in Seq(Tasks) /\ \A i \in 1 .. Len(queue) : queue[i] \in Tasks
  BY DEF TypeOK
<1>2. DeclaredKept'
  BY DEF DeclaredKept
<1>3. QueueScheduled'
  BY <1>1 DEF QueueScheduled
<1>4. RunningDeclaredDisjoint'
  BY NoDispatchDisjoint
<1>5. QueueOrdered'
  BY DEF QueueOrdered, Priority
<1> QED BY <1>2, <1>3, <1>4, <1>5

LEMMA QueueStep == QueueInv /\ [Next]_vars => QueueInv'
<1> SUFFICES ASSUME QueueInv, [Next]_vars PROVE QueueInv'
  OBVIOUS
<1>0. LockInv /\ LockInv'
  BY LockStep DEF QueueInv
<1>t. /\ TypeOK /\ TypeOK' /\ queue \in Seq(Tasks) /\ Len(queue) \in Nat
      /\ \A i \in 1 .. Len(queue) : queue[i] \in Tasks
  BY <1>0 DEF LockInv, TypeOK
<1> DEFINE Frame == /\ UNCHANGED <<queue, mode>>
                    /\ \A t \in Tasks : surfaces[t] \subseteq surfaces'[t]
                    /\ \A t \in Tasks : handler[t] = "done" => handler'[t] = "done"
                    /\ \A t \in Tasks : status'[t] = "running" => status[t] = "running"
<1>f. Frame => QueueInv'
  BY <1>0, QueueFrame
<1> USE DEF schedVars, taskVars, HandlerAt, RunnerAt, CancelerAt, SetStatus, Terminal
<1>1. ASSUME NEW t \in Tasks, AdmitStrict(t) \/ CreateTask(t) \/ ScheduleFails(t) \/ CancelRejected(t)
      PROVE  Frame
  BY <1>t, <1>1 DEF TypeOK, AdmitStrict, CreateTask, ScheduleFails, CancelRejected, Finalize
<1>2. ASSUME NEW t \in Tasks, StartRunner(t) \/ RetryTimer(t) \/ RunReturns(t) \/ RunFails(t)
                              \/ RunRetries(t) \/ WaitAborted(t)
      PROVE  Frame
  BY <1>t, <1>2 DEF TypeOK, StartRunner, RetryTimer, RunReturns, RunFails, RunRetries, WaitAborted, Finalize
<1>3. ASSUME NEW t \in Tasks, ReleaseBranchLock(t) \/ Complete(t) \/ DrainEnds(t)
      PROVE  Frame
  BY <1>3 DEF ReleaseBranchLock, Complete, DrainEnds
<1>4. ASSUME NEW t \in Tasks, CancelStep(t) PROVE Frame
  BY <1>t, <1>4 DEF TypeOK, CancelStep, CancelTask, CancelReleasesLock, CancelDrains, Finalize
<1>5. ASSUME NEW t \in Tasks, NEW s \in {"completed", "failed"}, EmitResult(t, s) PROVE Frame
  BY <1>t, <1>5 DEF TypeOK, EmitResult
<1>6. ASSUME NEW t \in Tasks, NEW x \in Surfaces, AddEditSurface(t, x) PROVE Frame
  BY <1>t, <1>6 DEF TypeOK, AddEditSurface
<1>7. ASSUME NEW t \in Tasks, FailTaskOfNode(t) PROVE Frame
  BY <1>t, <1>7 DEF TypeOK, FailTaskOfNode
<1>8. CASE DrainKeeps \/ SyncPeer \/ UNCHANGED vars
  <2>1. Frame
    BY <1>8 DEF DrainKeeps, SyncPeer, vars
  <2> QED BY <2>1, <1>f
<1>9. ASSUME NEW t \in Tasks, ScheduleStarts(t) PROVE QueueInv'
  <2>1. /\ UNCHANGED <<queue, mode, surfaces>> /\ status' = [status EXCEPT ![t] = "running"]
        /\ handler' = [handler EXCEPT ![t] = "done"]
        /\ HonoursTerritory => ~FindRunningConflict(t)
    BY <1>9 DEF ScheduleStarts, DispatchUnderLock
  <2>2. RunningDeclaredDisjoint'
    BY <1>t, <2>1, DispatchDisjoint DEF QueueInv
  <2>3. DeclaredKept' /\ QueueOrdered'
    BY <2>1 DEF QueueInv, DeclaredKept, QueueOrdered, Priority
  <2>4. QueueScheduled'
    BY <1>t, <2>1 DEF QueueInv, QueueScheduled, TypeOK
  <2> QED BY <1>0, <2>2, <2>3, <2>4 DEF QueueInv
<1>10. ASSUME NEW t \in Tasks, ScheduleEnqueues(t) PROVE QueueInv'
  <2>1. /\ UNCHANGED <<mode, surfaces, status>> /\ handler' = [handler EXCEPT ![t] = "done"]
        /\ handler[t] = "created"
    BY <1>10 DEF ScheduleEnqueues
  <2>2. PICK p \in 1 .. Len(queue) + 1 : InsertPos(t, p) /\ queue' = InsertAt(queue, p, t)
    BY <1>10 DEF ScheduleEnqueues, EnqueueByPriority
  <2>3. \A i \in 1 .. Len(queue) : queue[i] # t
    BY <2>1 DEF QueueInv, QueueScheduled
  <2>4. /\ QueueOrdered'
        /\ \A i \in 1 .. Len(queue') : queue'[i] = t \/ \E j \in 1 .. Len(queue) : queue'[i] = queue[j]
    BY <1>t, <2>2, <2>3, InsertOrdered DEF QueueInv
  <2>5. QueueScheduled'
    <3>1. handler'[t] = "done" /\ \A j \in 1 .. Len(queue) : handler'[queue[j]] = "done"
      BY <1>t, <2>1 DEF QueueInv, QueueScheduled, TypeOK
    <3> QED BY <2>4, <3>1 DEF QueueScheduled
  <2>6. RunningDeclaredDisjoint' /\ DeclaredKept'
    BY <1>t, <2>1, NoDispatchDisjoint DEF QueueInv, DeclaredKept
  <2> QED BY <1>0, <2>4, <2>5, <2>6 DEF QueueInv
<1>11. ASSUME NEW t \in Tasks, CancelQueued(t) PROVE QueueInv'
  <2>1. CASE UNCHANGED queue
    <3>1. Frame
      BY <1>11, <2>1 DEF CancelQueued
    <3> QED BY <3>1, <1>f
  <2>2. ASSUME NEW p \in 1 .. Len(queue), queue' = RemoveAt(queue, p) PROVE QueueInv'
    <3>1. QueueOrdered' /\ \A i \in 1 .. Len(queue') : \E j \in 1 .. Len(queue) : queue'[i] = queue[j]
      BY <1>t, <2>2, RemoveOrdered DEF QueueInv
    <3>2. QueueScheduled'
      BY <1>11, <3>1 DEF CancelQueued, QueueInv, QueueScheduled
    <3>3. RunningDeclaredDisjoint' /\ DeclaredKept'
      BY <1>11, <1>t, NoDispatchDisjoint DEF CancelQueued, QueueInv, DeclaredKept
    <3> QED BY <1>0, <3>1, <3>2, <3>3 DEF QueueInv
  <2> QED BY <1>11, <2>1, <2>2 DEF CancelQueued
<1>12. CASE DrainDispatches
  <2>1. scan \in 1 .. Len(queue) /\ queue[scan] \in Tasks /\ queue' = RemoveAt(queue, scan)
    BY <1>12, <1>t DEF DrainDispatches, TypeOK
  <2>2. /\ UNCHANGED <<mode, surfaces, handler>> /\ ~FindRunningConflict(queue[scan])
        /\ status' = [status EXCEPT ![queue[scan]] = "running"]
    BY <1>12 DEF DrainDispatches, DispatchUnderLock
  <2>3. RunningDeclaredDisjoint'
    BY <1>t, <2>1, <2>2, DispatchDisjoint DEF QueueInv
  <2>4. QueueOrdered' /\ \A i \in 1 .. Len(queue') : \E j \in 1 .. Len(queue) : queue'[i] = queue[j]
    BY <1>t, <2>1, RemoveOrdered DEF QueueInv
  <2>5. QueueScheduled' /\ DeclaredKept'
    BY <2>2, <2>4 DEF QueueInv, QueueScheduled, DeclaredKept
  <2> QED BY <1>0, <2>3, <2>4, <2>5 DEF QueueInv
<1> HIDE DEF Frame
<1> QED
  BY <1>f, <1>1, <1>2, <1>3, <1>4, <1>5, <1>6, <1>7, <1>8, <1>9, <1>10, <1>11, <1>12
     DEF Next, ScheduleStep, RunStep, DrainStep, Idle

LEMMA QueueInvariant == Spec => []QueueInv
<1>1. Init => DeclaredKept /\ QueueScheduled /\ RunningDeclaredDisjoint /\ QueueOrdered
  BY DEF Init, DeclaredKept, QueueScheduled, RunningDeclaredDisjoint, QueueOrdered
<1> QED
  BY <1>1, LockInit, QueueStep, PTL DEF Spec, QueueInv

\* The territory semaphore: in queue and strict mode no two running tasks
\* declared territories that clash, for any number of tasks and threads.
THEOREM TerritoriesDisjoint == Spec => []RunningDeclaredDisjoint
<1>1. QueueInv => RunningDeclaredDisjoint
  BY DEF QueueInv
<1> QED
  BY <1>1, QueueInvariant, PTL

\* The waiting queue is ordered by clamped priority and holds a task once.
THEOREM QueueSorted == Spec => []QueueOrdered
<1>1. QueueInv => QueueOrdered
  BY DEF QueueInv
<1> QED
  BY <1>1, QueueInvariant, PTL

\* Neither Schedule nor a drain starts a task twice: a dispatched task had no
\* runner goroutine and is in no queue position any more.
THEOREM StartedOnce == Spec => DispatchedOnce
<1> DEFINE Once == \A t \in Tasks : runner'[t] = "dispatched" /\ runner[t] # "dispatched"
                                     => runner[t] = "none" /\ ~Contains(queue', t)
<1>1. QueueInv /\ [Next]_vars => [Once]_vars
  <2> SUFFICES ASSUME QueueInv, Next, NEW t \in Tasks,
                      runner'[t] = "dispatched", runner[t] # "dispatched"
               PROVE  runner[t] = "none" /\ ~Contains(queue', t)
    BY DEF vars
  <2>t. /\ TypeOK /\ queue \in Seq(Tasks) /\ Len(queue) \in Nat
        /\ \A u \in Tasks : status[u] = "queued" => runner[u] = "none"
    BY DEF QueueInv, LockInv, TypeOK, RunnerMatches
  <2>1. CASE ScheduleStarts(t)
    <3>1. /\ status[t] = "queued" /\ handler[t] = "created" /\ queue' = queue
      BY <2>1 DEF ScheduleStarts, DispatchUnderLock, CanDispatch
    <3> QED BY <2>t, <3>1 DEF QueueInv, QueueScheduled, Contains
  <2>2. CASE DrainDispatches
    <3>1. /\ scan \in 1 .. Len(queue) /\ queue[scan] \in Tasks /\ queue' = RemoveAt(queue, scan)
          /\ runner' = [runner EXCEPT ![queue[scan]] = "dispatched"] /\ status[queue[scan]] = "queued"
      BY <2>2, <2>t DEF DrainDispatches, DispatchUnderLock, CanDispatch, RunnerAt, TypeOK
    <3>2. t = queue[scan]
      BY <2>t, <3>1 DEF TypeOK
    <3>3. \A i \in 1 .. Len(queue') : queue'[i] # queue[scan]
      BY <2>t, <3>1, RemoveOrdered DEF QueueInv
    <3> QED BY <2>t, <3>1, <3>2, <3>3 DEF Contains
  <2>3. ASSUME NEW u \in Tasks, ScheduleStarts(u), u # t PROVE FALSE
    BY <2>t, <2>3 DEF ScheduleStarts, DispatchUnderLock, RunnerAt, TypeOK
  <2>4. ASSUME NEW u \in Tasks,
               AdmitStrict(u) \/ CreateTask(u) \/ ScheduleEnqueues(u) \/ ScheduleFails(u)
               \/ CancelRejected(u) \/ CancelQueued(u) \/ FailTaskOfNode(u)
        PROVE  FALSE
    BY <2>4 DEF AdmitStrict, CreateTask, ScheduleEnqueues, ScheduleFails, CancelRejected, CancelQueued,
                FailTaskOfNode
  <2>5. ASSUME NEW u \in Tasks, RunStep(u) PROVE FALSE
    BY <2>t, <2>5 DEF TypeOK, RunStep, RunnerAt, StartRunner, RunReturns, RunRetries, RunFails, RetryTimer,
                      WaitAborted, ReleaseBranchLock, Complete
  <2>6. ASSUME NEW u \in Tasks, CancelStep(u) \/ DrainEnds(u) PROVE FALSE
    BY <2>t, <2>6 DEF TypeOK, RunnerAt, CancelStep, CancelTask, CancelReleasesLock, CancelDrains, DrainEnds
  <2>7. ASSUME NEW u \in Tasks, NEW s, EmitResult(u, s) \/ AddEditSurface(u, s) PROVE FALSE
    BY <2>7 DEF EmitResult, AddEditSurface
  <2>8. CASE DrainKeeps \/ SyncPeer \/ Idle
    BY <2>8 DEF DrainKeeps, SyncPeer, Idle, vars
  <2> QED
    BY <2>1, <2>2, <2>3, <2>4, <2>5, <2>6, <2>7, <2>8 DEF Next, ScheduleStep, DrainStep
<1> QED
  BY <1>1, QueueInvariant, PTL DEF Spec, DispatchedOnce

-----------------------------------------------------------------------------
(* No lost wake-up.                                                        *)

\* What keeps a task waiting when no peer does is a tracked task.
LEMMA KeptIsBlocked ==
    ASSUME QueueInv, PeerTerritories = {}, NEW t \in Tasks,
           FindRunningConflict(t) \/ ~LockAvailable(t)
    PROVE  \E u \in Tasks : Blocks(u, t)
<1>1. CASE FindRunningConflict(t)
  <2>1. manifests = {}
    BY DEF QueueInv, LockInv, TypeOK
  <2>2. PICK u \in Tasks : status[u] = "running" /\ ClashesWith(Territory(t), Territory(u))
    BY <1>1, <2>1 DEF FindRunningConflict, RunningTerritories
  <2> QED BY <2>2 DEF QueueInv, LockInv, RunningHoldsLock, Blocks
<1>2. CASE ~LockAvailable(t)
  <2> DEFINE u == locks[LockKey(t)]
  <2>1. NeedsLock(t) /\ u # None /\ u \in Tasks
    BY <1>2, LockKeyType DEF LockAvailable, QueueInv, LockInv, TypeOK
  <2>2. u \in running /\ LockKey(u) = LockKey(t)
    BY <2>1, LockKeyType DEF QueueInv, LockInv, LockHolderTracked
  <2>3. ClashesWith(Territory(t), Territory(u))
    BY <2>1, <2>2 DEF LockKey, NeedsLock, ClashesWith, Territory
  <2> QED BY <2>1, <2>2, <2>3 DEF Blocks
<1> QED BY <1>1, <1>2

\* Who blocks a task does so until complete() untracks it.
LEMMA BlockerStays ==
    ASSUME NEW t \in Tasks, NEW u \in Tasks, Blocks(u, t), u \in running',
           Terminal(u) => Terminal(u)', \A v \in Tasks : surfaces[v] \subseteq surfaces'[v]
    PROVE  Blocks(u, t)'
BY DEF Blocks, ClashesWith, Territory

WakeInv == QueueInv /\ NoStrandedTask

\* Steps that put no task in the queue, move no scan past one, untrack nobody.
LEMMA WakeFrame ==
    ASSUME WakeInv, QueueInv', running \subseteq running',
           \A t \in Tasks : surfaces[t] \subseteq surfaces'[t],
           \A t \in Tasks : Terminal(t) => Terminal(t)',
           \A i \in 1 .. Len(queue') : 
              status'[queue'[i]] = "queued" /\ (MuFree' \/ i < scan')
              => \/ \E u \in Tasks : Blocks(u, queue'[i])
                 \/ \E j \in 1 .. Len(queue) : /\ queue'[i] = queue[j] /\ status[queue[j]] = "queued"
                                               /\ MuFree \/ j < scan
    PROVE  NoStrandedTask'
<1>1. ASSUME NEW i \in 1 .. Len(queue'), NEW t \in Tasks, t = queue'[i], status'[t] = "queued", MuFree' \/ i < scan'
      PROVE  \E u \in Tasks : Blocks(u, t)'
  <2>1. PICK u \in Tasks : Blocks(u, t)
    BY <1>1 DEF WakeInv, NoStrandedTask
  <2>2. u \in running'
    BY <2>1 DEF Blocks
  <2> QED BY <2>1, <2>2, BlockerStays
<1>2. \A i \in 1 .. Len(queue') : queue'[i] \in Tasks
  BY DEF QueueInv, LockInv, TypeOK
<1> QED BY <1>1, <1>2 DEF NoStrandedTask

\* Most steps touch neither the queue nor the scan, and track the same tasks.
LEMMA WakeQuiet ==
    ASSUME WakeInv, QueueInv', UNCHANGED <<queue, running, muOwner, scan>>,
           \A t \in Tasks : surfaces[t] \subseteq surfaces'[t],
           \A t \in Tasks : Terminal(t) => Terminal(t)',
           \A t \in Tasks : handler[t] = "done" /\ status'[t] = "queued" => status[t] = "queued"
    PROVE  NoStrandedTask'
<1>1. \A i \in 1 .. Len(queue) : queue[i] \in Tasks /\ handler[queue[i]] = "done"
  BY DEF WakeInv, QueueInv, LockInv, TypeOK, QueueScheduled
<1>2. \A i \in 1 .. Len(queue') :
         status'[queue'[i]] = "queued" /\ (MuFree' \/ i < scan')
         => \E j \in 1 .. Len(queue) : /\ queue'[i] = queue[j] /\ status[queue[j]] = "queued"
                                       /\ MuFree \/ j < scan
  BY <1>1 DEF MuFree
<1> QED BY <1>2, WakeFrame

LEMMA WakeStep == ASSUME PeerTerritories = {} PROVE WakeInv /\ [Next]_vars => WakeInv'
<1> SUFFICES ASSUME WakeInv, [Next]_vars PROVE WakeInv'
  OBVIOUS
<1>0. QueueInv /\ QueueInv'
  BY QueueStep DEF WakeInv
<1>t. /\ TypeOK /\ TypeOK' /\ queue \in Seq(Tasks) /\ Len(queue) \in Nat /\ scan \in Nat \ {0}
      /\ \A i \in 1 .. Len(queue) : queue[i] \in Tasks
      /\ \A t \in Tasks : <<"runner", t>> # None /\ <<"cancel", t>> # None
  BY <1>0, NoneAssumption DEF QueueInv, LockInv, TypeOK, Threads
<1> SUFFICES NoStrandedTask'
  BY <1>0 DEF WakeInv
<1> USE DEF schedVars, taskVars, HandlerAt, RunnerAt, CancelerAt, SetStatus, Terminal
<1> DEFINE Grows == /\ \A t \in Tasks : surfaces[t] \subseteq surfaces'[t]
                    /\ \A t \in Tasks : Terminal(t) => Terminal(t)'
           Quiet == /\ UNCHANGED <<queue, running, muOwner, scan>> /\ Grows
                    /\ \A t \in Tasks : handler[t] = "done" /\ status'[t] = "queued" => status[t] = "queued"
<1>q. Quiet => NoStrandedTask'
  BY <1>0, WakeQuiet
<1>1. ASSUME NEW t \in Tasks, AdmitStrict(t) \/ ScheduleFails(t) \/ CancelRejected(t)
      PROVE  Quiet
  BY <1>t, <1>1 DEF TypeOK, AdmitStrict, ScheduleFails, CancelRejected, Finalize
<1>2. ASSUME NEW t \in Tasks, CreateTask(t) PROVE Quiet
  <2>1. status[t] = "none" /\ handler[t] # "done"
    BY <1>0, <1>2 DEF CreateTask, QueueInv, LockInv, HandlerMatches
  <2> QED BY <1>t, <1>2, <2>1 DEF TypeOK, CreateTask
<1>3. ASSUME NEW t \in Tasks, StartRunner(t) \/ RetryTimer(t) \/ RunReturns(t) \/ RunFails(t)
                              \/ RunRetries(t) \/ WaitAborted(t) \/ ReleaseBranchLock(t)
      PROVE  Quiet
  BY <1>t, <1>3 DEF TypeOK, StartRunner, RetryTimer, RunReturns, RunFails, RunRetries, WaitAborted,
                    ReleaseBranchLock, Finalize
<1>4. ASSUME NEW t \in Tasks, CancelTask(t) \/ CancelReleasesLock(t) PROVE Quiet
  BY <1>t, <1>4 DEF TypeOK, CancelTask, CancelReleasesLock, Finalize
<1>5. ASSUME NEW t \in Tasks, NEW s \in {"completed", "failed"}, EmitResult(t, s) PROVE Quiet
  BY <1>t, <1>5 DEF TypeOK, EmitResult
<1>6. ASSUME NEW t \in Tasks, NEW x \in Surfaces, AddEditSurface(t, x) PROVE Quiet
  BY <1>t, <1>6 DEF TypeOK, AddEditSurface
<1>7. ASSUME NEW t \in Tasks, FailTaskOfNode(t) PROVE Quiet
  BY <1>t, <1>7 DEF TypeOK, FailTaskOfNode
<1>8. CASE SyncPeer \/ UNCHANGED vars
  <2>1. Quiet
    BY <1>8 DEF SyncPeer, vars
  <2> QED BY <2>1, <1>q
<1>9. ASSUME NEW t \in Tasks, Complete(t) \/ CancelDrains(t) PROVE NoStrandedTask'
  <2>1. scan' = 1 /\ ~MuFree'
    BY <1>t, <1>9 DEF Complete, CancelDrains, BeginDrain, MuFree
  <2>2. \A i \in 1 .. Len(queue') : ~(MuFree' \/ i < scan')
    BY <2>1
  <2> QED BY <2>2 DEF NoStrandedTask
<1>10. ASSUME NEW t \in Tasks, ScheduleStarts(t) PROVE NoStrandedTask'
  <2>1. UNCHANGED <<queue, muOwner, scan>> /\ running \subseteq running' /\ Grows
        /\ \A u \in Tasks : status'[u] = "queued" => status[u] = "queued"
    BY <1>t, <1>10 DEF TypeOK, ScheduleStarts, DispatchUnderLock, CanDispatch
  <2>2. \A i \in 1 .. Len(queue') :
           status'[queue'[i]] = "queued" /\ (MuFree' \/ i < scan')
           => \E j \in 1 .. Len(queue) : /\ queue'[i] = queue[j] /\ status[queue[j]] = "queued"
                                         /\ MuFree \/ j < scan
    BY <1>t, <2>1 DEF MuFree
  <2> QED BY <1>0, <2>1, <2>2, WakeFrame
<1>11. ASSUME NEW t \in Tasks, ScheduleEnqueues(t) PROVE NoStrandedTask'
  <2>1. /\ UNCHANGED <<running, muOwner, scan, surfaces, status>> /\ MuFree /\ handler[t] = "created"
        /\ FindRunningConflict(t) \/ ~LockAvailable(t)
    BY <1>11 DEF ScheduleEnqueues
  <2>2. \E u \in Tasks : Blocks(u, t)
    BY <1>0, <2>1, KeptIsBlocked
  <2>3. PICK p \in 1 .. Len(queue) + 1 : InsertPos(t, p) /\ queue' = InsertAt(queue, p, t)
    BY <1>11 DEF ScheduleEnqueues, EnqueueByPriority
  <2>4. \A i \in 1 .. Len(queue') : queue'[i] = t \/ \E j \in 1 .. Len(queue) : queue'[i] = queue[j]
    <3>1. \A i \in 1 .. Len(queue) : queue[i] # t
      BY <1>0, <2>1 DEF QueueInv, QueueScheduled
    <3> QED BY <1>0, <1>t, <2>3, <3>1, InsertOrdered DEF QueueInv
  <2>5. \A i \in 1 .. Len(queue') :
           status'[queue'[i]] = "queued"
           => \/ \E u \in Tasks : Blocks(u, queue'[i])
              \/ \E j \in 1 .. Len(queue) : /\ queue'[i] = queue[j] /\ status[queue[j]] = "queued"
                                            /\ MuFree \/ j < scan
    BY <2>1, <2>2, <2>4
  <2>6. Grows /\ running \subseteq running'
    BY <2>1
  <2> QED BY <1>0, <2>5, <2>6, WakeFrame
<1>12. ASSUME NEW t \in Tasks, CancelQueued(t) PROVE NoStrandedTask'
  <2>1. UNCHANGED <<running, muOwner, scan, surfaces, status>> /\ MuFree
    BY <1>12 DEF CancelQueued
  <2>2. CASE UNCHANGED queue
    BY <1>q, <2>1, <2>2
  <2>3. ASSUME NEW p \in 1 .. Len(queue), queue' = RemoveAt(queue, p) PROVE NoStrandedTask'
    <3>1. \A i \in 1 .. Len(queue') : \E j \in 1 .. Len(queue) : queue'[i] = queue[j]
      BY <1>0, <1>t, <2>3, RemoveOrdered DEF QueueInv
    <3>2. \A i \in 1 .. Len(queue') :
             status'[queue'[i]] = "queued"
             => \E j \in 1 .. Len(queue) : /\ queue'[i] = queue[j] /\ status[queue[j]] = "queued"
                                           /\ MuFree \/ j < scan
      BY <2>1, <3>1
    <3>3. Grows /\ running \subseteq running'
      BY <2>1
    <3> QED BY <1>0, <3>2, <3>3, WakeFrame
  <2> QED BY <1>12, <2>2, <2>3 DEF CancelQueued
<1>13. CASE DrainDispatches
  <2>1. scan \in 1 .. Len(queue) /\ queue' = RemoveAt(queue, scan) /\ ~MuFree /\ ~MuFree' /\ scan' = scan
    BY <1>13, <1>t DEF DrainDispatches, MuFree
  <2>2. running \subseteq running' /\ Grows /\ \A u \in Tasks : status'[u] = "queued" => status[u] = "queued"
    BY <1>13, <1>t, <2>1 DEF TypeOK, DrainDispatches, DispatchUnderLock, CanDispatch
  <2>3. \A i \in 1 .. Len(queue') : \E j \in 1 .. Len(queue) :
           queue'[i] = queue[j] /\ j = IF i < scan THEN i ELSE i + 1
    BY <1>0, <1>t, <2>1, RemoveOrdered DEF QueueInv
  <2>4. \A i \in 1 .. Len(queue') :
           status'[queue'[i]] = "queued" /\ (MuFree' \/ i < scan')
           => \E j \in 1 .. Len(queue) : /\ queue'[i] = queue[j] /\ status[queue[j]] = "queued"
                                         /\ MuFree \/ j < scan
    BY <1>t, <2>1, <2>2, <2>3
  <2> QED BY <1>0, <2>2, <2>4, WakeFrame
<1>14. CASE DrainKeeps
  <2>1. /\ UNCHANGED <<queue, running, muOwner, surfaces, status>> /\ ~MuFree /\ ~MuFree'
        /\ scan' = scan + 1 /\ scan \in 1 .. Len(queue)
        /\ FindRunningConflict(queue[scan]) \/ ~CanDispatch(queue[scan])
    BY <1>14, <1>t DEF DrainKeeps, MuFree
  <2>2. status[queue[scan]] = "queued" => \E u \in Tasks : Blocks(u, queue[scan])
    BY <1>0, <1>t, <2>1, KeptIsBlocked DEF CanDispatch
  <2>3. \A i \in 1 .. Len(queue') :
           status'[queue'[i]] = "queued" /\ (MuFree' \/ i < scan')
           => \/ \E u \in Tasks : Blocks(u, queue'[i])
              \/ \E j \in 1 .. Len(queue) : /\ queue'[i] = queue[j] /\ status[queue[j]] = "queued"
                                            /\ MuFree \/ j < scan
    BY <1>t, <2>1, <2>2
  <2>4. Grows /\ running \subseteq running'
    BY <2>1
  <2> QED BY <1>0, <2>3, <2>4, WakeFrame
<1>15. ASSUME NEW t \in Tasks, DrainEnds(t) PROVE NoStrandedTask'
  <2>1. UNCHANGED <<queue, running, surfaces, status>> /\ scan > Len(queue)
    BY <1>15 DEF DrainEnds
  <2>2. \A i \in 1 .. Len(queue') :
           status'[queue'[i]] = "queued"
           => \E j \in 1 .. Len(queue) : /\ queue'[i] = queue[j] /\ status[queue[j]] = "queued"
                                         /\ MuFree \/ j < scan
    BY <1>t, <2>1
  <2>3. Grows /\ running \subseteq running'
    BY <2>1
  <2> QED BY <1>0, <2>2, <2>3, WakeFrame
<1> HIDE DEF Quiet, Grows
<1> QED
  BY <1>q, <1>1, <1>2, <1>3, <1>4, <1>5, <1>6, <1>7, <1>8, <1>9, <1>10, <1>11, <1>12, <1>13, <1>14, <1>15
     DEF Next, ScheduleStep, RunStep, DrainStep, CancelStep, Idle

\* Without federated peers no wake-up is lost: whenever no scan is under way,
\* every queued task is behind a task whose complete() is still to come.
THEOREM NoLostWakeup == PeerTerritories = {} => (Spec => []NoStrandedTask)
<1> SUFFICES ASSUME PeerTerritories = {} PROVE Spec => []NoStrandedTask
  OBVIOUS
<1>1. Init => NoStrandedTask
  BY DEF Init, NoStrandedTask
<1>2. QueueInv /\ NoStrandedTask /\ [Next]_vars => NoStrandedTask'
  BY WakeStep DEF WakeInv
<1> QED
  BY <1>1, <1>2, QueueInvariant, PTL DEF Spec
=============================================================================
