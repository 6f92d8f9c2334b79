----------------------------- MODULE TaskStream ------------------------------
(***************************************************************************)
(* From a request to the last line its client prints: the create handler   *)
(* with its idempotency keys (handlers.go, idempotency.go), the channels   *)
(* of a task's subscribers (task.go), the SSE handler that empties one of  *)
(* them, and the clients: the run command, which stops at the event that   *)
(* ends the task, the stdio bridge (client/bridge.go), which stops at the  *)
(* end of the stream, and viewers that come back with Last-Event-ID.       *)
(*                                                                         *)
(* A client makes one request; the task it creates has its name.  The      *)
(* bridge sends no key and all others use the same.  An event is its id:   *)
(* the ids of a task are 1 .. events[t] and, once the task is over, the    *)
(* last one says so.                                                       *)
(***************************************************************************)
EXTENDS Naturals, Sequences, SequencesExt

CONSTANTS
    Clients,
    Kinds,          \* bound: the kinds of clients that occur together
    ShortTTL,       \* whether -task-ttl is shorter than the life of a key
    BaseCap,        \* least capacity of a subscriber's channel (128)
    LiveRoom,       \* room for live events beyond the history (64)
    MaxEvents,      \* bound: events of a task before the last one
    MaxFaults,      \* bound: aborts, cuts, refused schedules and restarts
    None

ASSUME StreamAssumption ==
    /\ Kinds \subseteq [Clients -> {"run", "prompt", "viewer"}]
    /\ None \notin Clients /\ ShortTTL \in BOOLEAN
    /\ BaseCap \in Nat \ {0} /\ LiveRoom \in Nat \ {0}
    /\ MaxEvents \in Nat /\ MaxFaults \in Nat

VARIABLES
    kind,       \* "run", "prompt" of the bridge, or "viewer"
    record,     \* the task the key names in the idempotency store
    lapsed,     \* the key has expired, or named a task that was purged
    handler,    \* where handleCreateTask is for each client
    answer,     \* the task it answers with
    status,     \* ManagedTask.Status, or "none" and "purged"
    events,     \* ids given so far (eventSeq), all of them in the log
    subs,       \* clients whose channel is in the subscribers of its task
    chan,       \* the channel of a client's stream
    cap,        \* its capacity
    shut,       \* it is closed
    sse,        \* where handleTaskEvents is
    client,     \* where the client is
    got,        \* ids the client has read
    lost,       \* an event was dropped because the channel was full
    faults

createVars == <<record, lapsed, handler, answer>>
taskVars == <<status, events>>
streamVars == <<subs, chan, cap, shut, sse>>
clientVars == <<client, got>>
vars == <<kind, createVars, taskVars, streamVars, clientVars, lost, faults>>

TerminalStatuses == {"completed", "failed", "canceled"}
Terminal(t) == status[t] \in TerminalStatuses
\* GetTask: a purged task is not found.
Found(t) == t # None /\ status[t] \notin {"none", "purged"}
Scheduled(t) == answer[t] = t
Fault == faults < MaxFaults /\ faults' = faults + 1
HandlerAt(c, where) == handler[c] = where
HandlerTo(c, where) == handler' = [handler EXCEPT ![c] = where]
Keyed == {c \in Clients : kind[c] # "prompt"}
Resumes(c) == kind[c] = "viewer"
Over == {"complete", "aborted", "refused"}

-----------------------------------------------------------------------------
(* EmitEvent and TransitionTo on a task, under its mutex.                  *)

Subscribers(t) == {c \in subs : answer[c] = t}

\* Mutant: the channels are closed before the event that ends the task is sent.
EmitClosesFirst(t, new) ==
    LET final == new \in TerminalStatuses
        fits == {c \in Subscribers(t) : ~final /\ Len(chan[c]) < cap[c]}
        drops == {c \in Subscribers(t) : ~final /\ Len(chan[c]) = cap[c]}
    IN  /\ status' = [status EXCEPT ![t] = new]
        /\ events' = [events EXCEPT ![t] = @ + 1]
        /\ chan' = [c \in Clients |-> IF c \in fits THEN Append(chan[c], events[t] + 1) ELSE chan[c]]
        /\ lost' = [c \in Clients |-> lost[c] \/ c \in drops]
        /\ shut' = [c \in Clients |-> shut[c] \/ (final /\ c \in Subscribers(t))]
        /\ subs' = IF final THEN subs \ Subscribers(t) ELSE subs
        /\ UNCHANGED <<cap, sse>>
\* Mutant: a subscriber whose channel is full is skipped altogether.
EmitSkipsFull(t, new) ==
    LET final == new \in TerminalStatuses
        fits == {c \in Subscribers(t) : Len(chan[c]) < cap[c]}
    IN  /\ status' = [status EXCEPT ![t] = new]
        /\ events' = [events EXCEPT ![t] = @ + 1]
        /\ chan' = [c \in Clients |-> IF c \in fits THEN Append(chan[c], events[t] + 1) ELSE chan[c]]
        /\ lost' = [c \in Clients |-> lost[c] \/ c \in Subscribers(t) \ fits]
        /\ shut' = [c \in Clients |-> shut[c] \/ (final /\ c \in fits)]
        /\ subs' = IF final THEN subs \ fits ELSE subs
        /\ UNCHANGED <<cap, sse>>
\* The next event: logged, offered to every subscriber without waiting, and
\* the channels are closed when it ends the task.
Emit(t, new) ==
    LET final == new \in TerminalStatuses
        fits == {c \in Subscribers(t) : Len(chan[c]) < cap[c]}
    IN  /\ status' = [status EXCEPT ![t] = new]
        /\ events' = [events EXCEPT ![t] = @ + 1]
        /\ chan' = [c \in Clients |-> IF c \in fits THEN Append(chan[c], events[t] + 1) ELSE chan[c]]
        /\ lost' = [c \in Clients |-> lost[c] \/ c \in Subscribers(t) \ fits]
        /\ shut' = [c \in Clients |-> shut[c] \/ (final /\ c \in Subscribers(t))]
        /\ subs' = IF final THEN subs \ Subscribers(t) ELSE subs
        /\ UNCHANGED <<cap, sse>>

\* The scheduler starts the task, then its runner reports.
TaskEmits(t) ==
    /\ Scheduled(t) /\ status[t] \in {"queued", "running"} /\ events[t] < MaxEvents
    /\ Emit(t, "running")
    /\ UNCHANGED <<createVars, clientVars, faults>>

\* A completion, an error, a failure or a cancellation.
Finish(t) ==
    /\ Scheduled(t) /\ (status[t] = "running" \/ status[t] = "queued")
    /\ \E new \in IF status[t] = "running" THEN {"completed", "failed"} ELSE {"canceled"} : Emit(t, new)
    /\ UNCHANGED <<createVars, clientVars, faults>>

-----------------------------------------------------------------------------
(* handleCreateTask.                                                       *)

Post(c) ==
    /\ client[c] = "idle"
    /\ client' = [client EXCEPT ![c] = "posting"]
    /\ HandlerTo(c, IF c \in Keyed THEN "check" ELSE "create")
    /\ UNCHANGED <<record, lapsed, answer, taskVars, streamVars, got, lost, faults>>

\* Get: the key names a task that is still known.
CheckKey(c) ==
    /\ HandlerAt(c, "check")
    /\ IF Found(record)
       THEN answer' = [answer EXCEPT ![c] = record] /\ HandlerTo(c, "done")
       ELSE UNCHANGED answer /\ HandlerTo(c, "create")
    /\ UNCHANGED <<record, lapsed, taskVars, streamVars, clientVars, lost, faults>>

CreateTask(c) ==
    /\ HandlerAt(c, "create")
    /\ status' = [status EXCEPT ![c] = "queued"]
    /\ events' = [events EXCEPT ![c] = 1]
    /\ HandlerTo(c, IF c \in Keyed THEN "record" ELSE "schedule")
    /\ UNCHANGED <<record, lapsed, answer, streamVars, clientVars, lost, faults>>

\* Mutant: the entry is written whether or not there is one.
RecordAlways(c) ==
    /\ HandlerAt(c, "record")
    /\ record' = c /\ HandlerTo(c, "schedule")
    /\ UNCHANGED <<answer, taskVars, streamVars, lost>>
    /\ UNCHANGED <<lapsed, clientVars, faults>>
\* RecordOrGet: the loser of a race cancels its own task and answers with the
\* winner's; an entry whose task is gone is neither obeyed nor replaced.
RecordOrGet(c) ==
    /\ HandlerAt(c, "record")
    /\ \/ /\ record = None
          /\ record' = c /\ HandlerTo(c, "schedule")
          /\ UNCHANGED <<answer, taskVars, streamVars, lost>>
       \/ /\ record # None /\ ~Found(record)
          /\ HandlerTo(c, "schedule")
          /\ UNCHANGED <<record, answer, taskVars, streamVars, lost>>
       \/ /\ Found(record)
          /\ Emit(c, "canceled")
          /\ answer' = [answer EXCEPT ![c] = record] /\ HandlerTo(c, "done")
          /\ UNCHANGED record
    /\ UNCHANGED <<lapsed, clientVars, faults>>

Schedule(c) ==
    /\ HandlerAt(c, "schedule")
    /\ answer' = [answer EXCEPT ![c] = c] /\ HandlerTo(c, "done")
    /\ UNCHANGED <<record, lapsed, taskVars, streamVars, clientVars, lost, faults>>

\* 409: the task that was created for the request is canceled.
ScheduleRefused(c) ==
    /\ HandlerAt(c, "schedule") /\ Fault
    /\ Emit(c, "canceled")
    /\ HandlerTo(c, "done")
    /\ UNCHANGED <<record, lapsed, answer, clientVars>>

-----------------------------------------------------------------------------
(* Time: the key expires, terminal tasks are purged.                       *)

\* The key is recorded before its task ends, so it expires first unless the
\* life of finished tasks is the shorter one.
CleanupExpired(t) ==
    /\ Terminal(t) /\ (ShortTTL \/ record # t)
    /\ status' = [status EXCEPT ![t] = "purged"]
    /\ lapsed' = (lapsed \/ record = t)
    /\ UNCHANGED <<record, handler, answer, events, streamVars, clientVars, lost, faults>>

KeyExpires ==
    /\ record # None
    /\ record' = None /\ lapsed' = TRUE
    /\ UNCHANGED <<handler, answer, taskVars, streamVars, clientVars, lost, faults>>

-----------------------------------------------------------------------------
(* The stream of a client: Subscribe, handleTaskEvents and unsubscribe.    *)

ClientTo(c, where) == client' = [client EXCEPT ![c] = where]

ReadAnswer(c) ==
    /\ client[c] = "posting" /\ HandlerAt(c, "done")
    /\ ClientTo(c, IF answer[c] = None THEN "refused" ELSE "subscribing")
    /\ UNCHANGED <<createVars, taskVars, streamVars, got, lost, faults>>

Since(c) == IF Resumes(c) /\ got[c] # <<>> THEN Last(got[c]) ELSE 0
History(c) == [i \in 1 .. events[answer[c]] - Since(c) |-> Since(c) + i]

\* History and registration are one critical section.  A reconnecting client
\* has a new channel; its old handler only holds the old one.
Subscribe(c) ==
    /\ client[c] = "subscribing" /\ Found(answer[c]) /\ sse[c] = "off"
    /\ chan' = [chan EXCEPT ![c] = History(c)]
    /\ cap' = [cap EXCEPT ![c] = LET room == Len(History(c)) + LiveRoom
                                IN  IF room > BaseCap THEN room ELSE BaseCap]
    /\ shut' = [shut EXCEPT ![c] = Terminal(answer[c])]
    /\ subs' = IF Terminal(answer[c]) THEN subs ELSE subs \cup {c}
    /\ sse' = [sse EXCEPT ![c] = "serving"]
    /\ got' = [got EXCEPT ![c] = IF Resumes(c) THEN @ ELSE <<>>]
    /\ ClientTo(c, "streaming")
    /\ UNCHANGED <<createVars, taskVars, lost, faults>>

SubscribeNotFound(c) ==
    /\ client[c] = "subscribing" /\ ~Found(answer[c])
    /\ ClientTo(c, "refused")
    /\ UNCHANGED <<createVars, taskVars, streamVars, got, lost, faults>>

IsFinal(c, id) == id = events[answer[c]] /\ status[answer[c]] \in TerminalStatuses \cup {"purged"}

\* One frame: printEvent ends the run command, the bridge reads on.
Deliver(c) ==
    /\ sse[c] = "serving" /\ chan[c] # <<>> /\ client[c] = "streaming"
    /\ chan' = [chan EXCEPT ![c] = Tail(@)]
    /\ got' = [got EXCEPT ![c] = Append(@, Head(chan[c]))]
    /\ ClientTo(c, IF kind[c] # "prompt" /\ IsFinal(c, Head(chan[c])) THEN "complete" ELSE "streaming")
    /\ UNCHANGED <<createVars, taskVars, subs, cap, shut, sse, lost, faults>>

\* The channel is closed: the handler returns and the client sees the end.
StreamEnd(c) ==
    /\ sse[c] = "serving" /\ chan[c] = <<>> /\ shut[c] /\ client[c] = "streaming"
    /\ sse' = [sse EXCEPT ![c] = "leaving"]
    /\ ClientTo(c, IF Resumes(c) THEN "subscribing" ELSE "complete")
    /\ UNCHANGED <<createVars, taskVars, subs, chan, cap, shut, got, lost, faults>>

\* The request's context ends; select may take it before the channel.
ClientGone(c) ==
    /\ sse[c] = "serving" /\ client[c] # "streaming"
    /\ sse' = [sse EXCEPT ![c] = "leaving"]
    /\ UNCHANGED <<createVars, taskVars, subs, chan, cap, shut, clientVars, lost, faults>>

\* Mutant: the channel is closed whether or not it is still registered.
UnsubscribeUnchecked(c) ==
    /\ sse[c] = "leaving"
    /\ subs' = subs \ {c}
    /\ sse' = [sse EXCEPT ![c] = "draining"]
    /\ UNCHANGED <<createVars, taskVars, chan, cap, shut, clientVars, lost, faults>>
\* Deregisters under the mutex; only one that was still active closes the channel.
Unsubscribe(c) ==
    /\ sse[c] = "leaving"
    /\ subs' = subs \ {c}
    /\ sse' = [sse EXCEPT ![c] = IF c \in subs THEN "draining" ELSE "off"]
    /\ UNCHANGED <<createVars, taskVars, chan, cap, shut, clientVars, lost, faults>>

\* Outside the mutex: the rest is drained and the channel closed.
CloseChannel(c) ==
    /\ sse[c] = "draining"
    /\ chan' = [chan EXCEPT ![c] = <<>>]
    /\ shut' = [shut EXCEPT ![c] = TRUE]
    /\ sse' = [sse EXCEPT ![c] = "off"]
    /\ UNCHANGED <<createVars, taskVars, subs, cap, clientVars, lost, faults>>

-----------------------------------------------------------------------------
(* Faults.                                                                 *)

Leaves(c) == IF Resumes(c) THEN "subscribing" ELSE "aborted"

\* The bridge's abort, an interrupt or a broken connection.  The handler of a
\* request goes on, and the task does too.
Abort(c) ==
    /\ client[c] \in {"posting", "subscribing", "streaming"} /\ Fault
    /\ ClientTo(c, IF client[c] = "streaming" THEN Leaves(c) ELSE "aborted")
    /\ UNCHANGED <<createVars, taskVars, streamVars, got, lost>>

\* The coordinator restarts: keys and channels are gone, tasks in flight fail.
Restart ==
    /\ Fault
    /\ record' = None /\ UNCHANGED <<lapsed, answer, got, lost>>
    /\ handler' = [c \in Clients |-> IF handler[c] = "idle" THEN "idle" ELSE "done"]
    /\ LET flight == {t \in Clients : status[t] \in {"queued", "running"}}
       IN  /\ status' = [t \in Clients |-> IF t \in flight THEN "failed" ELSE status[t]]
           /\ events' = [t \in Clients |-> IF t \in flight THEN events[t] + 1 ELSE events[t]]
    /\ subs' = {} /\ cap' = cap /\ shut' = [c \in Clients |-> TRUE]
    /\ chan' = [c \in Clients |-> <<>>] /\ sse' = [c \in Clients |-> "off"]
    /\ client' = [c \in Clients |-> CASE client[c] = "streaming" -> Leaves(c)
                                      [] client[c] = "posting" -> "aborted"
                                      [] OTHER -> client[c]]

-----------------------------------------------------------------------------

Init ==
    /\ kind \in Kinds
    /\ record = None /\ lapsed = FALSE /\ faults = 0
    /\ handler = [c \in Clients |-> "idle"] /\ answer = [c \in Clients |-> None]
    /\ status = [c \in Clients |-> "none"] /\ events = [c \in Clients |-> 0]
    /\ subs = {} /\ chan = [c \in Clients |-> <<>>]
    /\ cap = [c \in Clients |-> BaseCap] /\ shut = [c \in Clients |-> TRUE]
    /\ sse = [c \in Clients |-> "off"] /\ client = [c \in Clients |-> "idle"]
    /\ got = [c \in Clients |-> <<>>] /\ lost = [c \in Clients |-> FALSE]

CreateStep(c) == CheckKey(c) \/ CreateTask(c) \/ RecordOrGet(c) \/ Schedule(c) \/ ScheduleRefused(c)
StreamStep(c) ==
    \/ ReadAnswer(c) \/ Subscribe(c) \/ SubscribeNotFound(c) \/ Deliver(c) \/ StreamEnd(c)
    \/ ClientGone(c) \/ Unsubscribe(c) \/ CloseChannel(c)
TaskStep(t) == TaskEmits(t) \/ Finish(t)

Next == UNCHANGED kind /\
    (\/ \E c \in Clients : Post(c) \/ CreateStep(c) \/ StreamStep(c) \/ TaskStep(c) \/ CleanupExpired(c) \/ Abort(c)
     \/ KeyExpires
     \/ Restart)

Spec == Init /\ [][Next]_vars

\* Handlers and clients run and every task finishes, as ProcessRunner, MeshDispatch
\* and TerritoryScheduler show for tasks with a deadline.
FairSpec ==
    Spec /\ \A c \in Clients : 
        WF_vars(UNCHANGED kind /\ CreateStep(c)) /\ WF_vars(UNCHANGED kind /\ StreamStep(c)) /\ WF_vars(UNCHANGED kind /\ TaskStep(c))

-----------------------------------------------------------------------------
(* Properties.                                                             *)

\* Type invariant, and no channel panics: one that EmitEvent may still send to or
\* close, or that unsubscribe is about to close, is open.
TypeOK ==
    /\ kind \in [Clients -> {"run", "prompt", "viewer"}]
    /\ record \in Clients \cup {None} /\ lapsed \in BOOLEAN /\ answer \in [Clients -> Clients \cup {None}]
    /\ handler \in [Clients -> {"idle", "check", "create", "record", "schedule", "done"}]
    /\ status \in [Clients -> {"none", "queued", "running", "purged"} \cup TerminalStatuses]
    /\ events \in [Clients -> Nat]
    /\ subs \subseteq Clients /\ chan \in [Clients -> Seq(Nat)] /\ cap \in [Clients -> Nat]
    /\ shut \in [Clients -> BOOLEAN] /\ sse \in [Clients -> {"off", "serving", "leaving", "draining"}]
    /\ client \in [Clients -> {"idle", "posting", "subscribing", "streaming"} \cup Over]
    /\ got \in [Clients -> Seq(Nat)] /\ lost \in [Clients -> BOOLEAN] /\ faults \in 0 .. MaxFaults
    /\ \A c \in Clients : Len(chan[c]) <= cap[c]
    /\ \A c \in Clients : c \in subs \/ sse[c] = "draining" => ~shut[c]

\* What a client reads is the history of its task in order, without a repeated
\* event, across reconnections; without a gap unless its channel was full; and a
\* client that has read to the end has the event that ended the task, unless it
\* was dropped too.
StreamWhole ==
    \A c \in Clients :
        /\ \A i \in 1 .. Len(got[c]) - 1 : got[c][i] < got[c][i + 1]
        /\ ~lost[c] => \A i \in 1 .. Len(got[c]) : got[c][i] = i
        /\ client[c] = "complete" /\ ~lost[c] => got[c] # <<>> /\ IsFinal(c, Last(got[c]))

\* Requests with one key have one task between them as long as the key holds:
\* whoever is answered is answered with a task that runs, no other task of the
\* key is under way, and that includes the loser of a race and a restart.
OneTaskPerKey ==
    ~lapsed => \A c, d \in Keyed :
        /\ c # d /\ Scheduled(c) /\ Scheduled(d) => Terminal(c) \/ Terminal(d) \/ status[c] = "purged" \/ status[d] = "purged"
        /\ answer[c] = d => Scheduled(d) \/ HandlerAt(d, "schedule") \/ Terminal(d) \/ status[d] = "purged"

\* Every client that made a request comes to an end and leaves neither a handler
\* nor a subscription behind, whoever is slow, aborts or is dropped.
ClientsEnd ==
    <>[](\A c \in Clients : client[c] # "idle" => client[c] \in Over /\ sse[c] = "off" /\ c \notin subs)
=============================================================================
