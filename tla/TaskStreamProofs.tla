-------------------------- MODULE TaskStreamProofs --------------------------
(***************************************************************************)
(* Theorems about TaskStream, for any clients of any kinds, capacities,    *)
(* numbers of events and faults.                                           *)
(***************************************************************************)
EXTENDS TaskStream, SequenceTheorems, TLAPS

-----------------------------------------------------------------------------
(* The inductive invariant.                                                *)

Live == {"queued", "running"}
Ended == TerminalStatuses \cup {"purged"}

\* The create handler of a client: nobody knows its task before it is made, and
\* nothing is streamed before the handler has answered.
Creates(c) ==
    /\ handler[c] # "done" => /\ answer[c] = None /\ got[c] = <<>> /\ sse[c] = "off"
                              /\ client[c] \in {"idle", "posting", "aborted"}
    /\ handler[c] \in {"idle", "check", "create"} => status[c] = "none"
    /\ handler[c] \in {"record", "schedule"} => status[c] = "queued"
    /\ handler[c] \in {"check", "record"} => kind[c] # "prompt"
    /\ client[c] = "idle" => handler[c] = "idle"
    /\ client[c] \in {"subscribing", "streaming", "complete"} => answer[c] # None
    /\ answer[c] # None => status[answer[c]] # "none"
    /\ status[c] # "none" => events[c] >= 1

\* While the key holds, it names a task that runs or will, and every other task
\* of the key that got past RecordOrGet is over.
KeyHolds ==
    /\ record # None => /\ record \in Keyed /\ Found(record)
                        /\ Scheduled(record) \/ HandlerAt(record, "schedule") \/ Terminal(record)
    /\ \A c \in Keyed : c # record /\ (Scheduled(c) \/ HandlerAt(c, "schedule")) => status[c] \in Ended
    /\ \A c, d \in Keyed : answer[c] = d => Scheduled(d) \/ HandlerAt(d, "schedule") \/ status[d] \in Ended

\* A registered channel belongs to a handler that has not left and to a task
\* that goes on; a client that streams from another one has a task that is over.
Registered(c) ==
    /\ c \in subs => sse[c] \in {"serving", "leaving"} /\ answer[c] # None /\ status[answer[c]] \in Live
    /\ client[c] = "streaming" => sse[c] = "serving" /\ (c \notin subs => status[answer[c]] \in Ended)

Increasing(s) == \A i \in 1 .. Len(s) - 1 : s[i] < s[i + 1]
Within(s, n) == \A i \in 1 .. Len(s) : s[i] \in 1 .. n
Last0(s) == IF s = <<>> THEN 0 ELSE s[Len(s)]

\* What was read and what is still in the channel.
Reads(c) ==
    /\ Increasing(got[c]) /\ (got[c] # <<>> => answer[c] # None /\ Within(got[c], events[answer[c]]))
    /\ client[c] = "streaming" =>
           /\ Increasing(chan[c]) /\ Within(chan[c], events[answer[c]])
           /\ chan[c] # <<>> => Last0(got[c]) < chan[c][1]

\* The same without a gap, as long as nothing was dropped.
Gapless(c) ==
    ~lost[c] =>
        /\ \A i \in 1 .. Len(got[c]) : got[c][i] = i
        /\ client[c] = "streaming" => /\ Len(got[c]) + Len(chan[c]) = events[answer[c]]
                                      /\ \A i \in 1 .. Len(chan[c]) : chan[c][i] = Len(got[c]) + i
        /\ client[c] = "complete" => got[c] # <<>> /\ IsFinal(c, Last(got[c]))

StreamInv ==
    /\ TypeOK /\ (~lapsed => KeyHolds)
    /\ \A c \in Clients : Creates(c) /\ Registered(c) /\ Reads(c) /\ Gapless(c)

-----------------------------------------------------------------------------
(* What an event does.                                                     *)

Statuses == {"none", "queued", "running", "purged"} \cup TerminalStatuses
After == {"running"} \cup TerminalStatuses

\* An event as one client sees it that has no channel at the task.
Missed(u) == chan'[u] = chan[u] /\ lost'[u] = lost[u] /\ shut'[u] = shut[u] /\ (u \in subs' <=> u \in subs)

\* And one that has: it is sent or dropped, and the last one closes the channel.
Offered(u, t, new) ==
    /\ \/ chan'[u] = Append(chan[u], events[t] + 1) /\ Len(chan[u]) < cap[u] /\ lost'[u] = lost[u]
       \/ chan'[u] = chan[u] /\ lost'[u]
    /\ new \in TerminalStatuses => shut'[u] /\ u \notin subs'
    /\ new \notin TerminalStatuses => shut'[u] = shut[u] /\ u \in subs'

LEMMA EmitIs ==
    ASSUME TypeOK, NEW t \in Clients, NEW new \in After, Emit(t, new)
    PROVE  /\ status' = [status EXCEPT ![t] = new] /\ events' = [events EXCEPT ![t] = events[t] + 1]
           /\ subs' \subseteq subs /\ chan' \in [Clients -> Seq(Nat)] /\ shut' \in [Clients -> BOOLEAN]
           /\ lost' \in [Clients -> BOOLEAN] /\ UNCHANGED <<cap, sse>>
           /\ \A u \in Clients : Len(chan'[u]) <= cap[u]
           /\ \A u \in Clients : (u \notin Subscribers(t) /\ Missed(u)) \/ (u \in Subscribers(t) /\ Offered(u, t, new))
<1>0. /\ subs \subseteq Clients /\ chan \in [Clients -> Seq(Nat)] /\ cap \in [Clients -> Nat] /\ events[t] + 1 \in Nat
      /\ shut \in [Clients -> BOOLEAN] /\ lost \in [Clients -> BOOLEAN] /\ \A u \in Clients : Len(chan[u]) <= cap[u]
  BY DEF TypeOK
<1>1. PICK fits \in SUBSET Subscribers(t) :
          /\ fits = {u \in Subscribers(t) : Len(chan[u]) < cap[u]}
          /\ chan' = [u \in Clients |-> IF u \in fits THEN Append(chan[u], events[t] + 1) ELSE chan[u]]
          /\ lost' = [u \in Clients |-> lost[u] \/ u \in Subscribers(t) \ fits]
  BY DEF Emit
<1>2. /\ status' = [status EXCEPT ![t] = new] /\ events' = [events EXCEPT ![t] = events[t] + 1]
      /\ UNCHANGED <<cap, sse>>
      /\ shut' = [u \in Clients |-> shut[u] \/ (new \in TerminalStatuses /\ u \in Subscribers(t))]
      /\ subs' = IF new \in TerminalStatuses THEN subs \ Subscribers(t) ELSE subs
  BY DEF Emit
<1>3. ASSUME NEW u \in Clients, u \in fits
      PROVE  /\ chan'[u] = Append(chan[u], events[t] + 1) /\ chan'[u] \in Seq(Nat) /\ Len(chan'[u]) <= cap[u]
             /\ Len(chan[u]) < cap[u]
  <2>1. Len(chan[u]) < cap[u] /\ chan[u] \in Seq(Nat) /\ Len(chan[u]) \in Nat /\ cap[u] \in Nat
    BY <1>0, <1>1, <1>3
  <2>2. chan'[u] = Append(chan[u], events[t] + 1)
    BY <1>1, <1>3
  <2>3. Append(chan[u], events[t] + 1) \in Seq(Nat) /\ Len(Append(chan[u], events[t] + 1)) = Len(chan[u]) + 1
    BY <1>0, <2>1
  <2> QED BY <2>1, <2>2, <2>3
<1>4. ASSUME NEW u \in Clients, u \notin fits PROVE chan'[u] = chan[u]
  BY <1>1, <1>4
<1>5. chan' \in [Clients -> Seq(Nat)] /\ \A u \in Clients : Len(chan'[u]) <= cap[u]
  <2>1. \A u \in Clients : chan'[u] \in Seq(Nat)
    BY <1>0, <1>3, <1>4
  <2> QED BY <1>0, <1>1, <1>3, <1>4, <2>1
<1>6. shut' \in [Clients -> BOOLEAN] /\ lost' \in [Clients -> BOOLEAN]
  <2>1. \A u \in Clients : (shut[u] \/ (new \in TerminalStatuses /\ u \in Subscribers(t))) \in BOOLEAN
                           /\ (lost[u] \/ u \in Subscribers(t) \ fits) \in BOOLEAN
    OBVIOUS
  <2> QED BY <1>1, <1>2, <2>1
<1>7. ASSUME NEW u \in Clients
      PROVE  (u \notin Subscribers(t) /\ Missed(u)) \/ (u \in Subscribers(t) /\ Offered(u, t, new))
  <2>0. lost[u] \in BOOLEAN /\ shut[u] \in BOOLEAN /\ (u \in Subscribers(t) => u \in subs)
    BY <1>0 DEF Subscribers
  <2>1. lost'[u] = (lost[u] \/ u \in Subscribers(t) \ fits)
        /\ shut'[u] = (shut[u] \/ (new \in TerminalStatuses /\ u \in Subscribers(t)))
    BY <1>1, <1>2
  <2>2. CASE u \notin Subscribers(t)
    BY <1>0, <1>1, <1>2, <1>4, <2>0, <2>1, <2>2, Zenon DEF Missed
  <2>3. CASE u \in Subscribers(t)
    <3>1. \/ chan'[u] = Append(chan[u], events[t] + 1) /\ Len(chan[u]) < cap[u] /\ lost'[u] = lost[u]
          \/ chan'[u] = chan[u] /\ lost'[u]
      <4>1. CASE u \in fits
        <5>1. lost'[u] = lost[u]
          <6>1. u \notin Subscribers(t) \ fits
            BY <4>1
          <6> QED BY <2>0, <2>1, <6>1
        <5> QED BY <1>3, <4>1, <5>1
      <4>2. CASE u \notin fits
        <5>1. lost'[u]
          BY <2>1, <2>3, <4>2, Zenon
        <5> QED BY <1>4, <4>2, <5>1
      <4> QED BY <4>1, <4>2
    <3>2. new \in TerminalStatuses => shut'[u] /\ u \notin subs'
      BY <1>2, <2>1, <2>3, Zenon
    <3>3. new \notin TerminalStatuses => shut'[u] = shut[u] /\ u \in subs'
      BY <1>0, <1>2, <2>1, <2>3, Zenon DEF Subscribers
    <3> QED BY <2>3, <3>1, <3>2, <3>3 DEF Offered
  <2> QED BY <2>2, <2>3
<1> QED BY <1>2, <1>5, <1>6, <1>7

-----------------------------------------------------------------------------
(* The tasks.                                                              *)

\* What a step does to a task: nothing, create it, an event, or purge it.
Aged(t) == \/ status'[t] = status[t] /\ events'[t] = events[t]
           \/ handler[t] = "create" /\ status'[t] = "queued" /\ events'[t] = 1
           \/ status[t] \in Live /\ status'[t] \in After /\ events'[t] = events[t] + 1
           \/ Terminal(t) /\ status'[t] = "purged" /\ events'[t] = events[t]

\* The steps in which the task of a client has an event.
Emits(c) == /\ status[c] \in Live /\ \E new \in After : Emit(c, new)
            /\ UNCHANGED <<record, lapsed, client, got>>

LEMMA EmitSteps ==
    ASSUME TypeOK, NEW c \in Clients, Creates(c),
           TaskEmits(c) \/ Finish(c) \/ ScheduleRefused(c) \/ (RecordOrGet(c) /\ ~UNCHANGED status)
    PROVE  Emits(c)
<1>1. CASE TaskEmits(c)
  BY <1>1 DEF TaskEmits, Emits, Live, After, createVars, clientVars
<1>2. CASE Finish(c)
  <2>1. PICK new : Emit(c, new) /\ new \in TerminalStatuses
    BY <1>2 DEF Finish, TerminalStatuses
  <2> QED BY <1>2, <2>1 DEF Finish, Emits, Live, After, createVars, clientVars
<1>3. CASE ScheduleRefused(c)
  BY <1>3 DEF ScheduleRefused, Emits, Live, After, TerminalStatuses, clientVars, HandlerAt, Creates
<1>4. CASE RecordOrGet(c) /\ ~UNCHANGED status
  BY <1>4 DEF RecordOrGet, Emits, Live, After, TerminalStatuses, clientVars, taskVars, HandlerAt, Creates
<1> QED BY <1>1, <1>2, <1>3, <1>4

Quiet(c) ==
    \/ Post(c) \/ CheckKey(c) \/ (RecordOrGet(c) /\ UNCHANGED status) \/ Schedule(c) \/ StreamStep(c) \/ Abort(c)

LEMMA TaskMoves ==
    ASSUME TypeOK, \A c \in Clients : Creates(c), [Next]_vars
    PROVE  /\ \A t \in Clients : Aged(t)
           /\ status' \in [Clients -> Statuses] /\ events' \in [Clients -> Nat]
<1>0. status \in [Clients -> Statuses] /\ events \in [Clients -> Nat]
  BY DEF TypeOK, Statuses
<1>1. ASSUME UNCHANGED <<status, events>>
      PROVE  (\A t \in Clients : Aged(t)) /\ status' \in [Clients -> Statuses] /\ events' \in [Clients -> Nat]
  BY <1>0, <1>1 DEF Aged
<1>2. ASSUME NEW c \in Clients, Emits(c)
      PROVE  (\A t \in Clients : Aged(t)) /\ status' \in [Clients -> Statuses] /\ events' \in [Clients -> Nat]
  <2>1. PICK new \in After : Emit(c, new)
    BY <1>2 DEF Emits
  <2>2. status' = [status EXCEPT ![c] = new] /\ events' = [events EXCEPT ![c] = events[c] + 1]
    BY <2>1, EmitIs
  <2>3. new \in Statuses
    BY DEF After, Statuses
  <2> QED BY <1>0, <1>2, <2>2, <2>3 DEF Aged, Emits
<1>3. ASSUME NEW c \in Clients, CreateTask(c)
      PROVE  (\A t \in Clients : Aged(t)) /\ status' \in [Clients -> Statuses] /\ events' \in [Clients -> Nat]
  BY <1>0, <1>3 DEF CreateTask, HandlerAt, Aged, Statuses
<1>4. ASSUME NEW c \in Clients, CleanupExpired(c)
      PROVE  (\A t \in Clients : Aged(t)) /\ status' \in [Clients -> Statuses] /\ events' \in [Clients -> Nat]
  BY <1>0, <1>4 DEF CleanupExpired, Aged, Statuses
<1>5. CASE Restart
  <2>1. \A t \in Clients : \/ status[t] \in Live /\ status'[t] = "failed" /\ events'[t] = events[t] + 1
                           \/ status[t] \notin Live /\ status'[t] = status[t] /\ events'[t] = events[t]
    BY <1>5 DEF Restart, Live
  <2>2. status' = [t \in Clients |-> status'[t]] /\ events' = [t \in Clients |-> events'[t]]
    BY <1>5 DEF Restart
  <2>3. "failed" \in Statuses /\ "failed" \in After
    BY DEF Statuses, After, TerminalStatuses
  <2> QED BY <1>0, <2>1, <2>2, <2>3 DEF Aged
<1>6. ASSUME NEW c \in Clients, Quiet(c) PROVE UNCHANGED <<status, events>>
  <2>1. CASE Post(c) \/ CheckKey(c) \/ Schedule(c) \/ Abort(c)
    BY <2>1 DEF Post, CheckKey, Schedule, Abort, taskVars
  <2>2. CASE RecordOrGet(c) /\ UNCHANGED status
    <3>1. ASSUME Emit(c, "canceled") PROVE FALSE
      <4>1. status'[c] = "canceled"
        BY <3>1 DEF Emit, TypeOK
      <4> QED BY <2>2, <4>1 DEF Creates, RecordOrGet, HandlerAt
    <3> QED BY <2>2, <3>1 DEF RecordOrGet, taskVars
  <2>3. CASE StreamStep(c)
    BY <2>3 DEF StreamStep, ReadAnswer, Subscribe, SubscribeNotFound, Deliver, StreamEnd, ClientGone, Unsubscribe, CloseChannel, taskVars
  <2> QED BY <1>6, <2>1, <2>2, <2>3 DEF Quiet
<1>7. ASSUME KeyExpires \/ UNCHANGED vars PROVE UNCHANGED <<status, events>>
  BY <1>7 DEF KeyExpires, vars, taskVars
<1> QED BY <1>1, <1>2, <1>3, <1>4, <1>5, <1>6, <1>7, EmitSteps DEF Next, CreateStep, TaskStep, Quiet

\* A task that exists goes on to exist, and one that is over has no more events.
LEMMA TasksAge ==
    ASSUME TypeOK, \A c \in Clients : Creates(c), [Next]_vars, NEW t \in Clients
    PROVE  /\ status[t] # "none" => status'[t] # "none" /\ events'[t] >= events[t]
           /\ status[t] \in Ended => status'[t] \in Ended /\ events'[t] = events[t]
           /\ status[t] \in Live => status'[t] \in Live \cup Ended
           /\ events[t] \in Nat /\ events'[t] \in Nat
<1>1. Aged(t) /\ events[t] \in Nat /\ events'[t] \in Nat /\ Creates(t)
  BY TaskMoves DEF TypeOK
<1> QED BY <1>1 DEF Aged, Creates, Ended, Live, After, TerminalStatuses, Terminal

-----------------------------------------------------------------------------
(* The create handler.                                                     *)

Handlers == {"idle", "check", "create", "record", "schedule", "done"}
Kind == {"run", "prompt", "viewer"}

LEMMA CreateTypes ==
    ASSUME TypeOK, [Next]_vars
    PROVE  /\ kind' = kind /\ record' \in Clients \cup {None} /\ lapsed' \in BOOLEAN
           /\ answer' \in [Clients -> Clients \cup {None}] /\ handler' \in [Clients -> Handlers]
           /\ faults' \in 0 .. MaxFaults
<1>0. /\ record \in Clients \cup {None} /\ lapsed \in BOOLEAN /\ answer \in [Clients -> Clients \cup {None}]
      /\ handler \in [Clients -> Handlers] /\ faults \in 0 .. MaxFaults
  BY DEF TypeOK, Handlers
<1>1. kind' = kind
  BY DEF Next, vars
<1>2. faults' \in 0 .. MaxFaults
  <2>1. faults' = faults \/ Fault
    <3>1. ASSUME NEW c \in Clients, Post(c) \/ CreateStep(c) \/ TaskStep(c) \/ CleanupExpired(c) \/ Abort(c)
          PROVE  faults' = faults \/ Fault
      BY <3>1 DEF Post, CreateStep, CheckKey, CreateTask, RecordOrGet, Schedule, ScheduleRefused, TaskStep, TaskEmits, Finish, CleanupExpired, Abort
    <3>2. ASSUME NEW c \in Clients, StreamStep(c) PROVE faults' = faults
      BY <3>2 DEF StreamStep, ReadAnswer, Subscribe, SubscribeNotFound, Deliver, StreamEnd, ClientGone, Unsubscribe, CloseChannel
    <3>3. ASSUME KeyExpires \/ Restart \/ UNCHANGED vars PROVE faults' = faults \/ Fault
      BY <3>3 DEF KeyExpires, Restart, vars
    <3> QED BY <3>1, <3>2, <3>3 DEF Next
  <2> QED BY <1>0, <2>1, StreamAssumption DEF Fault
<1>3. ASSUME UNCHANGED createVars
      PROVE  /\ record' \in Clients \cup {None} /\ lapsed' \in BOOLEAN
             /\ answer' \in [Clients -> Clients \cup {None}] /\ handler' \in [Clients -> Handlers]
  BY <1>0, <1>3 DEF createVars
<1>4. ASSUME NEW c \in Clients, Post(c) \/ CheckKey(c) \/ CreateTask(c) \/ RecordOrGet(c) \/ Schedule(c) \/ ScheduleRefused(c)
      PROVE  /\ record' \in Clients \cup {None} /\ lapsed' \in BOOLEAN
             /\ answer' \in [Clients -> Clients \cup {None}] /\ handler' \in [Clients -> Handlers]
  <2>1. handler' \in [Clients -> Handlers]
    <3>1. \E h \in Handlers : handler' = [handler EXCEPT ![c] = h]
      BY <1>4 DEF Post, CheckKey, CreateTask, RecordOrGet, Schedule, ScheduleRefused, HandlerTo, Handlers
    <3> QED BY <1>0, <3>1
  <2>2. answer' = answer \/ answer' = [answer EXCEPT ![c] = record] \/ answer' = [answer EXCEPT ![c] = c]
    BY <1>4 DEF Post, CheckKey, CreateTask, RecordOrGet, Schedule, ScheduleRefused
  <2>3. lapsed' = lapsed /\ (record' = record \/ record' = c)
    BY <1>4 DEF Post, CheckKey, CreateTask, RecordOrGet, Schedule, ScheduleRefused
  <2> QED BY <1>0, <2>1, <2>2, <2>3
<1>5. ASSUME NEW c \in Clients, CleanupExpired(c)
      PROVE  /\ record' \in Clients \cup {None} /\ lapsed' \in BOOLEAN
             /\ answer' \in [Clients -> Clients \cup {None}] /\ handler' \in [Clients -> Handlers]
  <2>1. (lapsed \/ record = c) \in BOOLEAN
    OBVIOUS
  <2> QED BY <1>0, <1>5, <2>1 DEF CleanupExpired
<1>6. CASE KeyExpires
  BY <1>0, <1>1, <1>2, <1>6 DEF KeyExpires
<1>7. CASE Restart
  <2>1. \A c \in Clients : handler'[c] \in Handlers
    BY <1>7 DEF Restart, Handlers
  <2>2. handler' = [c \in Clients |-> handler'[c]] /\ record' = None /\ UNCHANGED <<lapsed, answer>>
    BY <1>7 DEF Restart
  <2> QED BY <1>0, <1>1, <1>2, <2>1, <2>2
<1>8. ASSUME NEW c \in Clients, StreamStep(c) \/ TaskStep(c) \/ Abort(c) PROVE UNCHANGED createVars
  <2>1. CASE TaskStep(c) \/ Abort(c)
    BY <2>1 DEF TaskStep, TaskEmits, Finish, Abort
  <2>2. CASE StreamStep(c)
    BY <2>2 DEF StreamStep, ReadAnswer, Subscribe, SubscribeNotFound, Deliver, StreamEnd, ClientGone, Unsubscribe, CloseChannel
  <2> QED BY <1>8, <2>1, <2>2
<1>9. ASSUME UNCHANGED vars PROVE UNCHANGED createVars
  BY <1>9 DEF vars
<1> QED BY <1>1, <1>2, <1>3, <1>4, <1>5, <1>6, <1>7, <1>8, <1>9 DEF Next, CreateStep

\* A step of one client leaves the handlers and the reading of the others alone.
LEMMA OtherHandlers ==
    ASSUME TypeOK, NEW c \in Clients, NEW u \in Clients, u # c,
           Post(c) \/ CreateStep(c) \/ StreamStep(c) \/ TaskStep(c) \/ CleanupExpired(c) \/ Abort(c)
    PROVE  handler'[u] = handler[u] /\ answer'[u] = answer[u] /\ client'[u] = client[u] /\ got'[u] = got[u] /\ sse'[u] = sse[u]
<1> USE DEF TypeOK
<1>1. CASE Post(c) \/ CheckKey(c) \/ CreateTask(c) \/ Schedule(c)
  BY <1>1 DEF Post, CheckKey, CreateTask, Schedule, HandlerTo, streamVars, clientVars
<1>2. CASE RecordOrGet(c) \/ ScheduleRefused(c)
  BY <1>2 DEF RecordOrGet, ScheduleRefused, Emit, HandlerTo, streamVars, clientVars
<1>3. CASE ReadAnswer(c) \/ Subscribe(c) \/ SubscribeNotFound(c)
  BY <1>3 DEF ReadAnswer, Subscribe, SubscribeNotFound, ClientTo, createVars, streamVars
<1>4. CASE Deliver(c) \/ StreamEnd(c) \/ ClientGone(c) \/ Unsubscribe(c) \/ CloseChannel(c)
  BY <1>4 DEF Deliver, StreamEnd, ClientGone, Unsubscribe, CloseChannel, ClientTo, createVars, clientVars
<1>5. CASE TaskStep(c)
  BY <1>5 DEF TaskStep, TaskEmits, Finish, Emit, createVars, clientVars
<1>6. CASE CleanupExpired(c) \/ Abort(c)
  BY <1>6 DEF CleanupExpired, Abort, ClientTo, createVars, streamVars, clientVars
<1> QED BY <1>1, <1>2, <1>3, <1>4, <1>5, <1>6 DEF CreateStep, StreamStep

LEMMA CreatesStep ==
    ASSUME TypeOK, \A c \in Clients : Creates(c), [Next]_vars
    PROVE  \A c \in Clients : Creates(c)'
<1> SUFFICES ASSUME NEW u \in Clients PROVE Creates(u)'
  OBVIOUS
<1>0. /\ Creates(u) /\ Aged(u) /\ events[u] \in Nat /\ answer[u] \in Clients \cup {None} /\ None \notin Clients
      /\ record \in Clients \cup {None} /\ kind' = kind
      /\ \A t \in Clients : status[t] # "none" => status'[t] # "none"
      /\ status[u] # "none" => status'[u] # "none" /\ events'[u] >= events[u] /\ events'[u] \in Nat
  BY TaskMoves, TasksAge, CreateTypes, StreamAssumption DEF TypeOK
<1>1. status'[u] # "none" => events'[u] >= 1
  BY <1>0 DEF Aged, Creates, Live, After, TerminalStatuses, Terminal
<1>2. ASSUME handler'[u] = handler[u], answer'[u] = answer[u], client'[u] = client[u], got'[u] = got[u], sse'[u] = sse[u],
             status'[u] = status[u] \/ handler[u] = "done"
      PROVE  Creates(u)'
  BY <1>0, <1>1, <1>2 DEF Creates
<1>3. ASSUME NEW c \in Clients, u # c, Post(c) \/ CreateStep(c) \/ StreamStep(c) \/ TaskStep(c) \/ CleanupExpired(c) \/ Abort(c)
      PROVE  Creates(u)'
  <2>1. status'[u] = status[u]
    <3>1. CASE Post(c) \/ CheckKey(c) \/ CreateTask(c) \/ Schedule(c) \/ CleanupExpired(c) \/ Abort(c)
      BY <1>3, <3>1 DEF Post, CheckKey, CreateTask, Schedule, CleanupExpired, Abort, taskVars, TypeOK
    <3>2. CASE RecordOrGet(c) \/ ScheduleRefused(c) \/ TaskStep(c)
      BY <1>3, <3>2 DEF RecordOrGet, ScheduleRefused, TaskStep, TaskEmits, Finish, Emit, taskVars, TypeOK
    <3>3. CASE StreamStep(c)
      BY <3>3 DEF StreamStep, ReadAnswer, Subscribe, SubscribeNotFound, Deliver, StreamEnd, ClientGone, Unsubscribe, CloseChannel, taskVars
    <3> QED BY <1>3, <3>1, <3>2, <3>3 DEF CreateStep
  <2> QED BY <1>2, <1>3, <2>1, OtherHandlers
<1>4. CASE Post(u)
  BY <1>0, <1>1, <1>4 DEF Post, HandlerTo, Keyed, Creates, TypeOK, taskVars, streamVars
<1>5. CASE CheckKey(u)
  BY <1>0, <1>1, <1>5 DEF CheckKey, HandlerAt, HandlerTo, Found, Creates, TypeOK, taskVars, streamVars, clientVars
<1>6. CASE CreateTask(u)
  BY <1>0, <1>1, <1>6 DEF CreateTask, HandlerAt, HandlerTo, Keyed, Creates, TypeOK, streamVars, clientVars
<1>7. CASE RecordOrGet(u)
  <2>1. handler[u] = "record" /\ client'[u] = client[u] /\ got'[u] = got[u] /\ sse'[u] = sse[u]
    BY <1>7 DEF RecordOrGet, HandlerAt, streamVars, clientVars, Emit
  <2>2. CASE handler'[u] = "schedule" /\ answer'[u] = answer[u] /\ status'[u] = status[u]
    BY <1>0, <1>1, <2>1, <2>2 DEF Creates
  <2>3. CASE handler'[u] = "done" /\ answer'[u] = record /\ Found(record)
    BY <1>0, <1>1, <2>1, <2>3 DEF Creates, Found
  <2> QED BY <1>7, <2>2, <2>3 DEF RecordOrGet, HandlerTo, TypeOK, taskVars
<1>8. CASE Schedule(u)
  BY <1>0, <1>1, <1>8 DEF Schedule, HandlerAt, HandlerTo, Creates, TypeOK, taskVars, streamVars, clientVars
<1>9. CASE ScheduleRefused(u)
  <2>1. handler[u] = "schedule" /\ handler'[u] = "done" /\ client'[u] = client[u] /\ got'[u] = got[u] /\ sse'[u] = sse[u]
        /\ answer'[u] = answer[u]
    BY <1>9 DEF ScheduleRefused, HandlerAt, HandlerTo, clientVars, Emit, TypeOK
  <2> QED BY <1>0, <1>1, <2>1 DEF Creates
<1>10. CASE ReadAnswer(u) \/ SubscribeNotFound(u)
  BY <1>0, <1>1, <1>10, SMTT(30) DEF ReadAnswer, SubscribeNotFound, HandlerAt, ClientTo, Creates, TypeOK, createVars, taskVars, streamVars
<1>11. CASE Subscribe(u) \/ Deliver(u)
  <2>1. UNCHANGED <<handler, answer, status, events>> /\ client'[u] \in {"streaming", "complete"} /\ client[u] \in {"subscribing", "streaming"}
    BY <1>11 DEF Subscribe, Deliver, ClientTo, createVars, taskVars, TypeOK
  <2> QED BY <1>0, <1>1, <2>1 DEF Creates
<1>12. CASE StreamEnd(u)
  BY <1>0, <1>1, <1>12 DEF StreamEnd, ClientTo, Creates, TypeOK, createVars, taskVars
<1>13. CASE ClientGone(u) \/ Unsubscribe(u) \/ CloseChannel(u)
  <2>1. UNCHANGED <<handler, answer, status, events, client, got>> /\ sse[u] # "off"
    BY <1>13 DEF ClientGone, Unsubscribe, CloseChannel, createVars, taskVars, clientVars
  <2> QED BY <1>0, <1>1, <2>1 DEF Creates
<1>14. CASE TaskStep(u) \/ CleanupExpired(u)
  <2>1. handler'[u] = handler[u] /\ answer'[u] = answer[u] /\ client'[u] = client[u] /\ got'[u] = got[u] /\ sse'[u] = sse[u]
    BY <1>14 DEF TaskStep, TaskEmits, Finish, Emit, CleanupExpired, createVars, streamVars, clientVars
  <2>2. handler[u] = "done"
    <3>1. CASE TaskStep(u)
      BY <1>0, <3>1 DEF TaskStep, TaskEmits, Finish, Scheduled, Creates
    <3>2. CASE CleanupExpired(u)
      BY <1>0, <3>2 DEF CleanupExpired, Terminal, TerminalStatuses, Creates, TypeOK
    <3> QED BY <1>14, <3>1, <3>2
  <2> QED BY <1>2, <2>1, <2>2
<1>15. CASE Abort(u)
  <2>1. UNCHANGED <<handler, answer, status, events, got, sse>>
    BY <1>15 DEF Abort, createVars, taskVars, streamVars
  <2>2. \/ client[u] = "streaming" /\ client'[u] \in {"subscribing", "aborted"}
        \/ client[u] # "streaming" /\ client'[u] = "aborted"
    BY <1>15 DEF Abort, ClientTo, Leaves, TypeOK
  <2> QED BY <1>0, <1>1, <2>1, <2>2 DEF Creates
<1>16. CASE Restart
  <2>1. /\ handler'[u] = (IF handler[u] = "idle" THEN "idle" ELSE "done") /\ UNCHANGED <<answer, got>> /\ sse'[u] = "off"
        /\ status[u] \notin Live => status'[u] = status[u]
    BY <1>16 DEF Restart, Live
  <2>2. \/ client[u] = "streaming" /\ client'[u] \in {"subscribing", "aborted"}
        \/ client[u] = "posting" /\ client'[u] = "aborted"
        \/ client[u] \notin {"streaming", "posting"} /\ client'[u] = client[u]
    BY <1>16 DEF Restart, Leaves
  <2> QED BY <1>0, <1>1, <2>1, <2>2 DEF Creates, Live
<1>17. CASE KeyExpires \/ UNCHANGED vars
  BY <1>2, <1>17 DEF KeyExpires, vars, createVars, taskVars, streamVars, clientVars
<1> QED BY <1>3, <1>4, <1>5, <1>6, <1>7, <1>8, <1>9, <1>10, <1>11, <1>12, <1>13, <1>14, <1>15, <1>16, <1>17
        DEF Next, CreateStep, StreamStep

-----------------------------------------------------------------------------
(* The idempotency key.                                                    *)

\* The task of a client got past RecordOrGet.
Passed(c) == answer[c] = c \/ handler[c] = "schedule"

LEMMA KeyHoldsIs ==
    KeyHolds <=> /\ record # None => /\ record \in Keyed /\ status[record] \notin {"none", "purged"}
                                     /\ Passed(record) \/ status[record] \in Ended
                 /\ \A c \in Keyed : c # record /\ Passed(c) => status[c] \in Ended
                 /\ \A c, d \in Keyed : answer[c] = d => Passed(d) \/ status[d] \in Ended
  BY DEF KeyHolds, Passed, Found, Scheduled, HandlerAt, Ended, Terminal, TerminalStatuses

LEMMA KeyHoldsStep ==
    ASSUME TypeOK, \A c \in Clients : Creates(c), ~lapsed => KeyHolds, [Next]_vars, ~lapsed'
    PROVE  KeyHolds'
<1>0. /\ kind' = kind /\ Keyed' = Keyed /\ Keyed \subseteq Clients /\ None \notin Clients
      /\ record \in Clients \cup {None} /\ answer \in [Clients -> Clients \cup {None}] /\ handler \in [Clients -> Handlers]
      /\ status \in [Clients -> Statuses]
  BY CreateTypes, StreamAssumption DEF Keyed, TypeOK, Handlers, Statuses
<1>1. /\ \A t \in Clients : status[t] # "none" => status'[t] # "none"
      /\ \A t \in Clients : status[t] \in Ended => status'[t] \in Ended
      /\ \A t \in Clients : status'[t] \in Statuses
  BY TaskMoves, TasksAge
<1>2. ~lapsed
  <2>1. ASSUME NEW c \in Clients, StreamStep(c) PROVE UNCHANGED lapsed
    BY <2>1 DEF StreamStep, ReadAnswer, Subscribe, SubscribeNotFound, Deliver, StreamEnd, ClientGone, Unsubscribe, CloseChannel, createVars
  <2>2. ASSUME NEW c \in Clients, Post(c) \/ CreateStep(c) \/ TaskStep(c) \/ Abort(c) PROVE UNCHANGED lapsed
    BY <2>2 DEF Post, CreateStep, CheckKey, CreateTask, RecordOrGet, Schedule, ScheduleRefused, TaskStep, TaskEmits, Finish, Abort, createVars
  <2>3. ASSUME NEW c \in Clients, CleanupExpired(c) PROVE ~lapsed
    BY <2>3, CreateTypes DEF CleanupExpired, TypeOK
  <2>4. ASSUME KeyExpires \/ Restart \/ UNCHANGED vars PROVE UNCHANGED lapsed
    BY <2>4 DEF KeyExpires, Restart, vars, createVars
  <2> QED BY <2>1, <2>2, <2>3, <2>4 DEF Next
<1>3. /\ record # None => /\ record \in Keyed /\ status[record] \notin {"none", "purged"}
                          /\ Passed(record) \/ status[record] \in Ended
      /\ \A c \in Keyed : c # record /\ Passed(c) => status[c] \in Ended
      /\ \A c, d \in Keyed : answer[c] = d => Passed(d) \/ status[d] \in Ended
  BY <1>2, KeyHoldsIs
<1> DEFINE P(u) == answer'[u] = u \/ handler'[u] = "schedule"
<1>4. SUFFICES /\ record' # None => /\ record' \in Keyed /\ status'[record'] \notin {"none", "purged"}
                                    /\ P(record') \/ status'[record'] \in Ended
               /\ \A c \in Keyed : c # record' /\ P(c) => status'[c] \in Ended
               /\ \A c, d \in Keyed : answer'[c] = d => P(d) \/ status'[d] \in Ended
  <2>1. Passed(record)' <=> P(record')
    BY DEF Passed
  <2>2. \A c : Passed(c)' <=> P(c)
    BY DEF Passed
  <2>3. KeyHolds' <=> /\ record' # None => /\ record' \in Keyed' /\ status'[record'] \notin {"none", "purged"}
                                           /\ Passed(record)' \/ status'[record'] \in Ended
                      /\ \A c \in Keyed' : c # record' /\ Passed(c)' => status'[c] \in Ended
                      /\ \A c, d \in Keyed' : answer'[c] = d => Passed(d)' \/ status'[d] \in Ended
    BY DEF KeyHolds, Passed, Found, Scheduled, HandlerAt, Ended, Terminal, TerminalStatuses
  <2> QED BY <1>0, <2>1, <2>2, <2>3
<1> DEFINE Goal == /\ record' # None => /\ record' \in Keyed /\ status'[record'] \notin {"none", "purged"}
                                        /\ P(record') \/ status'[record'] \in Ended
                   /\ \A c \in Keyed : c # record' /\ P(c) => status'[c] \in Ended
                   /\ \A c, d \in Keyed : answer'[c] = d => P(d) \/ status'[d] \in Ended
<1>5. ASSUME record' = record, answer' = answer, record # None => status'[record] # "purged",
             \A u \in Keyed : handler'[u] = handler[u] \/ (handler[u] # "schedule" /\ handler'[u] # "schedule")
      PROVE  Goal
  <2>1. \A u \in Keyed : P(u) <=> Passed(u)
    BY <1>5 DEF Passed
  <2> QED BY <1>0, <1>1, <1>3, <1>5, <2>1
<1>6. ASSUME UNCHANGED <<record, answer, handler, status>> PROVE Goal
  BY <1>3, <1>5, <1>6
<1>7. ASSUME NEW c \in Clients, Post(c) PROVE Goal
  BY <1>0, <1>3, <1>5, <1>7 DEF Post, HandlerTo, Creates, taskVars
<1>8. ASSUME NEW c \in Clients, CheckKey(c) PROVE Goal
  <2>1. UNCHANGED <<record, status>> /\ handler[c] = "check" /\ answer[c] = None /\ status[c] = "none"
    BY <1>8 DEF CheckKey, HandlerAt, taskVars, Creates
  <2>2. CASE UNCHANGED answer /\ handler' = [handler EXCEPT ![c] = "create"]
    BY <1>0, <1>3, <1>5, <2>1, <2>2
  <2>3. CASE Found(record) /\ answer' = [answer EXCEPT ![c] = record] /\ handler' = [handler EXCEPT ![c] = "done"]
    <3>1. record # None /\ record \in Keyed
      BY <1>3, <2>3 DEF Found
    <3>2. \A u \in Keyed : Passed(u) => P(u)
      BY <1>0, <2>1, <2>3 DEF Passed
    <3>3. \A u \in Keyed : u # record /\ P(u) => Passed(u)
      BY <1>0, <2>1, <2>3 DEF Passed
    <3> QED BY <1>0, <1>1, <1>3, <2>1, <2>3, <3>1, <3>2, <3>3
  <2> QED BY <1>8, <2>2, <2>3 DEF CheckKey, HandlerTo
<1>9. ASSUME NEW c \in Clients, CreateTask(c) PROVE Goal
  <2>1. /\ UNCHANGED <<record, answer>> /\ status' = [status EXCEPT ![c] = "queued"]
        /\ handler' = [handler EXCEPT ![c] = IF c \in Keyed THEN "record" ELSE "schedule"] /\ handler[c] = "create"
    BY <1>9 DEF CreateTask, HandlerTo, HandlerAt
  <2> QED BY <1>0, <1>3, <1>5, <2>1
<1>10. ASSUME NEW c \in Clients, RecordOrGet(c) PROVE Goal
  <2>1. handler[c] = "record" /\ status[c] = "queued" /\ answer[c] = None
    BY <1>10 DEF RecordOrGet, HandlerAt, Creates
  <2>2. c \in Keyed
    BY <2>1 DEF Creates, Keyed
  <2>3. CASE record = None /\ record' = c /\ handler' = [handler EXCEPT ![c] = "schedule"] /\ UNCHANGED <<answer, status>>
    BY <1>0, <1>3, <2>1, <2>2, <2>3 DEF Passed
  <2>4. ~(record # None /\ ~Found(record))
    BY <1>3 DEF Found
  <2>5. CASE Found(record) /\ Emit(c, "canceled") /\ answer' = [answer EXCEPT ![c] = record]
             /\ handler' = [handler EXCEPT ![c] = "done"] /\ UNCHANGED record
    <3>1. record # None /\ record \in Keyed
      BY <1>3, <2>5 DEF Found
    <3>2. status' = [status EXCEPT ![c] = "canceled"]
      BY <2>5 DEF Emit
    <3>3. \A u \in Keyed : Passed(u) => P(u)
      BY <1>0, <2>1, <2>5 DEF Passed
    <3>4. \A u \in Keyed : u # record /\ P(u) => Passed(u)
      BY <1>0, <2>1, <2>5 DEF Passed
    <3>5. status'[record] \notin {"none", "purged"}
      BY <1>0, <1>3, <3>1, <3>2
    <3> QED BY <1>0, <1>1, <1>3, <2>1, <2>5, <3>1, <3>3, <3>4, <3>5
  <2> QED BY <1>10, <2>3, <2>4, <2>5 DEF RecordOrGet, HandlerTo, taskVars
<1>11. ASSUME NEW c \in Clients, Schedule(c) PROVE Goal
  <2>1. /\ UNCHANGED <<record, status>> /\ handler[c] = "schedule" /\ status[c] = "queued"
        /\ answer' = [answer EXCEPT ![c] = c] /\ handler' = [handler EXCEPT ![c] = "done"] /\ answer[c] = None
    BY <1>11 DEF Schedule, HandlerAt, HandlerTo, taskVars, Creates
  <2>2. \A u \in Keyed : Passed(u) <=> P(u)
    BY <1>0, <2>1 DEF Passed
  <2>3. \A u, d \in Keyed : answer'[u] = d => answer[u] = d \/ d = c
    BY <1>0, <2>1
  <2>4. c \in Keyed => P(c)
    BY <1>0, <2>1
  <2> QED BY <1>0, <1>3, <2>1, <2>2, <2>3, <2>4
<1>12. ASSUME NEW c \in Clients, ScheduleRefused(c) PROVE Goal
  <2>1. /\ UNCHANGED <<record, answer>> /\ handler[c] = "schedule" /\ status' = [status EXCEPT ![c] = "canceled"]
        /\ handler' = [handler EXCEPT ![c] = "done"] /\ answer[c] = None
    BY <1>12 DEF ScheduleRefused, HandlerAt, HandlerTo, Emit, Creates
  <2>2. \A u \in Keyed : P(u) => Passed(u)
    BY <1>0, <2>1 DEF Passed
  <2>3. \A u \in Keyed : Passed(u) => P(u) \/ status'[u] \in Ended
    BY <1>0, <2>1 DEF Passed, Ended, TerminalStatuses
  <2>4. record # None => status'[record] \notin {"none", "purged"}
    BY <1>0, <1>3, <2>1
  <2> QED BY <1>0, <1>1, <1>3, <2>1, <2>2, <2>3, <2>4
<1>13. ASSUME NEW c \in Clients, TaskStep(c) PROVE Goal
  <2>1. UNCHANGED <<record, answer, handler>> /\ \E new \in After : status' = [status EXCEPT ![c] = new]
    <3>1. CASE TaskEmits(c)
      BY <3>1 DEF TaskEmits, Emit, createVars, After
    <3>2. CASE Finish(c)
      BY <3>2 DEF Finish, Emit, createVars, After, TerminalStatuses
    <3> QED BY <1>13, <3>1, <3>2 DEF TaskStep
  <2> QED BY <1>0, <1>3, <1>5, <2>1 DEF After, TerminalStatuses
<1>14. ASSUME NEW c \in Clients, CleanupExpired(c) PROVE Goal
  <2>1. UNCHANGED <<record, answer, handler>> /\ status' = [status EXCEPT ![c] = "purged"] /\ record # c
    BY <1>14 DEF CleanupExpired
  <2> QED BY <1>0, <1>3, <1>5, <2>1
<1>15. ASSUME NEW c \in Clients, StreamStep(c) \/ Abort(c) PROVE UNCHANGED <<record, answer, handler, status>>
  <2>1. CASE Abort(c)
    BY <2>1 DEF Abort, createVars, taskVars
  <2>2. CASE StreamStep(c)
    BY <2>2 DEF StreamStep, ReadAnswer, Subscribe, SubscribeNotFound, Deliver, StreamEnd, ClientGone, Unsubscribe, CloseChannel, createVars, taskVars
  <2> QED BY <1>15, <2>1, <2>2
<1>16. CASE Restart
  <2>1. /\ record' = None /\ UNCHANGED answer /\ \A u \in Clients : handler'[u] # "schedule"
        /\ \A u \in Clients : status[u] \in Live => status'[u] = "failed"
    BY <1>16 DEF Restart, Live
  <2>2. \A u \in Clients : answer[u] # None => status[answer[u]] # "none"
    BY DEF Creates
  <2>3. \A u \in Clients : status[u] # "none" => status'[u] \in Ended
    BY <1>0, <1>1, <2>1 DEF Statuses, Live, Ended, TerminalStatuses
  <2>4. \A u, d \in Clients : answer[u] = d => status'[d] \in Ended
    BY <1>0, <2>2, <2>3
  <2> QED BY <1>0, <2>1, <2>4
<1>17. ~KeyExpires
  BY DEF KeyExpires
<1>18. CASE UNCHANGED vars
  BY <1>6, <1>18 DEF vars, createVars, taskVars
<1> QED BY <1>6, <1>7, <1>8, <1>9, <1>10, <1>11, <1>12, <1>13, <1>14, <1>15, <1>16, <1>17, <1>18 DEF Next, CreateStep

-----------------------------------------------------------------------------
(* Sequences of ids.                                                       *)

LEMMA AppendId ==
    ASSUME NEW s \in Seq(Nat), NEW x \in Nat, Increasing(s), Last0(s) < x
    PROVE  Append(s, x) \in Seq(Nat) /\ Append(s, x) # <<>> /\ Increasing(Append(s, x)) /\ Last0(Append(s, x)) = x
<1>1. /\ Append(s, x) \in Seq(Nat) /\ Len(Append(s, x)) = Len(s) + 1 /\ Len(s) \in Nat
      /\ Append(s, x)[Len(s) + 1] = x /\ \A i \in 1 .. Len(s) : Append(s, x)[i] = s[i]
  OBVIOUS
<1>2. ASSUME NEW i \in 1 .. Len(s) PROVE Append(s, x)[i] < Append(s, x)[i + 1]
  <2>1. CASE i = Len(s)
    <3>1. s # <<>> /\ Last0(s) = s[i]
      BY <2>1 DEF Last0
    <3> QED BY <1>1, <2>1, <3>1
  <2>2. CASE i # Len(s)
    <3>1. i \in 1 .. Len(s) - 1 /\ i + 1 \in 1 .. Len(s)
      BY <1>1, <2>2
    <3>2. s[i] < s[i + 1]
      BY <3>1 DEF Increasing
    <3> QED BY <1>1, <3>1, <3>2
  <2> QED BY <2>1, <2>2
<1>3. Increasing(Append(s, x))
  BY <1>1, <1>2 DEF Increasing
<1>4. Append(s, x) # <<>>
  BY <1>1
<1> QED BY <1>1, <1>3, <1>4 DEF Last0

LEMMA TailIds ==
    ASSUME NEW s \in Seq(Nat), s # <<>>, Increasing(s)
    PROVE  /\ Head(s) = s[1] /\ Head(s) \in Nat /\ Tail(s) \in Seq(Nat) /\ Increasing(Tail(s))
           /\ Len(s) \in Nat \ {0} /\ Len(Tail(s)) = Len(s) - 1
           /\ \A i \in 1 .. Len(Tail(s)) : Tail(s)[i] = s[i + 1] /\ i + 1 \in 1 .. Len(s)
           /\ Tail(s) # <<>> => Head(s) < Tail(s)[1]
<1>1. /\ Head(s) = s[1] /\ Head(s) \in Nat /\ Tail(s) \in Seq(Nat) /\ Len(s) \in Nat \ {0} /\ Len(Tail(s)) = Len(s) - 1
      /\ \A i \in 1 .. Len(Tail(s)) : Tail(s)[i] = s[i + 1]
  OBVIOUS
<1>2. \A i \in 1 .. Len(s) - 1 : i + 1 \in 1 .. Len(s)
  BY <1>1
<1>3. ASSUME NEW i \in 1 .. Len(Tail(s)) - 1 PROVE Tail(s)[i] < Tail(s)[i + 1]
  <2>1. i \in 1 .. Len(Tail(s)) /\ i + 1 \in 1 .. Len(Tail(s)) /\ i + 1 \in 1 .. Len(s) - 1
    BY <1>1
  <2> QED BY <1>1, <2>1 DEF Increasing
<1>4. Increasing(Tail(s))
  BY <1>3 DEF Increasing
<1>5. ASSUME Tail(s) # <<>> PROVE Head(s) < Tail(s)[1]
  <2>1. Len(Tail(s)) # 0 /\ Len(Tail(s)) \in Nat
    BY <1>1, <1>5
  <2>2. 1 \in 1 .. Len(Tail(s)) /\ 1 \in 1 .. Len(s) - 1
    BY <1>1, <2>1
  <2> QED BY <1>1, <2>2 DEF Increasing
<1> QED BY <1>1, <1>2, <1>4, <1>5

LEMMA LastWithin ==
    ASSUME NEW s \in Seq(Nat), NEW n \in Nat, Within(s, n)
    PROVE  Last0(s) \in 0 .. n
<1>1. CASE s # <<>>
  <2>1. Len(s) \in 1 .. Len(s)
    BY <1>1
  <2> QED BY <1>1, <2>1 DEF Last0, Within
<1>2. CASE s = <<>>
  BY <1>2 DEF Last0
<1> QED BY <1>1, <1>2

\* The ids after k.
LEMMA IdsAfter ==
    ASSUME NEW n \in Nat, NEW k \in 0 .. n, NEW s, s = [i \in 1 .. n - k |-> k + i]
    PROVE  /\ s \in Seq(Nat) /\ Len(s) = n - k /\ \A i \in 1 .. n - k : s[i] = k + i
           /\ Increasing(s) /\ Within(s, n) /\ (s # <<>> => k < s[1])
<1>1. n - k \in Nat /\ \A i \in 1 .. n - k : k + i \in Nat /\ k + i \in 1 .. n
  OBVIOUS
<1>2. s \in Seq(Nat) /\ Len(s) = n - k /\ \A i \in 1 .. n - k : s[i] = k + i
  <2>1. s \in [1 .. n - k -> Nat] /\ \A i \in 1 .. n - k : s[i] = k + i
    BY <1>1
  <2> QED BY <1>1, <2>1
<1>3. Increasing(s)
  <2>1. ASSUME NEW i \in 1 .. n - k - 1 PROVE s[i] < s[i + 1]
    <3>1. i \in 1 .. n - k /\ i + 1 \in 1 .. n - k
      BY <1>1
    <3>2. s[i] = k + i /\ s[i + 1] = k + (i + 1)
      BY <1>2, <3>1
    <3> QED BY <1>1, <3>1, <3>2
  <2> QED BY <1>2, <2>1 DEF Increasing
<1>4. Within(s, n)
  BY <1>1, <1>2 DEF Within
<1>5. ASSUME s # <<>> PROVE k < s[1]
  <2>1. 1 \in 1 .. n - k
    BY <1>1, <1>2, <1>5
  <2>2. s[1] = k + 1
    BY <1>2, <2>1
  <2> QED BY <2>2
<1> QED BY <1>2, <1>3, <1>4, <1>5

-----------------------------------------------------------------------------
(* The stream of a client.                                                 *)

\* What Subscribe hands over: all ids after the last one that the client has.
LEMMA HistoryIs ==
    ASSUME TypeOK, NEW u \in Clients, Reads(u), Subscribe(u)
    PROVE  LET n == events[answer[u]]
           IN  /\ answer[u] \in Clients /\ n \in Nat /\ Last0(got'[u]) \in 0 .. n
               /\ got'[u] \in Seq(Nat) /\ (got'[u] = got[u] \/ got'[u] = <<>>)
               /\ chan'[u] = [i \in 1 .. n - Last0(got'[u]) |-> Last0(got'[u]) + i]
               /\ chan' = [chan EXCEPT ![u] = chan'[u]] /\ got' = [got EXCEPT ![u] = got'[u]]
               /\ cap' = [cap EXCEPT ![u] = cap'[u]] /\ cap'[u] \in Nat /\ Len(chan'[u]) <= cap'[u]
               /\ chan'[u] \in Seq(Nat)
<1> DEFINE n == events[answer[u]]
           k == Since(u)
<1>0. /\ got[u] \in Seq(Nat) /\ answer[u] \in Clients /\ n \in Nat /\ BaseCap \in Nat /\ LiveRoom \in Nat
      /\ got \in [Clients -> Seq(Nat)] /\ chan \in [Clients -> Seq(Nat)] /\ cap \in [Clients -> Nat]
  BY StreamAssumption DEF TypeOK, Subscribe, Found
<1>1. /\ chan' = [chan EXCEPT ![u] = History(u)] /\ got' = [got EXCEPT ![u] = IF Resumes(u) THEN got[u] ELSE <<>>]
      /\ cap' = [cap EXCEPT ![u] = LET room == Len(History(u)) + LiveRoom
                                  IN  IF room > BaseCap THEN room ELSE BaseCap]
  BY DEF Subscribe
<1>2. got'[u] = (IF Resumes(u) THEN got[u] ELSE <<>>) /\ got'[u] \in Seq(Nat)
  BY <1>0, <1>1
<1>3. Last0(got'[u]) = k
  <2>1. CASE Resumes(u) /\ got[u] # <<>>
    BY <1>0, <1>2, <2>1 DEF Last0, Since, Last
  <2>2. CASE ~(Resumes(u) /\ got[u] # <<>>)
    BY <1>0, <1>2, <2>2 DEF Last0, Since
  <2> QED BY <2>1, <2>2
<1>4. k \in 0 .. n
  <2>1. CASE got[u] = <<>>
    BY <1>0, <2>1 DEF Since
  <2>2. CASE got[u] # <<>>
    <3>1. Last0(got[u]) \in 0 .. n
      BY <1>0, <2>2, LastWithin DEF Reads
    <3>2. k = Last0(got[u]) \/ k = 0
      BY <1>2, <1>3, <2>2 DEF Last0
    <3> QED BY <1>0, <3>1, <3>2
  <2> QED BY <2>1, <2>2
<1>5. chan'[u] = [i \in 1 .. n - k |-> k + i]
  BY <1>0, <1>1 DEF History
<1>6. chan'[u] \in Seq(Nat) /\ Len(chan'[u]) \in Nat /\ chan'[u] = History(u)
  <2>1. chan'[u] \in Seq(Nat)
    BY <1>0, <1>4, <1>5, IdsAfter
  <2> QED BY <1>0, <1>1, <2>1
<1>7. cap'[u] \in Nat /\ Len(chan'[u]) <= cap'[u] /\ cap' = [cap EXCEPT ![u] = cap'[u]]
  <2>1. PICK m \in Nat : m = Len(History(u))
    BY <1>6
  <2>2. cap'[u] = IF m + LiveRoom > BaseCap THEN m + LiveRoom ELSE BaseCap
    BY <1>0, <1>1, <2>1
  <2>3. cap'[u] \in Nat /\ m <= cap'[u]
    BY <1>0, <2>2
  <2>4. cap' = [cap EXCEPT ![u] = cap'[u]]
    BY <1>0, <1>1
  <2> QED BY <1>6, <2>1, <2>3, <2>4
<1>8. chan' = [chan EXCEPT ![u] = chan'[u]] /\ got' = [got EXCEPT ![u] = got'[u]]
  BY <1>0, <1>1
<1> QED BY <1>0, <1>2, <1>3, <1>4, <1>5, <1>6, <1>7, <1>8

Places == {"off", "serving", "leaving", "draining"}
ClientPlaces == {"idle", "posting", "subscribing", "streaming"} \cup Over

LEMMA StreamTypes ==
    ASSUME TypeOK, \A c \in Clients : Creates(c) /\ Reads(c), [Next]_vars
    PROVE  /\ subs' \subseteq Clients /\ chan' \in [Clients -> Seq(Nat)] /\ cap' \in [Clients -> Nat]
           /\ shut' \in [Clients -> BOOLEAN] /\ sse' \in [Clients -> Places] /\ client' \in [Clients -> ClientPlaces]
           /\ got' \in [Clients -> Seq(Nat)] /\ lost' \in [Clients -> BOOLEAN]
           /\ \A c \in Clients : Len(chan'[c]) <= cap'[c]
<1> DEFINE T == /\ subs' \subseteq Clients /\ chan' \in [Clients -> Seq(Nat)] /\ cap' \in [Clients -> Nat]
                /\ shut' \in [Clients -> BOOLEAN] /\ sse' \in [Clients -> Places] /\ client' \in [Clients -> ClientPlaces]
                /\ got' \in [Clients -> Seq(Nat)] /\ lost' \in [Clients -> BOOLEAN]
                /\ \A c \in Clients : Len(chan'[c]) <= cap'[c]
<1> SUFFICES T
  OBVIOUS
<1>0. /\ subs \subseteq Clients /\ chan \in [Clients -> Seq(Nat)] /\ cap \in [Clients -> Nat]
      /\ shut \in [Clients -> BOOLEAN] /\ sse \in [Clients -> Places] /\ client \in [Clients -> ClientPlaces]
      /\ got \in [Clients -> Seq(Nat)] /\ lost \in [Clients -> BOOLEAN]
      /\ \A c \in Clients : Len(chan[c]) <= cap[c]
  BY DEF TypeOK, Places, ClientPlaces
<1>1. /\ {"idle", "posting", "subscribing", "streaming", "complete", "aborted", "refused"} \subseteq ClientPlaces
      /\ {"off", "serving", "leaving", "draining"} \subseteq Places
  BY DEF ClientPlaces, Places, Over
<1>2. ASSUME UNCHANGED <<streamVars, clientVars, lost>> PROVE T
  BY <1>0, <1>2 DEF streamVars, clientVars
<1>3. ASSUME NEW c \in Clients, Emits(c) PROVE T
  <2>1. PICK new \in After : Emit(c, new)
    BY <1>3 DEF Emits
  <2>2. client' = client /\ got' = got
    BY <1>3 DEF Emits
  <2> QED BY <1>0, <2>1, <2>2, EmitIs
<1>4. ASSUME UNCHANGED <<chan, cap>> PROVE \A c \in Clients : Len(chan'[c]) <= cap'[c]
  BY <1>0, <1>4
<1>5. ASSUME NEW c \in Clients, Post(c) \/ ReadAnswer(c) \/ SubscribeNotFound(c) \/ Abort(c) PROVE T
  <2>1. UNCHANGED <<subs, chan, cap, shut, sse, got, lost>>
    BY <1>5 DEF Post, ReadAnswer, SubscribeNotFound, Abort, streamVars
  <2>2. \E p \in ClientPlaces : client' = [client EXCEPT ![c] = p]
    BY <1>1, <1>5 DEF Post, ReadAnswer, SubscribeNotFound, Abort, ClientTo, Leaves
  <2> QED BY <1>0, <1>4, <2>1, <2>2
<1>6. ASSUME NEW c \in Clients, Subscribe(c) PROVE T
  <2>1. /\ sse' = [sse EXCEPT ![c] = "serving"] /\ client' = [client EXCEPT ![c] = "streaming"] /\ lost' = lost
        /\ shut' = [shut EXCEPT ![c] = Terminal(answer[c])] /\ (subs' = subs \/ subs' = subs \cup {c})
    BY <1>6 DEF Subscribe, ClientTo
  <2>2. Terminal(answer[c]) \in BOOLEAN
    BY DEF Terminal
  <2>3. /\ chan' = [chan EXCEPT ![c] = chan'[c]] /\ got' = [got EXCEPT ![c] = got'[c]] /\ cap' = [cap EXCEPT ![c] = cap'[c]]
        /\ chan'[c] \in Seq(Nat) /\ got'[c] \in Seq(Nat) /\ cap'[c] \in Nat /\ Len(chan'[c]) <= cap'[c]
    BY <1>6, HistoryIs
  <2>4. chan' \in [Clients -> Seq(Nat)] /\ got' \in [Clients -> Seq(Nat)] /\ cap' \in [Clients -> Nat]
    BY <1>0, <2>3
  <2>5. \A d \in Clients \ {c} : chan'[d] = chan[d] /\ cap'[d] = cap[d]
    BY <1>0, <2>3
  <2> QED BY <1>0, <1>1, <2>1, <2>2, <2>3, <2>4, <2>5
<1>7. ASSUME NEW c \in Clients, Deliver(c) PROVE T
  <2>1. /\ chan[c] # <<>> /\ chan' = [chan EXCEPT ![c] = Tail(chan[c])] /\ got' = [got EXCEPT ![c] = Append(got[c], Head(chan[c]))]
        /\ UNCHANGED <<subs, cap, shut, sse, lost>>
    BY <1>7 DEF Deliver
  <2>2. \E p \in ClientPlaces : client' = [client EXCEPT ![c] = p]
    BY <1>1, <1>7 DEF Deliver, ClientTo
  <2>3. /\ Tail(chan[c]) \in Seq(Nat) /\ Append(got[c], Head(chan[c])) \in Seq(Nat) /\ Len(Tail(chan[c])) <= cap[c]
    BY <1>0, <2>1
  <2> QED BY <1>0, <2>1, <2>2, <2>3
<1>8. ASSUME NEW c \in Clients, StreamEnd(c) \/ ClientGone(c) \/ Unsubscribe(c) PROVE T
  <2>1. UNCHANGED <<chan, cap, shut, got, lost>> /\ subs' \subseteq subs
    BY <1>8 DEF StreamEnd, ClientGone, Unsubscribe, clientVars
  <2>2. \E p \in Places : sse' = [sse EXCEPT ![c] = p]
    BY <1>1, <1>8 DEF StreamEnd, ClientGone, Unsubscribe
  <2>3. client' = client \/ \E p \in ClientPlaces : client' = [client EXCEPT ![c] = p]
    BY <1>1, <1>8 DEF StreamEnd, ClientGone, Unsubscribe, ClientTo, clientVars
  <2> QED BY <1>0, <1>4, <2>1, <2>2, <2>3
<1>9. ASSUME NEW c \in Clients, CloseChannel(c) PROVE T
  <2>1. /\ chan' = [chan EXCEPT ![c] = <<>>] /\ shut' = [shut EXCEPT ![c] = TRUE] /\ sse' = [sse EXCEPT ![c] = "off"]
        /\ UNCHANGED <<subs, cap, client, got, lost>>
    BY <1>9 DEF CloseChannel, clientVars
  <2>2. <<>> \in Seq(Nat) /\ Len(<<>>) <= cap[c]
    BY <1>0
  <2> QED BY <1>0, <1>1, <2>1, <2>2
<1>10. CASE Restart
  <2>1. /\ subs' = {} /\ cap' = cap /\ shut' = [c \in Clients |-> TRUE] /\ chan' = [c \in Clients |-> <<>>]
        /\ sse' = [c \in Clients |-> "off"] /\ UNCHANGED <<got, lost>>
    BY <1>10 DEF Restart
  <2>2. client' = [c \in Clients |-> client'[c]] /\ \A c \in Clients : client'[c] \in ClientPlaces
    BY <1>0, <1>1, <1>10 DEF Restart, Leaves
  <2>3. client' \in [Clients -> ClientPlaces]
    BY <2>2
  <2>4. <<>> \in Seq(Nat) /\ \A c \in Clients : Len(<<>>) <= cap[c]
    BY <1>0
  <2> QED BY <1>0, <1>1, <2>1, <2>3, <2>4
<1>11. ASSUME NEW c \in Clients, CheckKey(c) \/ CreateTask(c) \/ Schedule(c) \/ CleanupExpired(c)
              \/ (RecordOrGet(c) /\ UNCHANGED status)
       PROVE  T
  <2>1. CASE CheckKey(c) \/ CreateTask(c) \/ Schedule(c) \/ CleanupExpired(c)
    BY <1>2, <2>1 DEF CheckKey, CreateTask, Schedule, CleanupExpired
  <2>2. CASE RecordOrGet(c) /\ UNCHANGED status
    <3>1. ASSUME Emit(c, "canceled") PROVE FALSE
      <4>1. status'[c] = "canceled"
        BY <3>1 DEF Emit, TypeOK
      <4> QED BY <2>2, <4>1 DEF Creates, RecordOrGet, HandlerAt
    <3> QED BY <1>2, <2>2, <3>1 DEF RecordOrGet
  <2> QED BY <1>11, <2>1, <2>2
<1>12. CASE KeyExpires \/ UNCHANGED vars
  BY <1>2, <1>12 DEF KeyExpires, vars
<1> QED BY <1>3, <1>5, <1>6, <1>7, <1>8, <1>9, <1>10, <1>11, <1>12, EmitSteps DEF Next, CreateStep, StreamStep, TaskStep

-----------------------------------------------------------------------------
(* What a step does to the stream of a client.                             *)

KeptClient(u) == client'[u] = client[u] /\ got'[u] = got[u] /\ sse'[u] = sse[u]
KeptChan(u) == chan'[u] = chan[u] /\ shut'[u] = shut[u] /\ lost'[u] = lost[u] /\ (u \in subs' <=> u \in subs)

\* Nothing, and a registered channel also has no event to miss.
Untouched(u) ==
    /\ KeptClient(u) /\ KeptChan(u) /\ (handler[u] = "done" => answer'[u] = answer[u])
    /\ u \in subs => status'[answer[u]] = status[answer[u]] /\ events'[answer[u]] = events[answer[u]]

\* An event of its task.
Served(u) ==
    /\ KeptClient(u) /\ answer'[u] = answer[u] /\ u \in subs
    /\ \E new \in After : Offered(u, answer[u], new) /\ status'[answer[u]] = new
    /\ events'[answer[u]] = events[answer[u]] + 1

Own(u) == Post(u) \/ StreamStep(u) \/ Abort(u)

LEMMA StreamMoves ==
    ASSUME TypeOK, \A c \in Clients : Creates(c) /\ Registered(c), [Next]_vars, ~Restart, NEW u \in Clients
    PROVE  Untouched(u) \/ Served(u) \/ Own(u)
<1>0. /\ subs \subseteq Clients /\ answer[u] \in Clients \cup {None} /\ Creates(u)
      /\ u \in subs => answer[u] \in Clients /\ status[answer[u]] \in Live /\ handler[u] = "done"
      /\ status \in [Clients -> Statuses] /\ events \in [Clients -> Nat]
  BY DEF TypeOK, Registered, Creates, Statuses
<1>1. ASSUME NEW c \in Clients, Emits(c), handler[u] = "done" => answer'[u] = answer[u]
      PROVE  Untouched(u) \/ Served(u)
  <2>1. PICK new \in After : Emit(c, new)
    BY <1>1 DEF Emits
  <2>2. /\ status' = [status EXCEPT ![c] = new] /\ events' = [events EXCEPT ![c] = events[c] + 1] /\ sse' = sse
        /\ (u \notin Subscribers(c) /\ Missed(u)) \/ (u \in Subscribers(c) /\ Offered(u, c, new))
    BY <2>1, EmitIs
  <2>3. KeptClient(u)
    BY <1>1, <2>2 DEF Emits, KeptClient
  <2>4. CASE u \notin Subscribers(c) /\ Missed(u)
    <3>1. u \in subs => answer[u] # c
      BY <2>4 DEF Subscribers
    <3>2. u \in subs => status'[answer[u]] = status[answer[u]] /\ events'[answer[u]] = events[answer[u]]
      BY <1>0, <2>2, <3>1
    <3> QED BY <1>1, <2>3, <2>4, <3>2 DEF Untouched, KeptChan, Missed
  <2>5. CASE u \in Subscribers(c) /\ Offered(u, c, new)
    <3>1. u \in subs /\ answer[u] = c
      BY <2>5 DEF Subscribers
    <3> QED BY <1>0, <1>1, <2>2, <2>3, <2>5, <3>1 DEF Served
  <2> QED BY <2>2, <2>4, <2>5
<1>2. ASSUME UNCHANGED <<streamVars, clientVars, lost>>, handler[u] = "done" => answer'[u] = answer[u],
             u \in subs => status'[answer[u]] = status[answer[u]] /\ events'[answer[u]] = events[answer[u]]
      PROVE  Untouched(u)
  BY <1>2 DEF Untouched, KeptClient, KeptChan, streamVars, clientVars
<1>3. ASSUME NEW c \in Clients, CheckKey(c) \/ CreateTask(c) \/ RecordOrGet(c) \/ Schedule(c) \/ ScheduleRefused(c)
      PROVE  handler[u] = "done" => answer'[u] = answer[u]
  BY <1>3 DEF CheckKey, CreateTask, RecordOrGet, Schedule, ScheduleRefused, HandlerAt, TypeOK
<1>4. ASSUME NEW c \in Clients, CheckKey(c) \/ Schedule(c) PROVE Untouched(u)
  BY <1>2, <1>3, <1>4 DEF CheckKey, Schedule, taskVars
<1>5. ASSUME NEW c \in Clients, CreateTask(c) PROVE Untouched(u)
  <2>1. u \in subs => answer[u] # c
    BY <1>0, <1>5 DEF CreateTask, HandlerAt, Creates, Live
  <2> QED BY <1>0, <1>2, <1>3, <1>5, <2>1 DEF CreateTask
<1>6. ASSUME NEW c \in Clients, CleanupExpired(c) PROVE Untouched(u)
  <2>1. u \in subs => answer[u] # c
    BY <1>0, <1>6 DEF CleanupExpired, Terminal, TerminalStatuses, Live
  <2> QED BY <1>0, <1>2, <1>6, <2>1 DEF CleanupExpired
<1>7. ASSUME NEW c \in Clients, RecordOrGet(c), UNCHANGED status PROVE Untouched(u)
  <2>1. ASSUME Emit(c, "canceled") PROVE FALSE
    <3>1. status'[c] = "canceled"
      BY <2>1 DEF Emit, TypeOK
    <3> QED BY <1>7, <3>1 DEF Creates, RecordOrGet, HandlerAt
  <2> QED BY <1>2, <1>3, <1>7, <2>1 DEF RecordOrGet, taskVars
<1>8. ASSUME NEW c \in Clients, TaskStep(c) PROVE Emits(c) /\ answer' = answer
  BY <1>8, EmitSteps DEF TaskStep, TaskEmits, Finish, createVars
<1>9. ASSUME NEW c \in Clients, ScheduleRefused(c) \/ (RecordOrGet(c) /\ ~UNCHANGED status) PROVE Emits(c)
  BY <1>9, EmitSteps
<1>10. ASSUME KeyExpires \/ UNCHANGED vars PROVE Untouched(u)
  BY <1>2, <1>10 DEF KeyExpires, vars, createVars, taskVars
<1>11. ASSUME NEW c \in Clients, u # c, Own(c) PROVE Untouched(u)
  <2>1. UNCHANGED <<answer, status, events, lost>>
    <3>1. CASE Post(c) \/ Abort(c)
      BY <3>1 DEF Post, Abort, createVars, taskVars
    <3>2. CASE StreamStep(c)
      BY <3>2 DEF StreamStep, ReadAnswer, Subscribe, SubscribeNotFound, Deliver, StreamEnd, ClientGone, Unsubscribe, CloseChannel, createVars, taskVars
    <3> QED BY <1>11, <3>1, <3>2 DEF Own
  <2>2. KeptClient(u)
    BY <1>11, OtherHandlers DEF Own, KeptClient
  <2>3. chan'[u] = chan[u] /\ shut'[u] = shut[u] /\ (u \in subs' <=> u \in subs)
    <3>1. CASE Post(c) \/ Abort(c) \/ ReadAnswer(c) \/ SubscribeNotFound(c)
      BY <3>1 DEF Post, Abort, ReadAnswer, SubscribeNotFound, streamVars
    <3>2. CASE Subscribe(c) \/ Deliver(c)
      BY <1>11, <3>2 DEF Subscribe, Deliver, TypeOK
    <3>3. CASE StreamEnd(c) \/ ClientGone(c) \/ Unsubscribe(c) \/ CloseChannel(c)
      BY <1>11, <3>3 DEF StreamEnd, ClientGone, Unsubscribe, CloseChannel, TypeOK
    <3> QED BY <1>11, <3>1, <3>2, <3>3 DEF Own, StreamStep
  <2> QED BY <2>1, <2>2, <2>3 DEF Untouched, KeptChan
<1> QED BY <1>1, <1>3, <1>4, <1>5, <1>6, <1>7, <1>8, <1>9, <1>10, <1>11 DEF Next, CreateStep, Own

LEMMA OwnKeepsTasks ==
    ASSUME NEW u \in Clients, Own(u)
    PROVE  UNCHANGED <<answer, status, events, lost>>
<1>1. CASE Post(u) \/ Abort(u)
  BY <1>1 DEF Post, Abort, createVars, taskVars
<1>2. CASE StreamStep(u)
  BY <1>2 DEF StreamStep, ReadAnswer, Subscribe, SubscribeNotFound, Deliver, StreamEnd, ClientGone, Unsubscribe, CloseChannel, createVars, taskVars
<1> QED BY <1>1, <1>2 DEF Own

Open(c) == c \in subs \/ sse[c] = "draining" => ~shut[c]

LEMMA RegisteredStep ==
    ASSUME TypeOK, \A c \in Clients : Creates(c) /\ Registered(c), [Next]_vars, NEW u \in Clients
    PROVE  Registered(u)' /\ Open(u)'
<1>0. /\ Creates(u) /\ Registered(u) /\ Open(u) /\ answer[u] \in Clients \cup {None} /\ None \notin Clients
      /\ shut[u] \in BOOLEAN /\ lost[u] \in BOOLEAN
      /\ answer[u] # None => status[answer[u]] \in Statuses
      /\ answer[u] # None /\ status[answer[u]] \in Ended => status'[answer[u]] \in Ended
  BY TasksAge, StreamAssumption DEF TypeOK, Statuses, Open
<1>1. CASE Restart
  <2>1. subs' = {} /\ sse'[u] = "off" /\ client'[u] # "streaming"
    BY <1>1 DEF Restart, Leaves
  <2> QED BY <2>1 DEF Registered, Open
<1>2. CASE Untouched(u) /\ handler[u] = "done"
  BY <1>0, <1>2 DEF Untouched, KeptClient, KeptChan, Registered, Open, Creates
<1>3. CASE Untouched(u) /\ handler[u] # "done"
  BY <1>0, <1>3 DEF Untouched, KeptClient, KeptChan, Registered, Open, Creates
<1>4. CASE Served(u)
  <2>1. PICK new \in After : Offered(u, answer[u], new) /\ status'[answer[u]] = new
    BY <1>4 DEF Served
  <2>2. KeptClient(u) /\ answer'[u] = answer[u] /\ u \in subs /\ sse[u] \in {"serving", "leaving"} /\ answer[u] # None
        /\ ~shut[u]
    BY <1>0, <1>4 DEF Served, Registered, Open
  <2>3. CASE new \in TerminalStatuses
    BY <1>0, <2>1, <2>2, <2>3 DEF Offered, KeptClient, Registered, Open, Ended
  <2>4. CASE new \notin TerminalStatuses
    BY <1>0, <2>1, <2>2, <2>4 DEF Offered, KeptClient, Registered, Open, After, Live
  <2> QED BY <2>3, <2>4
<1>5. CASE Own(u)
  <2>0. UNCHANGED <<answer, status, events, lost>>
    BY <1>5, OwnKeepsTasks
  <2>1. CASE Post(u) \/ ReadAnswer(u) \/ SubscribeNotFound(u) \/ Abort(u)
    <3>1. UNCHANGED <<subs, shut, sse>> /\ client'[u] # "streaming"
      BY <2>1 DEF Post, ReadAnswer, SubscribeNotFound, Abort, ClientTo, Leaves, streamVars, TypeOK
    <3> QED BY <1>0, <2>0, <3>1 DEF Registered, Open
  <2>2. CASE Subscribe(u)
    <3>1. /\ sse'[u] = "serving" /\ client'[u] = "streaming" /\ Found(answer[u]) /\ sse[u] = "off"
          /\ shut'[u] = Terminal(answer[u]) /\ subs' = IF Terminal(answer[u]) THEN subs ELSE subs \cup {u}
      BY <2>2 DEF Subscribe, ClientTo, TypeOK
    <3>2. u \notin subs
      BY <1>0, <3>1 DEF Registered
    <3>3. CASE Terminal(answer[u])
      BY <1>0, <2>0, <3>1, <3>2, <3>3 DEF Registered, Open, Ended, Terminal
    <3>4. CASE ~Terminal(answer[u])
      <4>1. answer[u] # None /\ status[answer[u]] \in Live
        BY <1>0, <3>1, <3>4 DEF Found, Terminal, Statuses, Live
      <4> QED BY <2>0, <3>1, <3>4, <4>1 DEF Registered, Open
    <3> QED BY <3>3, <3>4
  <2>3. CASE Deliver(u)
    <3>1. UNCHANGED <<subs, shut, sse>> /\ client[u] = "streaming"
      BY <2>3 DEF Deliver
    <3> QED BY <1>0, <2>0, <3>1 DEF Registered, Open
  <2>4. CASE StreamEnd(u) \/ ClientGone(u)
    <3>1. UNCHANGED <<subs, shut>> /\ client'[u] # "streaming" /\ sse'[u] = "leaving" /\ sse[u] = "serving"
      BY <2>4 DEF StreamEnd, ClientGone, ClientTo, clientVars, TypeOK
    <3> QED BY <1>0, <2>0, <3>1 DEF Registered, Open
  <2>5. CASE Unsubscribe(u)
    <3>1. UNCHANGED <<shut, client>> /\ sse[u] = "leaving" /\ u \notin subs' /\ (sse'[u] = "draining" => u \in subs)
      BY <2>5 DEF Unsubscribe, clientVars, TypeOK
    <3> QED BY <1>0, <2>0, <3>1 DEF Registered, Open
  <2>6. CASE CloseChannel(u)
    <3>1. UNCHANGED <<subs, client>> /\ sse[u] = "draining" /\ sse'[u] = "off"
      BY <2>6 DEF CloseChannel, clientVars, TypeOK
    <3> QED BY <1>0, <2>0, <3>1 DEF Registered, Open
  <2> QED BY <1>5, <2>1, <2>2, <2>3, <2>4, <2>5, <2>6 DEF Own, StreamStep
<1> QED BY <1>1, <1>2, <1>3, <1>4, <1>5, StreamMoves

LEMMA TypeStep ==
    ASSUME TypeOK, \A c \in Clients : Creates(c) /\ Registered(c) /\ Reads(c), [Next]_vars
    PROVE  TypeOK'
<1>1. \A c \in Clients : Open(c)'
  BY RegisteredStep
<1> QED BY <1>1, TaskMoves, CreateTypes, StreamTypes
        DEF TypeOK, Open, Statuses, Handlers, Places, ClientPlaces

-----------------------------------------------------------------------------
(* What is read.                                                           *)

LEMMA ReadsStep ==
    ASSUME TypeOK, \A c \in Clients : Creates(c) /\ Registered(c) /\ Reads(c), [Next]_vars, NEW u \in Clients
    PROVE  Reads(u)'
<1> DEFINE a == answer[u]
           n == events[a]
<1>0. /\ Creates(u) /\ Registered(u) /\ Reads(u) /\ a \in Clients \cup {None} /\ None \notin Clients
      /\ got[u] \in Seq(Nat) /\ chan[u] \in Seq(Nat)
      /\ a # None => /\ n \in Nat /\ events'[a] \in Nat /\ events'[a] >= n /\ status[a] # "none"
                     /\ status[a] \in Ended => events'[a] = n
  BY TasksAge, StreamAssumption DEF TypeOK, Creates
<1>1. ASSUME NEW s \in Seq(Nat), a # None, Within(s, n) PROVE Within(s, events'[a])
  BY <1>0, <1>1 DEF Within
<1>2. ASSUME got'[u] = got[u], answer'[u] = a, client'[u] # "streaming" PROVE Reads(u)'
  BY <1>0, <1>1, <1>2 DEF Reads
<1>3. CASE Restart
  <2>1. UNCHANGED <<got, answer>> /\ client'[u] # "streaming"
    BY <1>3 DEF Restart, Leaves
  <2> QED BY <1>2, <2>1
<1>4. CASE Untouched(u)
  <2>1. CASE handler[u] # "done"
    BY <1>0, <1>4, <2>1 DEF Untouched, KeptClient, Creates, Reads, Increasing
  <2>2. CASE handler[u] = "done" /\ client[u] # "streaming"
    BY <1>2, <1>4, <2>2 DEF Untouched, KeptClient
  <2>3. CASE handler[u] = "done" /\ client[u] = "streaming"
    <3>1. a # None /\ events'[a] = n
      BY <1>0, <1>4, <2>3 DEF Creates, Registered, Untouched
    <3> QED BY <1>0, <1>4, <2>3, <3>1 DEF Untouched, KeptClient, KeptChan, Reads
  <2> QED BY <2>1, <2>2, <2>3
<1>5. CASE Served(u)
  <2>1. /\ KeptClient(u) /\ answer'[u] = a /\ a # None /\ events'[a] = n + 1
        /\ chan'[u] = chan[u] \/ chan'[u] = Append(chan[u], n + 1)
    BY <1>0, <1>5 DEF Served, Offered, Registered
  <2>2. CASE client[u] # "streaming"
    BY <1>2, <2>1, <2>2 DEF KeptClient
  <2>3. CASE client[u] = "streaming"
    <3>0. /\ Increasing(got[u]) /\ (got[u] # <<>> => Within(got[u], n)) /\ Increasing(chan[u]) /\ Within(chan[u], n)
          /\ (chan[u] # <<>> => Last0(got[u]) < chan[u][1])
      BY <1>0, <2>3 DEF Reads
    <3>1. got'[u] = got[u] /\ (got[u] # <<>> => Within(got[u], events'[a]))
      BY <1>0, <1>1, <2>1, <3>0 DEF KeptClient
    <3>2. CASE chan'[u] = chan[u]
      <4>1. Within(chan[u], events'[a])
        BY <1>0, <1>1, <2>1, <3>0
      <4> QED BY <2>1, <3>0, <3>1, <3>2, <4>1 DEF Reads
    <3>3. CASE chan'[u] = Append(chan[u], n + 1)
      <4>1. n \in Nat /\ n + 1 \in Nat /\ Last0(chan[u]) < n + 1 /\ Last0(got[u]) < n + 1
        <5>1. Last0(chan[u]) \in 0 .. n
          BY <1>0, <2>1, <3>0, LastWithin
        <5>2. CASE got[u] = <<>>
          BY <1>0, <2>1, <5>1, <5>2 DEF Last0
        <5>3. CASE got[u] # <<>>
          <6>1. Last0(got[u]) \in 0 .. n
            BY <1>0, <2>1, <3>0, <5>3, LastWithin
          <6> QED BY <1>0, <2>1, <5>1, <6>1
        <5> QED BY <5>2, <5>3
      <4>2. Increasing(chan'[u])
        BY <1>0, <3>0, <3>3, <4>1, AppendId
      <4>3. Within(chan'[u], n + 1)
        <5>1. /\ Len(Append(chan[u], n + 1)) = Len(chan[u]) + 1 /\ Append(chan[u], n + 1)[Len(chan[u]) + 1] = n + 1
              /\ \A i \in 1 .. Len(chan[u]) : Append(chan[u], n + 1)[i] = chan[u][i]
              /\ Len(chan[u]) \in Nat
          BY <1>0, <4>1
        <5>2. \A i \in 1 .. Len(chan[u]) + 1 : i \in 1 .. Len(chan[u]) \/ i = Len(chan[u]) + 1
          BY <5>1
        <5>3. \A i \in 1 .. Len(chan[u]) : chan[u][i] \in 1 .. n + 1
          BY <3>0, <4>1 DEF Within
        <5>4. n + 1 \in 1 .. n + 1
          BY <4>1
        <5> QED BY <3>3, <5>1, <5>2, <5>3, <5>4 DEF Within
      <4>4. Last0(got[u]) < chan'[u][1]
        <5>1. CASE chan[u] = <<>>
          <6>1. Append(chan[u], n + 1)[1] = n + 1
            BY <4>1, <5>1
          <6> QED BY <3>3, <4>1, <6>1
        <5>2. CASE chan[u] # <<>>
          <6>1. Append(chan[u], n + 1)[1] = chan[u][1]
            BY <1>0, <4>1, <5>2
          <6> QED BY <3>0, <3>3, <5>2, <6>1
        <5> QED BY <5>1, <5>2
      <4> QED BY <2>1, <3>0, <3>1, <4>2, <4>3, <4>4 DEF Reads
    <3> QED BY <2>1, <3>2, <3>3
  <2> QED BY <2>2, <2>3
<1>6. CASE Own(u)
  <2>0. UNCHANGED <<answer, status, events, lost>>
    BY <1>6, OwnKeepsTasks
  <2>1. CASE Post(u) \/ ReadAnswer(u) \/ SubscribeNotFound(u) \/ Abort(u) \/ StreamEnd(u)
    <3>1. got' = got /\ client'[u] # "streaming"
      BY <2>1 DEF Post, ReadAnswer, SubscribeNotFound, Abort, StreamEnd, ClientTo, Leaves, TypeOK
    <3> QED BY <1>2, <2>0, <3>1
  <2>2. CASE ClientGone(u) \/ Unsubscribe(u) \/ CloseChannel(u)
    <3>1. got' = got /\ client' = client /\ client[u] # "streaming"
      BY <1>0, <2>2 DEF ClientGone, Unsubscribe, CloseChannel, clientVars, Registered
    <3> QED BY <1>2, <2>0, <3>1
  <2>3. CASE Subscribe(u)
    <3>1. /\ a \in Clients /\ n \in Nat /\ Last0(got'[u]) \in 0 .. n /\ (got'[u] = got[u] \/ got'[u] = <<>>)
          /\ chan'[u] = [i \in 1 .. n - Last0(got'[u]) |-> Last0(got'[u]) + i]
      BY <1>0, <2>3, HistoryIs
    <3>2. Increasing(chan'[u]) /\ Within(chan'[u], n) /\ (chan'[u] # <<>> => Last0(got'[u]) < chan'[u][1])
      BY <3>1, IdsAfter
    <3>3. Increasing(got'[u]) /\ (got'[u] # <<>> => Within(got'[u], n))
      BY <1>0, <3>1, SMTT(30) DEF Reads, Increasing
    <3> QED BY <1>0, <2>0, <3>1, <3>2, <3>3 DEF Reads
  <2>4. CASE Deliver(u)
    <3>1. /\ chan[u] # <<>> /\ client[u] = "streaming" /\ chan'[u] = Tail(chan[u]) /\ got'[u] = Append(got[u], Head(chan[u]))
          /\ a # None
      BY <1>0, <2>4 DEF Deliver, TypeOK, Creates
    <3>2. /\ Increasing(got[u]) /\ (got[u] # <<>> => Within(got[u], n)) /\ Increasing(chan[u]) /\ Within(chan[u], n)
          /\ Last0(got[u]) < chan[u][1]
      BY <1>0, <3>1 DEF Reads
    <3>3. /\ Head(chan[u]) = chan[u][1] /\ Head(chan[u]) \in Nat /\ Increasing(Tail(chan[u])) /\ Len(chan[u]) \in Nat \ {0}
          /\ \A i \in 1 .. Len(Tail(chan[u])) : Tail(chan[u])[i] = chan[u][i + 1] /\ i + 1 \in 1 .. Len(chan[u])
          /\ Tail(chan[u]) # <<>> => Head(chan[u]) < Tail(chan[u])[1]
      BY <1>0, <3>1, <3>2, TailIds
    <3>4. Within(Tail(chan[u]), n) /\ Head(chan[u]) \in 1 .. n
      <4>1. 1 \in 1 .. Len(chan[u])
        BY <3>3
      <4> QED BY <3>2, <3>3, <4>1 DEF Within
    <3>5. Increasing(got'[u]) /\ Last0(got'[u]) = Head(chan[u])
      BY <1>0, <3>1, <3>2, <3>3, AppendId
    <3>6. Within(got'[u], n)
      <4>1. /\ Len(Append(got[u], Head(chan[u]))) = Len(got[u]) + 1 /\ Len(got[u]) \in Nat
            /\ Append(got[u], Head(chan[u]))[Len(got[u]) + 1] = Head(chan[u])
            /\ \A i \in 1 .. Len(got[u]) : Append(got[u], Head(chan[u]))[i] = got[u][i]
        BY <1>0, <3>3
      <4>2. \A i \in 1 .. Len(got[u]) + 1 : i \in 1 .. Len(got[u]) \/ i = Len(got[u]) + 1
        BY <4>1
      <4>3. \A i \in 1 .. Len(got[u]) : got[u][i] \in 1 .. n
        BY <1>0, <3>2 DEF Within
      <4> QED BY <3>1, <3>4, <4>1, <4>2, <4>3 DEF Within
    <3>7. client'[u] = "streaming" \/ client'[u] # "streaming"
      OBVIOUS
    <3> QED BY <2>0, <3>1, <3>3, <3>4, <3>5, <3>6 DEF Reads
  <2> QED BY <1>6, <2>1, <2>2, <2>3, <2>4 DEF Own, StreamStep
<1> QED BY <1>3, <1>4, <1>5, <1>6, StreamMoves

-----------------------------------------------------------------------------
(* No gap.                                                                 *)

Follows(s, k) == \A i \in 1 .. Len(s) : s[i] = k + i

LEMMA FollowsAppend ==
    ASSUME NEW s \in Seq(Nat), NEW k \in Nat, Follows(s, k), NEW x, x = k + Len(s) + 1
    PROVE  Follows(Append(s, x), k) /\ Len(Append(s, x)) = Len(s) + 1 /\ Append(s, x)[Len(s) + 1] = x
<1>1. PICK m \in Nat : m = Len(s)
  OBVIOUS
<1>2. x \in Nat /\ x = k + (m + 1)
  BY <1>1
<1>3. /\ Len(Append(s, x)) = m + 1 /\ Append(s, x)[m + 1] = x
      /\ \A i \in 1 .. m : Append(s, x)[i] = s[i] /\ s[i] = k + i
  BY <1>1, <1>2 DEF Follows
<1>4. \A i \in 1 .. m + 1 : i \in 1 .. m \/ i = m + 1
  BY <1>1
<1>5. \A i \in 1 .. m + 1 : Append(s, x)[i] = k + i
  BY <1>2, <1>3, <1>4
<1> QED BY <1>1, <1>3, <1>5 DEF Follows

LEMMA FollowsTail ==
    ASSUME NEW s \in Seq(Nat), s # <<>>, NEW k \in Nat, Follows(s, k)
    PROVE  Head(s) = k + 1 /\ Follows(Tail(s), k + 1) /\ Len(Tail(s)) = Len(s) - 1 /\ Len(s) \in Nat \ {0}
<1>1. PICK m \in Nat \ {0} : m = Len(s)
  OBVIOUS
<1>2. /\ Head(s) = s[1] /\ Len(Tail(s)) = m - 1 /\ \A i \in 1 .. m - 1 : Tail(s)[i] = s[i + 1]
  BY <1>1
<1>3. \A i \in 1 .. m : s[i] = k + i
  BY <1>1 DEF Follows
<1>4. 1 \in 1 .. m /\ \A i \in 1 .. m - 1 : i + 1 \in 1 .. m /\ k + (i + 1) = (k + 1) + i
  BY <1>1
<1>5. \A i \in 1 .. m - 1 : Tail(s)[i] = (k + 1) + i
  BY <1>2, <1>3, <1>4
<1> QED BY <1>1, <1>2, <1>3, <1>4, <1>5 DEF Follows

\* Gapless for a client whose task has n events and the status st.
Whole(g, ch, where, n, st) ==
    /\ Follows(g, 0)
    /\ where = "streaming" => Len(g) + Len(ch) = n /\ Follows(ch, Len(g))
    /\ where = "complete" => g # <<>> /\ g[Len(g)] = n /\ st \in Ended

LEMMA GaplessIs ==
    ASSUME TypeOK, NEW u \in Clients
    PROVE  Gapless(u) <=> (~lost[u] => Whole(got[u], chan[u], client[u], events[answer[u]], status[answer[u]]))
<1>1. Follows(got[u], 0) <=> \A i \in 1 .. Len(got[u]) : got[u][i] = i
  BY DEF Follows
<1>2. Follows(chan[u], Len(got[u])) <=> \A i \in 1 .. Len(chan[u]) : chan[u][i] = Len(got[u]) + i
  BY DEF Follows
<1> QED BY <1>1, <1>2, Zenon DEF Gapless, Whole, IsFinal, Last, Ended

LEMMA OneMore ==
    ASSUME NEW k \in Nat, NEW m \in Nat, NEW n, k + m = n
    PROVE  n + 1 = k + m + 1 /\ k + (m + 1) = n + 1 /\ k + 1 = 0 + k + 1 /\ (k + 1) + (m - 1) = n
  OBVIOUS

LEMMA GaplessStep ==
    ASSUME TypeOK, TypeOK', \A c \in Clients : Creates(c) /\ Registered(c) /\ Reads(c) /\ Gapless(c), [Next]_vars,
           NEW u \in Clients
    PROVE  Gapless(u)'
<1> DEFINE a == answer[u]
           n == events[a]
<1>0. /\ Creates(u) /\ Registered(u) /\ Reads(u) /\ a \in Clients \cup {None} /\ None \notin Clients
      /\ a # None => /\ n \in Nat /\ status[a] # "none" /\ Creates(a)
                     /\ status[a] \in Ended => events'[a] = n /\ status'[a] \in Ended
  <2>1. Creates(u) /\ Registered(u) /\ Reads(u) /\ a \in Clients \cup {None} /\ None \notin Clients
    BY StreamAssumption DEF TypeOK
  <2>2. ASSUME a # None PROVE status[a] # "none" /\ Creates(a)
    BY <2>1, <2>2 DEF Creates
  <2> QED BY <2>1, <2>2, TasksAge
<1>a. /\ got[u] \in Seq(Nat) /\ chan[u] \in Seq(Nat) /\ lost[u] \in BOOLEAN
      /\ Len(got[u]) \in Nat /\ Len(chan[u]) \in Nat
  <2>1. got[u] \in Seq(Nat) /\ chan[u] \in Seq(Nat) /\ lost[u] \in BOOLEAN
    BY DEF TypeOK
  <2> QED BY <2>1
<1>b. lost'[u] \in BOOLEAN
  BY DEF TypeOK
<1>1. ~lost[u] => Whole(got[u], chan[u], client[u], n, status[a])
  BY GaplessIs
<1> SUFFICES ASSUME ~lost'[u]
             PROVE  Whole(got'[u], chan'[u], client'[u], events'[answer'[u]], status'[answer'[u]])
  <2>1. Follows(got'[u], 0) <=> \A i \in 1 .. Len(got'[u]) : got'[u][i] = i
    BY DEF Follows
  <2>2. Follows(chan'[u], Len(got'[u])) <=> \A i \in 1 .. Len(chan'[u]) : chan'[u][i] = Len(got'[u]) + i
    BY DEF Follows
  <2> QED BY <2>1, <2>2, Zenon DEF Gapless, Whole, IsFinal, Last, Ended
<1>2. ASSUME ~lost[u], got'[u] = got[u], answer'[u] = a, client'[u] # "streaming", client'[u] = "complete" => client[u] = "complete"
      PROVE  Whole(got'[u], chan'[u], client'[u], events'[answer'[u]], status'[answer'[u]])
  <2>1. client[u] = "complete" => a # None
    BY <1>0 DEF Creates
  <2> QED BY <1>0, <1>1, <1>2, <2>1 DEF Whole
<1>3. CASE Restart
  <2>1. /\ UNCHANGED <<got, answer, lost>> /\ client'[u] # "streaming"
        /\ client'[u] = "complete" => client[u] = "complete"
    BY <1>3 DEF Restart, Leaves
  <2> QED BY <1>2, <2>1
<1>4. CASE Untouched(u)
  <2>0. /\ client'[u] = client[u] /\ got'[u] = got[u] /\ chan'[u] = chan[u] /\ ~lost[u]
        /\ handler[u] = "done" => answer'[u] = a
    BY <1>4 DEF Untouched, KeptClient, KeptChan
  <2>1. CASE handler[u] # "done"
    <3>1. got[u] = <<>> /\ client[u] \notin {"streaming", "complete"}
      BY <1>0, <2>1 DEF Creates
    <3> QED BY <2>0, <3>1 DEF Whole, Follows
  <2>2. CASE handler[u] = "done" /\ client[u] # "streaming"
    BY <1>2, <2>0, <2>2
  <2>3. CASE handler[u] = "done" /\ client[u] = "streaming"
    <3>1. a # None /\ events'[a] = n
      BY <1>0, <1>4, <2>3 DEF Creates, Registered, Untouched
    <3> QED BY <1>1, <2>0, <2>3, <3>1 DEF Whole
  <2> QED BY <2>1, <2>2, <2>3
<1>5. CASE Served(u)
  <2>1. /\ client'[u] = client[u] /\ got'[u] = got[u] /\ answer'[u] = a /\ a # None /\ events'[a] = n + 1 /\ n \in Nat
        /\ ~lost[u] /\ chan'[u] = Append(chan[u], n + 1)
    BY <1>0, <1>5 DEF Served, Offered, Registered, KeptClient
  <2>2. CASE client[u] # "streaming"
    BY <1>2, <2>1, <2>2
  <2>3. CASE client[u] = "streaming"
    <3>1. PICK k \in Nat, m \in Nat : k = Len(got[u]) /\ m = Len(chan[u])
      BY <1>a
    <3>2. Follows(got[u], 0) /\ k + m = n /\ Follows(chan[u], k)
      BY <1>1, <2>1, <2>3, <3>1 DEF Whole
    <3>3. n + 1 = k + m + 1 /\ k + (m + 1) = n + 1
      <4>1. k \in Nat /\ m \in Nat /\ k + m = n
        BY <3>1, <3>2
      <4> QED BY <4>1, OneMore
    <3>4. Follows(chan'[u], k) /\ Len(chan'[u]) = m + 1
      <4>1. n + 1 = k + Len(chan[u]) + 1
        BY <3>1, <3>3, Zenon
      <4>2. Follows(Append(chan[u], n + 1), k) /\ Len(Append(chan[u], n + 1)) = Len(chan[u]) + 1
        BY <1>a, <3>1, <3>2, <4>1, FollowsAppend, Zenon
      <4> QED BY <2>1, <3>1, <4>2, Zenon
    <3> QED BY <2>1, <2>3, <3>1, <3>2, <3>3, <3>4 DEF Whole
  <2> QED BY <2>2, <2>3
<1>6. CASE Own(u)
  <2>0. UNCHANGED <<answer, status, events, lost>> /\ ~lost[u]
    BY <1>6, OwnKeepsTasks
  <2>1. CASE Post(u) \/ ReadAnswer(u) \/ SubscribeNotFound(u) \/ Abort(u)
    <3>1. got' = got /\ client'[u] \notin {"streaming", "complete"}
      <4>1. CASE Post(u) \/ ReadAnswer(u) \/ SubscribeNotFound(u)
        BY <4>1, ZenonT(30) DEF Post, ReadAnswer, SubscribeNotFound, ClientTo, TypeOK
      <4>2. CASE Abort(u)
        BY <4>2 DEF Abort, ClientTo, Leaves, TypeOK
      <4> QED BY <2>1, <4>1, <4>2
    <3> QED BY <1>2, <2>0, <3>1
  <2>2. CASE ClientGone(u) \/ Unsubscribe(u) \/ CloseChannel(u)
    <3>1. got' = got /\ client' = client /\ client[u] # "streaming"
      BY <1>0, <2>2 DEF ClientGone, Unsubscribe, CloseChannel, clientVars, Registered
    <3> QED BY <1>2, <2>0, <3>1
  <2>3. CASE Subscribe(u)
    <3>1. /\ a \in Clients /\ n \in Nat /\ Last0(got'[u]) \in 0 .. n /\ (got'[u] = got[u] \/ got'[u] = <<>>)
          /\ got'[u] \in Seq(Nat)
          /\ chan'[u] = [i \in 1 .. n - Last0(got'[u]) |-> Last0(got'[u]) + i]
      BY <1>0, <2>3, HistoryIs
    <3>0. client'[u] = "streaming"
      BY <2>3 DEF Subscribe, ClientTo, TypeOK
    <3>2. Follows(got'[u], 0)
      <4>1. CASE got'[u] = <<>>
        BY <4>1 DEF Follows
      <4>2. CASE got'[u] = got[u]
        BY <1>1, <2>0, <4>2 DEF Whole
      <4> QED BY <3>1, <4>1, <4>2
    <3>3. PICK k \in 0 .. n : k = Last0(got'[u])
      BY <3>1
    <3>4. Len(got'[u]) = k
      <4>1. CASE got'[u] = <<>>
        BY <3>3, <4>1 DEF Last0
      <4>2. CASE got'[u] # <<>>
        <5>1. Len(got'[u]) \in 1 .. Len(got'[u]) /\ Len(got'[u]) \in Nat
          BY <3>1, <4>2
        <5>2. got'[u][Len(got'[u])] = 0 + Len(got'[u])
          BY <3>2, <5>1 DEF Follows
        <5> QED BY <3>3, <4>2, <5>1, <5>2 DEF Last0
      <4> QED BY <4>1, <4>2
    <3>5. Len(chan'[u]) = n - k /\ \A i \in 1 .. n - k : chan'[u][i] = k + i
      BY <3>1, <3>3, IdsAfter
    <3>6. k + (n - k) = n
      BY <3>1
    <3>7. Follows(chan'[u], k)
      BY <3>5 DEF Follows
    <3> QED BY <2>0, <3>0, <3>1, <3>2, <3>4, <3>5, <3>6, <3>7 DEF Whole
  <2>4. CASE Deliver(u)
    <3>1. /\ chan[u] # <<>> /\ client[u] = "streaming" /\ chan'[u] = Tail(chan[u]) /\ got'[u] = Append(got[u], Head(chan[u]))
          /\ a # None /\ (client'[u] = "streaming" \/ (client'[u] = "complete" /\ IsFinal(u, Head(chan[u]))))
      BY <1>0, <2>4 DEF Deliver, ClientTo, TypeOK, Creates
    <3>2. PICK k \in Nat, m \in Nat : k = Len(got[u]) /\ m = Len(chan[u])
      BY <1>a
    <3>3. Follows(got[u], 0) /\ k + m = n /\ Follows(chan[u], k)
      BY <1>1, <2>0, <3>1, <3>2 DEF Whole
    <3>4. Head(chan[u]) = k + 1 /\ Follows(chan'[u], k + 1) /\ Len(chan'[u]) = m - 1
      BY <1>a, <3>1, <3>2, <3>3, FollowsTail
    <3>5. k + 1 = 0 + k + 1 /\ (k + 1) + (m - 1) = n
      <4>1. k \in Nat /\ m \in Nat /\ k + m = n
        BY <3>2, <3>3
      <4> QED BY <4>1, OneMore
    <3>6. Follows(got'[u], 0) /\ Len(got'[u]) = k + 1 /\ got'[u][k + 1] = k + 1
      BY <1>a, <3>1, <3>2, <3>3, <3>4, <3>5, FollowsAppend
    <3>7. got'[u] # <<>>
      BY <3>2, <3>6
    <3>8. client'[u] = "complete" => k + 1 = n /\ status[a] \in Ended
      BY <3>1, <3>4 DEF IsFinal, Ended
    <3> QED BY <2>0, <3>1, <3>4, <3>5, <3>6, <3>7, <3>8 DEF Whole
  <2>5. CASE StreamEnd(u)
    <3>1. got' = got /\ chan[u] = <<>> /\ shut[u] /\ client[u] = "streaming" /\ client'[u] # "streaming" /\ a \in Clients
      BY <1>0, <2>5 DEF StreamEnd, ClientTo, TypeOK, Creates
    <3>2. status[a] \in Ended
      BY <1>0, <3>1 DEF Registered, TypeOK
    <3>3. n >= 1 /\ n \in Nat
      BY <1>0, <3>1 DEF Creates
    <3>4. PICK k \in Nat : k = Len(got[u])
      BY <1>a
    <3>5. Follows(got[u], 0) /\ k = n
      <4>1. Len(chan[u]) = 0 /\ k + Len(chan[u]) = n
        BY <1>1, <2>0, <3>1, <3>4 DEF Whole
      <4> QED BY <1>1, <2>0, <3>4, <4>1 DEF Whole
    <3>6. got[u] # <<>> /\ got[u][k] = n
      <4>1. k \in 1 .. Len(got[u]) /\ 0 + k = n
        BY <3>3, <3>4, <3>5
      <4>2. got[u][k] = 0 + k
        BY <3>5, <4>1 DEF Follows
      <4>3. got[u] # <<>>
        <5>1. Len(got[u]) # 0
          BY <3>3, <3>4, <3>5
        <5> QED BY <5>1
      <4> QED BY <4>1, <4>2, <4>3
    <3> QED BY <2>0, <3>1, <3>2, <3>4, <3>5, <3>6 DEF Whole
  <2> QED BY <1>6, <2>1, <2>2, <2>3, <2>4, <2>5 DEF Own, StreamStep
<1> QED BY <1>3, <1>4, <1>5, <1>6, StreamMoves

-----------------------------------------------------------------------------
(* The theorems.                                                           *)

LEMMA StreamInit == Init => StreamInv
<1> SUFFICES ASSUME Init PROVE StreamInv
  OBVIOUS
<1>1. TypeOK
  <2>1. kind \in [Clients -> {"run", "prompt", "viewer"}] /\ faults \in 0 .. MaxFaults /\ BaseCap \in Nat
    BY StreamAssumption DEF Init
  <2>2. /\ record \in Clients \cup {None} /\ lapsed \in BOOLEAN /\ answer \in [Clients -> Clients \cup {None}]
        /\ handler \in [Clients -> {"idle", "check", "create", "record", "schedule", "done"}]
        /\ status \in [Clients -> {"none", "queued", "running", "purged"} \cup TerminalStatuses]
        /\ events \in [Clients -> Nat]
    BY DEF Init
  <2>3. /\ subs \subseteq Clients /\ chan \in [Clients -> Seq(Nat)] /\ cap \in [Clients -> Nat]
        /\ sse \in [Clients -> {"off", "serving", "leaving", "draining"}]
        /\ client \in [Clients -> {"idle", "posting", "subscribing", "streaming"} \cup Over]
        /\ got \in [Clients -> Seq(Nat)]
    BY <2>1 DEF Init
  <2>4. shut \in [Clients -> BOOLEAN] /\ lost \in [Clients -> BOOLEAN]
    BY DEF Init
  <2>5. ASSUME NEW c \in Clients PROVE Len(chan[c]) <= cap[c] /\ c \notin subs /\ sse[c] # "draining"
    <3>1. chan[c] = <<>> /\ cap[c] = BaseCap /\ c \notin subs /\ sse[c] # "draining"
      BY DEF Init
    <3> QED BY <2>1, <3>1
  <2> QED BY <2>1, <2>2, <2>3, <2>4, <2>5 DEF TypeOK
<1>2. KeyHolds
  BY StreamAssumption DEF Init, KeyHolds, Keyed, Scheduled, HandlerAt
<1>3. ASSUME NEW c \in Clients PROVE Creates(c) /\ Registered(c)
  BY DEF Init, Creates, Registered
<1>4. ASSUME NEW c \in Clients PROVE Reads(c) /\ Gapless(c)
  BY DEF Init, Reads, Gapless, Increasing
<1> QED BY <1>1, <1>2, <1>3, <1>4 DEF StreamInv

LEMMA StreamStepInv == StreamInv /\ [Next]_vars => StreamInv'
<1> SUFFICES ASSUME StreamInv, [Next]_vars PROVE StreamInv'
  OBVIOUS
<1>0. TypeOK /\ (~lapsed => KeyHolds) /\ \A c \in Clients : Creates(c) /\ Registered(c) /\ Reads(c) /\ Gapless(c)
  BY DEF StreamInv
<1>1. TypeOK'
  BY <1>0, TypeStep
<1>2. ~lapsed' => KeyHolds'
  BY <1>0, KeyHoldsStep
<1>3. \A c \in Clients : Creates(c)'
  BY <1>0, CreatesStep
<1>4. \A c \in Clients : Registered(c)' /\ Reads(c)'
  BY <1>0, RegisteredStep, ReadsStep
<1>5. \A c \in Clients : Gapless(c)'
  BY <1>0, <1>1, GaplessStep
<1> QED BY <1>1, <1>2, <1>3, <1>4, <1>5 DEF StreamInv

LEMMA StreamInvariant == Spec => []StreamInv
<1> QED BY StreamInit, StreamStepInv, PTL DEF Spec

\* The types of the handler's, the task's, the channel's and the client's state, a
\* channel never holds more than its capacity (EmitEvent would block), and one that
\* is still sent to or about to be closed is open (no send on a closed channel, no
\* second close), for any clients, capacities and numbers of events.
THEOREM StreamTypeCorrect == Spec => []TypeOK
<1>1. StreamInv => TypeOK
  BY DEF StreamInv
<1> QED BY <1>1, StreamInvariant, PTL

\* What handleTaskEvents and the clients make of Subscribe's history and EmitEvent's
\* live events: in order, each once, without a gap unless the channel was full, and
\* to the event that ended the task, across aborts, reconnections and restarts.
THEOREM StreamReadsWhole == Spec => []StreamWhole
<1>1. StreamInv => StreamWhole
  <2> SUFFICES ASSUME StreamInv, NEW c \in Clients
               PROVE  /\ \A i \in 1 .. Len(got[c]) - 1 : got[c][i] < got[c][i + 1]
                      /\ ~lost[c] => \A i \in 1 .. Len(got[c]) : got[c][i] = i
                      /\ client[c] = "complete" /\ ~lost[c] => got[c] # <<>> /\ IsFinal(c, Last(got[c]))
    BY DEF StreamWhole
  <2>1. Increasing(got[c]) /\ Gapless(c)
    BY DEF StreamInv, Reads
  <2> QED BY <2>1 DEF Increasing, Gapless
<1> QED BY <1>1, StreamInvariant, PTL

\* What RecordOrGet's double check promises: as long as the key holds, requests with
\* it share one task that runs, whoever created one in between, and a client is
\* never answered with a task that nobody schedules.
THEOREM StreamOneTaskPerKey == Spec => []OneTaskPerKey
<1>1. StreamInv => OneTaskPerKey
  <2> SUFFICES ASSUME StreamInv, ~lapsed, NEW c \in Keyed, NEW d \in Keyed
               PROVE  /\ c # d /\ Scheduled(c) /\ Scheduled(d) =>
                             Terminal(c) \/ Terminal(d) \/ status[c] = "purged" \/ status[d] = "purged"
                      /\ answer[c] = d => Scheduled(d) \/ HandlerAt(d, "schedule") \/ Terminal(d) \/ status[d] = "purged"
    BY DEF OneTaskPerKey
  <2>1. KeyHolds
    BY DEF StreamInv
  <2>2. c # d => c # record \/ d # record
    OBVIOUS
  <2> QED BY <2>1, <2>2 DEF KeyHolds, Ended, Terminal
<1> QED BY <1>1, StreamInvariant, PTL
=============================================================================
