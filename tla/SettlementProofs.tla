-------------------------- MODULE SettlementProofs --------------------------
(***************************************************************************)
(* Theorems about Settlement, for any contracts, emitters, requests, limit *)
(* of attempts and number of failures.                                     *)
(***************************************************************************)
EXTENDS Settlement, FiniteSetTheorems, SequenceTheorems, TLAPS

-----------------------------------------------------------------------------
(* Types.                                                                  *)

JobRecords ==
    [pc : {"idle", "check", "read", "save", "confirm", "emit"} \cup Ended,
     contract : Contracts \cup {None}, outcome : SettleOutcomes \cup {Timeout, None},
     prev : Contracts \cup {None}, tries : 0 .. MaxAttempts - 1, answer : Contents \cup {None}]

LEMMA EmitterIs == \A c \in Contracts : EmitterOf[c] \in Emitters
  BY DEF Emitters

\* A settlement in these states is of a contract.
Busy == {"check", "read", "save", "done", "exhausted"}

\* The position of a receipt, and the link to it.
LinkAt(c, k) == IF k = 0 THEN None ELSE PairOf(c)[k].sig.contract
Issued(c, x) == \E i \in 1 .. Len(PairOf(c)) : PairOf(c)[i].content.contract = c /\ PairOf(c)[i].sig = x

Named ==
    /\ \A t \in Threads : job[t].pc \in Busy => job[t].contract \in Contracts
    /\ \A t \in Threads : job[t].pc \in {"read", "save"} => job[t].outcome \in SettleOutcomes \cup {Timeout}
    /\ \A d \in Deciders : ruling[d].pc = "write" => ruling[d].contract \in Contracts
    /\ job[Reaper].outcome = Timeout
    /\ \A t \in Threads : job[t].pc = "idle" => job[t].tries = 0

\* What each attempt of a settlement knows of the chain: the link it signed was
\* the head at some moment since it began, and it has lost to somebody before
\* each further attempt.
Tracks ==
    \A t \in Threads :
        /\ job[t].contract # None => job[t].tries <= Len(PairOf(job[t].contract))
        /\ At(t, "save") => \E k \in job[t].tries .. Len(PairOf(job[t].contract)) :
                                job[t].prev = LinkAt(job[t].contract, k)
        /\ At(t, "exhausted") => MaxAttempts <= Len(PairOf(job[t].contract))

OneReceipt ==
    \A e \in Emitters : \A i, j \in 1 .. Len(chain[e]) :
        chain[e][i].content.contract = chain[e][j].content.contract => i = j

Answered == \A t \in Settlers : At(t, "done") => Issued(job[t].contract, job[t].answer)

-----------------------------------------------------------------------------
(* What a step does to a settlement.                                       *)

Rests(t) == /\ job'[t].pc \notin Busy /\ (job'[t].pc = "idle" => job'[t].tries = 0)
            /\ job'[t].tries = 0 \/ (job'[t].tries = job[t].tries /\ job'[t].contract = job[t].contract)
Begins(t) == job'[t].pc = "check" /\ job'[t].contract \in Contracts /\ job'[t].tries = 0
Evaluates(t) == /\ job[t].pc = "check" /\ job'[t].pc = "read"
                /\ job'[t].contract = job[t].contract /\ job'[t].tries = job[t].tries
                /\ job'[t].outcome \in SettleOutcomes \cup {Timeout}
Reads(t) == /\ job[t].pc = "read" /\ job'[t].pc = "save"
            /\ job'[t].contract = job[t].contract /\ job'[t].tries = job[t].tries
            /\ job'[t].outcome = job[t].outcome /\ job'[t].prev = LastLink(job[t].contract)
Retries(t) == /\ job[t].pc = "save" /\ ~LinkFresh(t) /\ job'[t].pc = "read"
              /\ job'[t].contract = job[t].contract /\ job'[t].tries = job[t].tries + 1
              /\ job'[t].outcome = job[t].outcome
Exhausts(t) == /\ job[t].pc = "save" /\ ~LinkFresh(t) /\ job[t].tries + 1 >= MaxAttempts
               /\ job'[t].pc = "exhausted" /\ job'[t].contract = job[t].contract /\ job'[t].tries = 0
Answers(t) == /\ job[t].pc \in {"check", "save"} /\ Settled(job[t].contract) /\ job'[t].pc = "done"
              /\ job'[t].contract = job[t].contract /\ job'[t].tries = 0
              /\ job'[t].answer = ReceiptOf(job[t].contract).sig
Appends(t) == /\ SaveAppends(t)
              /\ job'[t].pc = "done" /\ job'[t].contract = job[t].contract /\ job'[t].tries = 0
              /\ job'[t].answer = Content(t)

Moves(t) == Rests(t) \/ Begins(t) \/ Evaluates(t) \/ Reads(t) \/ Retries(t) \/ Exhausts(t) \/ Answers(t) \/ Appends(t)

\* The content of a receipt is what its settlement found.
LEMMA ContentType ==
    ASSUME TypeOK, Named, NEW t \in Threads, At(t, "save")
    PROVE  Content(t) \in Contents
<1>1. job[t] \in JobRecords /\ job[t].contract \in Contracts /\ job[t].outcome \in SettleOutcomes \cup {Timeout}
  BY DEF TypeOK, JobRecords, Named, At, Busy
<1>2. \A o \in SettleOutcomes \cup {Timeout} :
        o.verdict \in {"CLEAN", "REMEDIATED", "FAILED", "TIMEOUT"} /\ o.results \in SUBSET {"PASS", "FAIL", "SKIP"}
  <2>1. \A r \in Evaluations : ConvertResults(r) \in SUBSET {"PASS", "FAIL", "SKIP"}
    BY SettlementAssumption DEF ConvertResults
  <2> QED BY <2>1 DEF SettleOutcomes, Timeout
<1>3. job[t].prev \in Contracts \cup {None}
  BY <1>1 DEF JobRecords
<1> QED BY <1>1, <1>2, <1>3 DEF Content, Contents

\* A receipt that is found by its contract.
LEMMA ReceiptIs ==
    ASSUME TypeOK, NEW c \in Contracts, Settled(c)
    PROVE  /\ Issued(c, ReceiptOf(c).sig) /\ ReceiptOf(c) \in ReceiptRecords
           /\ ReceiptOf(c).content.contract = c
<1>1. ReceiptOf(c) \in Receipts(c)
  BY DEF Settled, ReceiptOf
<1>2. PICK i \in 1 .. Len(PairOf(c)) : PairOf(c)[i].content.contract = c /\ ReceiptOf(c) = PairOf(c)[i]
  BY <1>1 DEF Receipts
<1>3. PairOf(c) \in Seq(ReceiptRecords)
  BY EmitterIs DEF PairOf, TypeOK
<1> QED BY <1>2, <1>3 DEF Issued

LEMMA EndIs ==
    ASSUME TypeOK, NEW t \in Threads, NEW how \in Ended, NEW x \in Contents \cup {None}, End(t, how, x)
    PROVE  /\ job' \in [Threads -> JobRecords] /\ \A u \in Threads \ {t} : job'[u] = job[u]
           /\ job'[t].tries = 0 /\ job'[t].outcome = Timeout
           /\ t = Reaper => job'[t].pc = "emit"
           /\ t # Reaper => job'[t].pc = how /\ job'[t].contract = job[t].contract /\ job'[t].answer = x
<1>1. job \in [Threads -> JobRecords] /\ 0 \in 0 .. MaxAttempts - 1
  BY SettlementAssumption DEF TypeOK, JobRecords
<1>2. CASE t = Reaper
  <2>1. job' = [job EXCEPT ![t] = Job("emit", None, Timeout, None)]
    BY <1>2 DEF End
  <2>2. Job("emit", None, Timeout, None) \in JobRecords
    BY <1>1 DEF Job, JobRecords
  <2> QED BY <1>1, <1>2, <2>1, <2>2 DEF Job
<1>3. CASE t # Reaper
  <2>1. job' = [job EXCEPT ![t] = Job(how, job[t].contract, Timeout, x)]
    BY <1>3 DEF End
  <2>2. Job(how, job[t].contract, Timeout, x) \in JobRecords
    <3>1. job[t].contract \in Contracts \cup {None}
      BY <1>1 DEF JobRecords
    <3> QED BY <1>1, <3>1 DEF Job, JobRecords
  <2> QED BY <1>1, <1>3, <2>1, <2>2 DEF Job
<1> QED BY <1>2, <1>3

\* A thread that works on an append.
LEMMA AppendMoves ==
    ASSUME TypeOK, Named, NEW t \in Threads, AppendStep(t) \/ OperationFails(t)
    PROVE  /\ job' \in [Threads -> JobRecords] /\ \A u \in Threads \ {t} : job'[u] = job[u]
           /\ Moves(t) /\ (t = Reaper => job'[t].outcome = Timeout)
<1>0. job \in [Threads -> JobRecords] /\ job[t] \in JobRecords
  BY DEF TypeOK, JobRecords
<1>1. CASE CheckExisting(t) \/ SaveDuplicate(t)
  <2>1. job[t].pc \in {"check", "save"} /\ Settled(job[t].contract) /\ job[t].contract \in Contracts
        /\ End(t, "done", ReceiptOf(job[t].contract).sig)
    BY <1>1 DEF CheckExisting, SaveDuplicate, At, Answer, Named, Busy
  <2>2. ReceiptOf(job[t].contract).sig \in Contents \cup {None}
    BY <2>1, ReceiptIs DEF ReceiptRecords
  <2>3. "done" \in Ended
    BY DEF Ended
  <2>4. Rests(t) \/ Answers(t)
    BY <2>1, <2>2, <2>3, EndIs DEF Rests, Answers, Busy
  <2> QED BY <2>1, <2>2, <2>3, <2>4, EndIs DEF Moves
<1>2. CASE Evaluate(t)
  <2>1. PICK outcome \in IF TimingOut(t) THEN {Timeout} ELSE SettleOutcomes :
            job' = [job EXCEPT ![t].outcome = outcome, ![t].pc = "read"]
    BY <1>2 DEF Evaluate
  <2>2. outcome \in SettleOutcomes \cup {Timeout} /\ (t = Reaper => outcome = Timeout)
    BY <2>1 DEF Named, TimingOut
  <2>3. job[t].pc = "check"
    BY <1>2 DEF Evaluate, At
  <2>4. [job[t] EXCEPT !.outcome = outcome, !.pc = "read"] \in JobRecords
    BY <1>0, <2>2 DEF JobRecords
  <2>5. job' = [job EXCEPT ![t] = [job[t] EXCEPT !.outcome = outcome, !.pc = "read"]]
    BY <1>0, <2>1
  <2> QED BY <1>0, <2>2, <2>3, <2>4, <2>5 DEF Evaluates, Moves, JobRecords
<1>3. CASE ReadHead(t)
  <2>1. job[t].pc = "read" /\ job' = [job EXCEPT ![t].prev = LastLink(job[t].contract), ![t].pc = "save"]
    BY <1>3 DEF ReadHead, At
  <2>2. LastLink(job[t].contract) \in Contracts \cup {None}
    <3>1. job[t].contract \in Contracts
      BY <2>1 DEF Named, Busy
    <3>2. PairOf(job[t].contract) \in Seq(ReceiptRecords)
      BY <3>1, EmitterIs DEF PairOf, TypeOK
    <3>3. PairOf(job[t].contract) # <<>> => Last(PairOf(job[t].contract)) \in ReceiptRecords
      BY <3>2 DEF Last
    <3> QED BY <3>3 DEF LastLink, ReceiptRecords, Contents
  <2>3. [job[t] EXCEPT !.prev = LastLink(job[t].contract), !.pc = "save"] \in JobRecords
    BY <1>0, <2>2 DEF JobRecords
  <2>4. job' = [job EXCEPT ![t] = [job[t] EXCEPT !.prev = LastLink(job[t].contract), !.pc = "save"]]
    BY <1>0, <2>1
  <2> QED BY <1>0, <2>1, <2>3, <2>4 DEF Reads, Moves, JobRecords, Named
<1>4. CASE SaveStale(t)
  <2>1. job[t].pc = "save" /\ ~LinkFresh(t) /\ job[t].tries \in 0 .. MaxAttempts - 1
    BY <1>0, <1>4 DEF SaveStale, At, JobRecords
  <2>2. CASE job[t].tries + 1 < MaxAttempts
    <3>1. job' = [job EXCEPT ![t].tries = @ + 1, ![t].pc = "read"]
      BY <1>4, <2>2 DEF SaveStale
    <3>2. job[t].tries + 1 \in 0 .. MaxAttempts - 1
      BY <2>1, <2>2, SettlementAssumption
    <3>3. [job[t] EXCEPT !.tries = job[t].tries + 1, !.pc = "read"] \in JobRecords
      BY <1>0, <3>2 DEF JobRecords
    <3>4. job' = [job EXCEPT ![t] = [job[t] EXCEPT !.tries = job[t].tries + 1, !.pc = "read"]]
      BY <1>0, <3>1
    <3> QED BY <1>0, <2>1, <3>3, <3>4 DEF Retries, Moves, JobRecords, Named
  <2>3. CASE ~(job[t].tries + 1 < MaxAttempts)
    <3>1. End(t, "exhausted", None) /\ "exhausted" \in Ended
      BY <1>4, <2>3 DEF SaveStale, Refuse, Ended
    <3>2. job[t].tries + 1 >= MaxAttempts
      BY <2>1, <2>3, SettlementAssumption
    <3>3. Rests(t) \/ Exhausts(t)
      BY <2>1, <3>1, <3>2, EndIs DEF Rests, Exhausts, Busy
    <3> QED BY <3>1, <3>3, EndIs DEF Moves
  <2> QED BY <2>2, <2>3
<1>5. CASE SaveAppends(t)
  <2>1. End(t, "done", Content(t)) /\ "done" \in Ended
    BY <1>5 DEF SaveAppends, Answer, SignReceipt, Ended
  <2>2. Content(t) \in Contents \cup {None}
    BY <1>5, ContentType DEF SaveAppends
  <2>3. Rests(t) \/ Appends(t)
    BY <1>5, <2>1, <2>2, EndIs DEF Rests, Appends, Busy
  <2> QED BY <2>1, <2>2, <2>3, EndIs DEF Moves
<1>6. CASE OperationFails(t)
  <2>1. End(t, "failed", None) /\ "failed" \in Ended
    BY <1>6 DEF OperationFails, Refuse, Ended
  <2>2. Rests(t)
    BY <2>1, EndIs DEF Rests, Busy
  <2> QED BY <2>1, <2>2, EndIs DEF Moves
<1> QED BY <1>1, <1>2, <1>3, <1>4, <1>5, <1>6 DEF AppendStep

\* Requests to settle.
LEMMA SettleMoves ==
    ASSUME TypeOK, Named, NEW t \in Settlers, SettleStep(t)
    PROVE  /\ job' \in [Threads -> JobRecords] /\ \A u \in Threads \ {t} : job'[u] = job[u]
           /\ Moves(t) /\ job[t].pc = "idle"
<1>0. job \in [Threads -> JobRecords] /\ t \in Threads /\ job[t] \in JobRecords /\ 0 \in 0 .. MaxAttempts - 1
  BY SettlementAssumption DEF TypeOK, JobRecords, Threads
<1>1. PICK c \in Contracts, l \in LeaseIds \cup {None} : Settle(t, c, l)
  BY DEF SettleStep
<1>2. job[t].pc = "idle"
  BY <1>1 DEF Settle, At
<1>3. CASE job' = [job EXCEPT ![t].pc = "refused", ![t].contract = c]
  <2>1. [job[t] EXCEPT !.pc = "refused", !.contract = c] \in JobRecords
    BY <1>0 DEF JobRecords, Ended
  <2>2. job' = [job EXCEPT ![t] = [job[t] EXCEPT !.pc = "refused", !.contract = c]]
    BY <1>0, <1>3
  <2>3. job'[t].pc = "refused" /\ job'[t].tries = job[t].tries /\ job[t].tries = 0
    BY <1>0, <1>2, <2>1, <2>2 DEF JobRecords, Named
  <2> QED BY <1>0, <1>2, <2>1, <2>2, <2>3 DEF Rests, Moves, Busy
<1>4. ASSUME NEW o \in {Timeout, None}, Begin(t, c, o)
      PROVE  /\ job' \in [Threads -> JobRecords] /\ \A u \in Threads \ {t} : job'[u] = job[u]
             /\ Moves(t)
  <2>1. Job("check", c, o, None) \in JobRecords
    BY <1>0 DEF Job, JobRecords
  <2>2. job' = [job EXCEPT ![t] = Job("check", c, o, None)]
    BY <1>4 DEF Begin
  <2> QED BY <1>0, <2>1, <2>2 DEF Job, Begins, Moves
<1> QED BY <1>1, <1>2, <1>3, <1>4 DEF Settle

\* The reaper's own steps.
LEMMA ReaperMoves ==
    ASSUME TypeOK, Named, ReaperStep
    PROVE  /\ job' \in [Threads -> JobRecords] /\ \A u \in Threads \ {Reaper} : job'[u] = job[u]
           /\ Moves(Reaper) /\ job'[Reaper].outcome = Timeout /\ job[Reaper].pc \in {"idle", "confirm", "emit"}
<1>0. job \in [Threads -> JobRecords] /\ Reaper \in Threads /\ job[Reaper] \in JobRecords /\ 0 \in 0 .. MaxAttempts - 1
  BY SettlementAssumption DEF TypeOK, JobRecords, Threads
<1>1. ASSUME NEW where \in {"confirm", "emit"}, job' = [job EXCEPT ![Reaper].pc = where]
      PROVE  /\ job' \in [Threads -> JobRecords] /\ \A u \in Threads \ {Reaper} : job'[u] = job[u]
             /\ Moves(Reaper) /\ job'[Reaper].outcome = Timeout
  <2>1. [job[Reaper] EXCEPT !.pc = where] \in JobRecords
    BY <1>0 DEF JobRecords
  <2>2. job' = [job EXCEPT ![Reaper] = [job[Reaper] EXCEPT !.pc = where]]
    BY <1>0, <1>1
  <2> QED BY <1>0, <2>1, <2>2 DEF Rests, Moves, Busy, Named, JobRecords
<1>2. CASE SnapshotExpiredLeases \/ ConfirmAndPurge
  BY <1>1, <1>2 DEF SnapshotExpiredLeases, ConfirmAndPurge, At
<1>3. CASE EmitNext
  <2>1. ASSUME NEW s \in todo, job' = [job EXCEPT ![Reaper] = Job("check", LeaseFor[s.lease], Timeout, None)]
        PROVE  /\ job' \in [Threads -> JobRecords] /\ \A u \in Threads \ {Reaper} : job'[u] = job[u]
               /\ Moves(Reaper) /\ job'[Reaper].outcome = Timeout
    <3>1. LeaseFor[s.lease] \in Contracts
      BY SettlementAssumption DEF TypeOK
    <3>2. Job("check", LeaseFor[s.lease], Timeout, None) \in JobRecords
      BY <1>0, <3>1 DEF Job, JobRecords
    <3> QED BY <1>0, <2>1, <3>1, <3>2 DEF Job, Begins, Moves
  <2>2. ASSUME job' = [job EXCEPT ![Reaper] = Idle]
        PROVE  /\ job' \in [Threads -> JobRecords] /\ \A u \in Threads \ {Reaper} : job'[u] = job[u]
               /\ Moves(Reaper) /\ job'[Reaper].outcome = Timeout
    <3>1. Idle \in JobRecords
      BY <1>0 DEF Job, Idle, JobRecords
    <3> QED BY <1>0, <2>2, <3>1 DEF Job, Idle, Rests, Moves, Busy
  <2> QED BY <1>3, <2>1, <2>2 DEF EmitNext, At
<1> QED BY <1>2, <1>3 DEF ReaperStep

LEMMA CrashMoves ==
    ASSUME TypeOK, Named, Crash
    PROVE  /\ job' \in [Threads -> JobRecords]
           /\ \A t \in Threads : job'[t] = job[t] \/ Moves(t)
           /\ job'[Reaper].outcome = Timeout
<1>0. job \in [Threads -> JobRecords] /\ Reaper \in Threads /\ 0 \in 0 .. MaxAttempts - 1
  BY SettlementAssumption DEF TypeOK, JobRecords, Threads
<1>1. \A t \in Threads : job'[t] = IF t = Reaper THEN Idle
                                   ELSE IF job[t].pc \in {"idle"} \cup Ended THEN job[t]
                                   ELSE Job("failed", job[t].contract, Timeout, None)
  BY DEF Crash
<1>2. Idle \in JobRecords
  BY <1>0 DEF Job, Idle, JobRecords
<1>3. ASSUME NEW t \in Threads PROVE Job("failed", job[t].contract, Timeout, None) \in JobRecords
  <2>1. job[t].contract \in Contracts \cup {None}
    BY <1>0 DEF JobRecords
  <2> QED BY <1>0, <2>1 DEF Job, JobRecords, Ended
<1>4. job' \in [Threads -> JobRecords]
  <2>1. \A t \in Threads : job'[t] \in JobRecords
    BY <1>0, <1>1, <1>2, <1>3
  <2> QED BY <2>1 DEF Crash
<1>5. ASSUME NEW t \in Threads PROVE job'[t] = job[t] \/ Moves(t)
  <2>1. CASE t = Reaper
    <3>1. job'[t] = Idle
      BY <1>1, <2>1
    <3> QED BY <3>1 DEF Idle, Job, Rests, Busy, Moves
  <2>2. CASE t # Reaper /\ job[t].pc \notin {"idle"} \cup Ended
    <3>1. job'[t] = Job("failed", job[t].contract, Timeout, None)
      BY <1>1, <2>2
    <3> QED BY <3>1 DEF Job, Rests, Busy, Moves
  <2> QED BY <1>1, <2>1, <2>2
<1>6. job'[Reaper].outcome = Timeout
  <2>1. job'[Reaper] = Idle
    BY <1>0, <1>1
  <2> QED BY <2>1 DEF Idle, Job
<1> QED BY <1>4, <1>5, <1>6

\* All of them together.
LEMMA ThreadMoves ==
    ASSUME TypeOK, Named, [Next]_vars
    PROVE  /\ job' \in [Threads -> JobRecords]
           /\ \A t \in Threads : job'[t] = job[t] \/ Moves(t)
           /\ job'[Reaper].outcome = Timeout
<1>0. job \in [Threads -> JobRecords] /\ Reaper \in Threads /\ Settlers \subseteq Threads /\ job[Reaper].outcome = Timeout
  BY DEF TypeOK, JobRecords, Threads, Named
<1>1. ASSUME NEW t \in Threads, AppendStep(t) \/ OperationFails(t)
      PROVE  /\ job' \in [Threads -> JobRecords] /\ \A u \in Threads : job'[u] = job[u] \/ Moves(u)
             /\ job'[Reaper].outcome = Timeout
  BY <1>0, <1>1, AppendMoves
<1>2. ASSUME NEW t \in Settlers, SettleStep(t)
      PROVE  /\ job' \in [Threads -> JobRecords] /\ \A u \in Threads : job'[u] = job[u] \/ Moves(u)
             /\ job'[Reaper].outcome = Timeout
  BY <1>0, <1>2, SettleMoves, SettlementAssumption
<1>3. CASE ReaperStep
  BY <1>0, <1>3, ReaperMoves
<1>4. CASE Crash
  BY <1>4, CrashMoves
<1>5. ASSUME NEW l \in LeaseIds, LeaseStep(l) PROVE UNCHANGED job
  BY <1>5 DEF LeaseStep, SubmitEnvelope, CreateLease, StoreLease, LeaseExpires
<1>6. ASSUME NEW d \in Deciders, RulingStep(d) PROVE UNCHANGED job
  BY <1>6 DEF RulingStep, UpdateReceipt, UpdateFails, ReadStored
<1>7. CASE UNCHANGED vars
  BY <1>0, <1>7 DEF vars
<1> QED BY <1>0, <1>1, <1>2, <1>3, <1>4, <1>5, <1>6, <1>7 DEF Next

-----------------------------------------------------------------------------
(* What a step does to the chains.                                         *)

\* A receipt that was issued keeps its place, its content and its signature.
Kept ==
    \A e \in Emitters :
        /\ Len(chain[e]) \in Nat /\ Len(chain'[e]) \in Nat /\ Len(chain[e]) <= Len(chain'[e])
        /\ \A i \in 1 .. Len(chain[e]) : chain'[e][i].content = chain[e][i].content /\ chain'[e][i].sig = chain[e][i].sig

\* The new receipt of a settlement.
LEMMA AppendIs ==
    ASSUME TypeOK, Named, NEW t \in Threads, SaveAppends(t)
    PROVE  LET c == job[t].contract
               e == EmitterOf[c]
               n == Len(chain[e])
           IN  /\ c \in Contracts /\ e \in Emitters /\ n \in Nat
               /\ NewReceipt(t) \in ReceiptRecords
               /\ chain' = [chain EXCEPT ![e] = Append(@, NewReceipt(t))]
               /\ chain' \in [Emitters -> Seq(ReceiptRecords)]
               /\ Len(chain'[e]) = n + 1 /\ chain'[e][n + 1] = NewReceipt(t)
               /\ \A i \in 1 .. n : chain'[e][i] = chain[e][i]
               /\ \A f \in Emitters \ {e} : chain'[f] = chain[f]
<1> DEFINE c == job[t].contract
           e == EmitterOf[c]
           n == Len(chain[e])
<1>1. c \in Contracts /\ At(t, "save")
  BY DEF SaveAppends, Named, Busy, At
<1>2. e \in Emitters /\ chain[e] \in Seq(ReceiptRecords) /\ n \in Nat
  BY <1>1, EmitterIs DEF TypeOK
<1>3. NewReceipt(t) \in ReceiptRecords
  <2>1. Content(t) \in Contents
    BY <1>1, ContentType
  <2>2. Len(PairOf(c)) + 1 \in Nat
    BY <1>2 DEF PairOf
  <2> QED BY <2>1, <2>2 DEF NewReceipt, SignReceipt, ReceiptRecords, Decisions
<1>4. chain' = [chain EXCEPT ![e] = Append(@, NewReceipt(t))]
  BY DEF SaveAppends
<1>5. chain'[e] = Append(chain[e], NewReceipt(t))
  BY <1>2, <1>4 DEF TypeOK
<1>6. /\ chain'[e] \in Seq(ReceiptRecords) /\ Len(chain'[e]) = n + 1 /\ chain'[e][n + 1] = NewReceipt(t)
      /\ \A i \in 1 .. n : chain'[e][i] = chain[e][i]
  BY <1>2, <1>3, <1>5, AppendProperties
<1>7. chain' \in [Emitters -> Seq(ReceiptRecords)] /\ \A f \in Emitters \ {e} : chain'[f] = chain[f]
  BY <1>2, <1>4, <1>5, <1>6 DEF TypeOK
<1> QED BY <1>1, <1>2, <1>3, <1>4, <1>6, <1>7

LEMMA RuledIs ==
    ASSUME NEW r \in ReceiptRecords, NEW x \in Decisions
    PROVE  /\ Ruled(r, x) \in ReceiptRecords /\ Ruled(r, x).content = r.content /\ Ruled(r, x).sig = r.sig
           /\ Ruled(r, x).seq = r.seq /\ Ruled(r, x).signed = EmitterContent(Ruled(r, x))
<1> DEFINE y == [content |-> r.content, sig |-> r.sig, seq |-> r.seq, decision |-> x,
                 reason |-> (x = "DISPUTED"), signed |-> <<r.content, x, x = "DISPUTED">>]
           u == [r EXCEPT !.decision = x, !.reason = (x = "DISPUTED")]
<1>0. /\ u \in ReceiptRecords /\ u.content = r.content /\ u.sig = r.sig /\ u.seq = r.seq
      /\ u.decision = x /\ u.reason = (x = "DISPUTED")
  BY DEF ReceiptRecords
<1>1. Ruled(r, x) = y
  <2>1. Ruled(r, x) = [u EXCEPT !.signed = EmitterContent(u)]
    BY DEF Ruled
  <2>2. EmitterContent(u) = <<r.content, x, x = "DISPUTED">>
    BY <1>0 DEF EmitterContent
  <2> HIDE DEF u
  <2> QED BY <1>0, <2>1, <2>2 DEF ReceiptRecords
<1>2. y \in ReceiptRecords
  BY DEF ReceiptRecords
<1> QED BY <1>1, <1>2 DEF EmitterContent

\* A ruling signs the receipt of its contract and no other.
LEMMA RulingIs ==
    ASSUME TypeOK, Named, NEW d \in Deciders, UpdateReceipt(d)
    PROVE  LET c == ruling[d].contract
               e == EmitterOf[c]
           IN  /\ c \in Contracts /\ e \in Emitters
               /\ chain' \in [Emitters -> Seq(ReceiptRecords)]
               /\ Len(chain'[e]) = Len(chain[e]) /\ Len(chain[e]) \in Nat
               /\ \A i \in 1 .. Len(chain[e]) :
                      \/ chain'[e][i] = chain[e][i]
                      \/ chain'[e][i] = Ruled(chain[e][i], ruling[d].decision)
               /\ \A f \in Emitters \ {e} : chain'[f] = chain[f]
               /\ ruling[d].decision \in Decisions
<1> DEFINE c == ruling[d].contract
           e == EmitterOf[c]
           x == ruling[d].decision
           s == [i \in DOMAIN chain[e] |-> IF chain[e][i].content.contract = c THEN Ruled(chain[e][i], x) ELSE chain[e][i]]
<1>1. c \in Contracts /\ e \in Emitters /\ x \in Decisions /\ chain[e] \in Seq(ReceiptRecords)
  BY EmitterIs DEF UpdateReceipt, Named, TypeOK
<1>2. chain' = [chain EXCEPT ![e] = s]
  BY <1>1 DEF UpdateReceipt, TypeOK
<1>3. DOMAIN chain[e] = 1 .. Len(chain[e]) /\ Len(chain[e]) \in Nat /\ \A i \in 1 .. Len(chain[e]) : chain[e][i] \in ReceiptRecords
  BY <1>1
<1>4. s \in [1 .. Len(chain[e]) -> ReceiptRecords]
  BY <1>1, <1>3, RuledIs
<1>5. s \in Seq(ReceiptRecords) /\ Len(s) = Len(chain[e])
  BY <1>3, <1>4, SMTT(30)
<1> HIDE DEF s
<1>6. chain'[e] = s /\ chain' \in [Emitters -> Seq(ReceiptRecords)] /\ \A f \in Emitters \ {e} : chain'[f] = chain[f]
  BY <1>1, <1>2, <1>5 DEF TypeOK
<1>7. \A i \in 1 .. Len(chain[e]) : s[i] = chain[e][i] \/ s[i] = Ruled(chain[e][i], x)
  BY <1>3 DEF s
<1> QED BY <1>1, <1>3, <1>5, <1>6, <1>7

\* Nobody else writes to a chain.
LEMMA ChainWriters ==
    ASSUME [Next]_vars, \A t \in Threads : ~SaveAppends(t), \A d \in Deciders : ~UpdateReceipt(d)
    PROVE  UNCHANGED chain
<1>1. ASSUME NEW t \in Threads, AppendStep(t) \/ OperationFails(t) PROVE UNCHANGED chain
  BY <1>1 DEF AppendStep, CheckExisting, Evaluate, ReadHead, SaveStale, SaveDuplicate, OperationFails
<1>2. ASSUME NEW t \in Settlers, SettleStep(t) PROVE UNCHANGED chain
  BY <1>2 DEF SettleStep, Settle
<1>3. ASSUME ReaperStep \/ Crash \/ UNCHANGED vars PROVE UNCHANGED chain
  BY <1>3 DEF ReaperStep, SnapshotExpiredLeases, ConfirmAndPurge, EmitNext, Crash, vars
<1>4. ASSUME NEW l \in LeaseIds, LeaseStep(l) PROVE UNCHANGED chain
  BY <1>4 DEF LeaseStep, SubmitEnvelope, CreateLease, StoreLease, LeaseExpires
<1>5. ASSUME NEW d \in Deciders, RulingStep(d) PROVE UNCHANGED chain
  BY <1>5 DEF RulingStep, UpdateFails, ReadStored
<1> QED BY <1>1, <1>2, <1>3, <1>4, <1>5 DEF Next

LEMMA ChainKept ==
    ASSUME TypeOK, Named, [Next]_vars
    PROVE  Kept /\ chain' \in [Emitters -> Seq(ReceiptRecords)]
<1>0. \A e \in Emitters : Len(chain[e]) \in Nat /\ chain[e] \in Seq(ReceiptRecords)
  BY DEF TypeOK
<1>1. ASSUME NEW t \in Threads, SaveAppends(t) PROVE Kept /\ chain' \in [Emitters -> Seq(ReceiptRecords)]
  BY <1>0, <1>1, AppendIs, SMTT(30) DEF Kept
<1>2. ASSUME NEW d \in Deciders, UpdateReceipt(d) PROVE Kept /\ chain' \in [Emitters -> Seq(ReceiptRecords)]
  <2>1. \A e \in Emitters : \A i \in 1 .. Len(chain[e]) : chain[e][i] \in ReceiptRecords
    BY <1>0
  <2>2. PICK e \in Emitters : /\ Len(chain'[e]) = Len(chain[e])
                              /\ \A i \in 1 .. Len(chain[e]) : \/ chain'[e][i] = chain[e][i]
                                                               \/ chain'[e][i] = Ruled(chain[e][i], ruling[d].decision)
                              /\ \A f \in Emitters \ {e} : chain'[f] = chain[f]
                              /\ ruling[d].decision \in Decisions
    BY <1>2, RulingIs
  <2>3. \A i \in 1 .. Len(chain[e]) : chain'[e][i].content = chain[e][i].content /\ chain'[e][i].sig = chain[e][i].sig
    BY <2>1, <2>2, RuledIs
  <2>4. chain' \in [Emitters -> Seq(ReceiptRecords)]
    BY <1>2, RulingIs
  <2>5. ASSUME NEW f \in Emitters
        PROVE  /\ Len(chain[f]) \in Nat /\ Len(chain'[f]) \in Nat /\ Len(chain[f]) <= Len(chain'[f])
               /\ \A i \in 1 .. Len(chain[f]) : chain'[f][i].content = chain[f][i].content /\ chain'[f][i].sig = chain[f][i].sig
    <3>1. CASE f = e
      BY <1>0, <2>2, <2>3, <3>1
    <3>2. CASE f # e
      <4>1. chain'[f] = chain[f] /\ Len(chain[f]) \in Nat
        BY <1>0, <2>2, <3>2
      <4> QED BY <4>1
    <3> QED BY <3>1, <3>2
  <2> QED BY <2>4, <2>5 DEF Kept
<1>3. CASE UNCHANGED chain
  BY <1>0, <1>3 DEF Kept, TypeOK
<1> QED BY <1>1, <1>2, <1>3, ChainWriters

-----------------------------------------------------------------------------
(* The invariants are kept.                                                *)

\* What is left of TypeOK: leases, rulings, the reaper's list and the mutex.
LEMMA RulingStepIs ==
    ASSUME TypeOK, Named, [Next]_vars
    PROVE  /\ ruling' \in [Deciders -> [pc : {"idle", "write", "done"}, contract : Contracts \cup {None}, decision : Decisions]]
           /\ \A d \in Deciders : ruling'[d].pc = "write" => ruling'[d].contract \in Contracts
<1> DEFINE R == [pc : {"idle", "write", "done"}, contract : Contracts \cup {None}, decision : Decisions]
<1>0. ruling \in [Deciders -> R]
  BY DEF TypeOK
<1>1. CASE UNCHANGED ruling
  BY <1>0, <1>1 DEF Named
<1>2. ASSUME NEW d \in Deciders, NEW c \in Contracts, NEW x \in {"ACCEPTED", "DISPUTED"}, ReadStored(d, c, x)
      PROVE  ruling' \in [Deciders -> R] /\ \A e \in Deciders : ruling'[e].pc = "write" => ruling'[e].contract \in Contracts
  <2>1. PICK p \in {"done", "write"} : ruling' = [ruling EXCEPT ![d] = [pc |-> p, contract |-> c, decision |-> x]]
    BY <1>2 DEF ReadStored
  <2>2. [pc |-> p, contract |-> c, decision |-> x] \in R
    BY DEF Decisions
  <2> QED BY <1>0, <2>1, <2>2 DEF Named
<1>3. ASSUME NEW d \in Deciders, UpdateReceipt(d) \/ UpdateFails(d)
      PROVE  ruling' \in [Deciders -> R] /\ \A e \in Deciders : ruling'[e].pc = "write" => ruling'[e].contract \in Contracts
  <2>1. ruling' = [ruling EXCEPT ![d].pc = "done"]
    BY <1>3 DEF UpdateReceipt, UpdateFails
  <2>2. [ruling[d] EXCEPT !.pc = "done"] \in R
    BY <1>0
  <2>3. ruling' = [ruling EXCEPT ![d] = [ruling[d] EXCEPT !.pc = "done"]]
    BY <1>0, <2>1
  <2> QED BY <1>0, <2>2, <2>3 DEF Named
<1>4. CASE Crash
  <2>1. ruling' = [d \in Deciders |-> IF ruling[d].pc = "idle" THEN ruling[d] ELSE [ruling[d] EXCEPT !.pc = "done"]]
    BY <1>4 DEF Crash
  <2>2. \A d \in Deciders : [ruling[d] EXCEPT !.pc = "done"] \in R /\ [ruling[d] EXCEPT !.pc = "done"].pc = "done"
    BY <1>0
  <2>3. \A d \in Deciders : ruling'[d] \in R /\ (ruling'[d].pc = "idle" \/ ruling'[d].pc = "done")
    BY <1>0, <2>1, <2>2
  <2> QED BY <2>1, <2>3
<1>5. ASSUME NEW t \in Threads, AppendStep(t) \/ OperationFails(t) PROVE UNCHANGED ruling
  BY <1>5 DEF AppendStep, CheckExisting, Evaluate, ReadHead, SaveStale, SaveDuplicate, SaveAppends, OperationFails
<1>6. ASSUME NEW t \in Settlers, SettleStep(t) PROVE UNCHANGED ruling
  BY <1>6 DEF SettleStep, Settle
<1>7. ASSUME ReaperStep \/ UNCHANGED vars PROVE UNCHANGED ruling
  BY <1>7 DEF ReaperStep, SnapshotExpiredLeases, ConfirmAndPurge, EmitNext, vars
<1>8. ASSUME NEW l \in LeaseIds, LeaseStep(l) PROVE UNCHANGED ruling
  BY <1>8 DEF LeaseStep, SubmitEnvelope, CreateLease, StoreLease, LeaseExpires
<1> QED BY <1>1, <1>2, <1>3, <1>4, <1>5, <1>6, <1>7, <1>8 DEF Next, RulingStep

LEMMA LeaseTypes ==
    ASSUME TypeOK, [Next]_vars
    PROVE  /\ leases' \in [LeaseIds -> {None} \cup [accepted : BOOLEAN, expired : BOOLEAN, held : BOOLEAN]]
           /\ enveloped' \subseteq Contracts /\ todo' \subseteq [lease : LeaseIds, known : BOOLEAN]
           /\ faults' \in 0 .. MaxFaults
<1> DEFINE L == [accepted : BOOLEAN, expired : BOOLEAN, held : BOOLEAN]
           T == [lease : LeaseIds, known : BOOLEAN]
<1>0. leases \in [LeaseIds -> {None} \cup L] /\ enveloped \subseteq Contracts /\ todo \subseteq T /\ faults \in 0 .. MaxFaults
  BY DEF TypeOK
<1>1. faults' = faults \/ Fault => faults' \in 0 .. MaxFaults
  BY <1>0, SettlementAssumption DEF Fault
<1>2. ASSUME NEW x \in L PROVE [x EXCEPT !.held = FALSE] \in L /\ [x EXCEPT !.expired = TRUE] \in L
  OBVIOUS
<1> SUFFICES leases' \in [LeaseIds -> {None} \cup L] /\ enveloped' \subseteq Contracts /\ todo' \subseteq T /\ faults' \in 0 .. MaxFaults
  OBVIOUS
<1> HIDE DEF L, T
<1>3. ASSUME NEW l \in LeaseIds, LeaseStep(l)
      PROVE  leases' \in [LeaseIds -> {None} \cup L] /\ enveloped' \subseteq Contracts /\ UNCHANGED <<todo, faults>>
  <2>1. ASSUME NEW a, StoreLease(l, a), a \in BOOLEAN
        PROVE  leases' \in [LeaseIds -> {None} \cup L] /\ enveloped' \subseteq Contracts /\ UNCHANGED <<todo, faults>>
    <3>1. [accepted |-> a, expired |-> FALSE, held |-> TRUE] \in L
      BY <2>1 DEF L
    <3> QED BY <1>0, <2>1, <3>1, SettlementAssumption DEF StoreLease
  <2>2. \A g \in BOOLEAN, h \in SUBSET BOOLEAN : LeaseAccepted(g, h) \in BOOLEAN
    BY Zenon DEF LeaseAccepted
  <2>3. CASE SubmitEnvelope(l) \/ CreateLease(l)
    BY <2>1, <2>2, <2>3 DEF SubmitEnvelope, CreateLease
  <2>4. CASE LeaseExpires(l)
    <3>1. leases[l] \in L /\ leases' = [leases EXCEPT ![l].expired = TRUE] /\ UNCHANGED <<enveloped, todo, faults>>
      BY <1>0, <2>4 DEF LeaseExpires, Held
    <3>2. leases' = [leases EXCEPT ![l] = [leases[l] EXCEPT !.expired = TRUE]]
      BY <1>0, <3>1
    <3> QED BY <1>0, <1>2, <3>1, <3>2
  <2> QED BY <1>3, <2>3, <2>4 DEF LeaseStep
<1>4. CASE ReaperStep
  <2>1. faults' = faults
    BY <1>4 DEF ReaperStep, SnapshotExpiredLeases, ConfirmAndPurge, EmitNext
  <2>2. CASE SnapshotExpiredLeases
    <3>1. UNCHANGED <<leases, enveloped>>
          /\ todo' = {[lease |-> l, known |-> LeaseFor[l] \in enveloped] : l \in {l \in LeaseIds : Held(l) /\ Expired(l)}}
      BY <2>2 DEF SnapshotExpiredLeases, leaseVars
    <3>2. \A l \in LeaseIds : (LeaseFor[l] \in enveloped) \in BOOLEAN
      OBVIOUS
    <3>3. \A l \in LeaseIds : [lease |-> l, known |-> LeaseFor[l] \in enveloped] \in T
      BY <3>2 DEF T
    <3>4. todo' \subseteq T
      BY <3>1, <3>3
    <3> QED BY <1>0, <1>1, <2>1, <3>1, <3>4
  <2>3. CASE ConfirmAndPurge
    <3>1. todo' \subseteq todo /\ enveloped' \subseteq enveloped
      BY <2>3 DEF ConfirmAndPurge
    <3>2. PICK gone \in SUBSET {s \in todo : Held(s.lease)} :
             leases' = [l \in LeaseIds |-> IF \E s \in gone : s.lease = l
                                          THEN [leases[l] EXCEPT !.held = FALSE] ELSE leases[l]]
      BY <2>3 DEF ConfirmAndPurge
    <3>3. \A l \in LeaseIds : leases'[l] \in {None} \cup L
      <4> SUFFICES ASSUME NEW l \in LeaseIds PROVE leases'[l] \in {None} \cup L
        OBVIOUS
      <4>1. CASE \E s \in gone : s.lease = l
        <5>1. leases[l] \in L
          BY <1>0, <3>2, <4>1 DEF Held
        <5> QED BY <1>2, <3>2, <4>1, <5>1
      <4>2. CASE ~\E s \in gone : s.lease = l
        BY <1>0, <3>2, <4>2
      <4> QED BY <4>1, <4>2
    <3>4. leases' \in [LeaseIds -> {None} \cup L]
      BY <3>2, <3>3
    <3> QED BY <1>0, <1>1, <2>1, <3>1, <3>4
  <2>4. CASE EmitNext
    <3>1. UNCHANGED <<leases, enveloped>> /\ todo' \subseteq todo
      BY <2>4 DEF EmitNext, leaseVars
    <3> QED BY <1>0, <1>1, <2>1, <3>1
  <2> QED BY <1>4, <2>2, <2>3, <2>4 DEF ReaperStep
<1>5. CASE Crash
  <2>1. \A l \in LeaseIds : leases'[l] \in {None} \cup L
    <3> SUFFICES ASSUME NEW l \in LeaseIds PROVE leases'[l] \in {None} \cup L
      OBVIOUS
    <3>1. leases'[l] = IF Held(l) THEN [leases[l] EXCEPT !.held = FALSE] ELSE leases[l]
      BY <1>5 DEF Crash
    <3>2. CASE Held(l)
      <4>1. leases[l] \in L
        BY <1>0, <3>2 DEF Held
      <4> QED BY <1>2, <3>1, <3>2, <4>1
    <3>3. CASE ~Held(l)
      BY <1>0, <3>1, <3>3
    <3> QED BY <3>2, <3>3
  <2>2. leases' \in [LeaseIds -> {None} \cup L]
    BY <1>5, <2>1 DEF Crash
  <2> QED BY <1>1, <1>5, <2>2 DEF Crash
<1>6. ASSUME NEW t \in Threads, AppendStep(t) \/ OperationFails(t)
      PROVE  UNCHANGED <<leases, enveloped, todo>> /\ (faults' = faults \/ Fault)
  BY <1>6 DEF AppendStep, CheckExisting, Evaluate, ReadHead, SaveStale, SaveDuplicate, SaveAppends, OperationFails, leaseVars
<1>7. ASSUME NEW t \in Settlers, SettleStep(t) PROVE UNCHANGED <<leases, enveloped, todo, faults>>
  BY <1>7 DEF SettleStep, Settle, leaseVars
<1>8. ASSUME NEW d \in Deciders, RulingStep(d) PROVE UNCHANGED <<leases, enveloped, todo>> /\ (faults' = faults \/ Fault)
  BY <1>8 DEF RulingStep, UpdateReceipt, UpdateFails, ReadStored, leaseVars
<1>9. ASSUME UNCHANGED vars PROVE UNCHANGED <<leases, enveloped, todo, faults>>
  BY <1>9 DEF vars
<1> QED BY <1>0, <1>1, <1>3, <1>4, <1>5, <1>6, <1>7, <1>8, <1>9 DEF Next

\* The engine's mutex is held by a settlement between its read and its save.
LEMMA MutexStep ==
    ASSUME TypeOK, Named, [Next]_vars
    PROVE  chainMu' \in Settlers \cup {None} /\ (chainMu' # None => job'[chainMu'].pc = "save")
<1>0. /\ chainMu \in Settlers \cup {None} /\ (chainMu # None => job[chainMu].pc = "save" /\ chainMu \in Threads)
      /\ Reaper \notin Settlers /\ None \notin Settlers
  BY SettlementAssumption DEF TypeOK, At, Threads
<1>1. ASSUME chainMu' = chainMu, chainMu # None => job'[chainMu] = job[chainMu]
      PROVE  chainMu' \in Settlers \cup {None} /\ (chainMu' # None => job'[chainMu'].pc = "save")
  BY <1>0, <1>1
<1>2. ASSUME NEW t \in Threads, \A u \in Threads \ {t} : job'[u] = job[u], Unlock(t)
      PROVE  chainMu' \in Settlers \cup {None} /\ (chainMu' # None => job'[chainMu'].pc = "save")
  BY <1>0, <1>2 DEF Unlock
<1>3. ASSUME NEW t \in Threads, AppendStep(t) \/ OperationFails(t)
      PROVE  chainMu' \in Settlers \cup {None} /\ (chainMu' # None => job'[chainMu'].pc = "save")
  <2>0. \A u \in Threads \ {t} : job'[u] = job[u]
    BY <1>3, AppendMoves
  <2>1. CASE CheckExisting(t) \/ Evaluate(t)
    <3>1. UNCHANGED chainMu /\ job[t].pc = "check"
      BY <2>1 DEF CheckExisting, Evaluate, At
    <3> QED BY <1>0, <1>1, <2>0, <3>1
  <2>2. CASE ReadHead(t) /\ TimingOut(t)
    <3>1. UNCHANGED chainMu /\ job[t].pc = "read"
      BY <2>2 DEF ReadHead, At
    <3> QED BY <1>0, <1>1, <2>0, <3>1
  <2>3. CASE ReadHead(t) /\ ~TimingOut(t)
    <3>1. chainMu' = t /\ t \in Settlers
      BY <2>3 DEF ReadHead, Named, TimingOut, Threads
    <3>2. job'[t].pc = "save"
      <4>1. job' = [job EXCEPT ![t].prev = LastLink(job[t].contract), ![t].pc = "save"]
        BY <2>3 DEF ReadHead
      <4>2. job \in [Threads -> JobRecords]
        BY DEF TypeOK, JobRecords
      <4> QED BY <4>1, <4>2 DEF JobRecords
    <3> QED BY <3>1, <3>2
  <2>4. CASE SaveStale(t) \/ SaveDuplicate(t) \/ SaveAppends(t) \/ OperationFails(t)
    BY <1>2, <2>0, <2>4 DEF SaveStale, SaveDuplicate, SaveAppends, OperationFails
  <2> QED BY <1>3, <2>1, <2>2, <2>3, <2>4 DEF AppendStep
<1>4. ASSUME NEW t \in Settlers, SettleStep(t)
      PROVE  chainMu' \in Settlers \cup {None} /\ (chainMu' # None => job'[chainMu'].pc = "save")
  <2>1. UNCHANGED chainMu /\ job[t].pc = "idle" /\ \A u \in Threads \ {t} : job'[u] = job[u]
    BY <1>4, SettleMoves DEF SettleStep, Settle
  <2> QED BY <1>0, <1>1, <2>1
<1>5. CASE ReaperStep
  <2>1. UNCHANGED chainMu /\ \A u \in Threads \ {Reaper} : job'[u] = job[u]
    BY <1>5, ReaperMoves DEF ReaperStep, SnapshotExpiredLeases, ConfirmAndPurge, EmitNext
  <2> QED BY <1>0, <1>1, <2>1
<1>6. CASE Crash
  BY <1>0, <1>6 DEF Crash
<1>7. ASSUME NEW l \in LeaseIds, LeaseStep(l) PROVE UNCHANGED <<chainMu, job>>
  BY <1>7 DEF LeaseStep, SubmitEnvelope, CreateLease, StoreLease, LeaseExpires
<1>8. ASSUME NEW d \in Deciders, RulingStep(d) PROVE UNCHANGED <<chainMu, job>>
  BY <1>8 DEF RulingStep, UpdateReceipt, UpdateFails, ReadStored
<1>9. ASSUME UNCHANGED vars PROVE UNCHANGED <<chainMu, job>>
  BY <1>9 DEF vars
<1> QED BY <1>1, <1>3, <1>4, <1>5, <1>6, <1>7, <1>8, <1>9 DEF Next

LEMMA TypeStep == TypeOK /\ Named /\ [Next]_vars => TypeOK'
<1> SUFFICES ASSUME TypeOK, Named, [Next]_vars PROVE TypeOK'
  OBVIOUS
<1>1. chain' \in [Emitters -> Seq(ReceiptRecords)]
  BY ChainKept
<1>2. job' \in [Threads -> JobRecords]
  BY ThreadMoves
<1>3. chainMu' \in Settlers \cup {None} /\ (chainMu' # None => At(chainMu, "save")')
  BY MutexStep DEF At
<1> QED BY <1>1, <1>2, <1>3, RulingStepIs, LeaseTypes DEF TypeOK, JobRecords

LEMMA NamedStep == ASSUME TypeOK, Named, [Next]_vars PROVE Named'
<1>1. \A t \in Threads : job'[t] = job[t] \/ Moves(t)
  BY ThreadMoves
<1>2. \A t \in Threads : job[t] \in JobRecords
  BY DEF TypeOK, JobRecords
<1>3. ASSUME NEW t \in Threads
      PROVE  /\ job'[t].pc \in Busy => job'[t].contract \in Contracts
             /\ job'[t].pc \in {"read", "save"} => job'[t].outcome \in SettleOutcomes \cup {Timeout}
             /\ job'[t].pc = "idle" => job'[t].tries = 0
  <2>1. CASE job'[t] = job[t]
    BY <2>1 DEF Named
  <2>2. CASE Rests(t) \/ Begins(t) \/ Evaluates(t)
    BY <2>2 DEF Rests, Begins, Evaluates, Busy, Named
  <2>3. CASE Reads(t) \/ Retries(t)
    BY <2>3 DEF Reads, Retries, Busy, Named
  <2>4. CASE Exhausts(t) \/ Answers(t) \/ Appends(t)
    BY <2>4 DEF Exhausts, Answers, Appends, SaveAppends, At, Busy, Named
  <2> QED BY <1>1, <2>1, <2>2, <2>3, <2>4 DEF Moves
<1>4. job'[Reaper].outcome = Timeout
  BY ThreadMoves
<1> QED BY <1>3, <1>4, RulingStepIs DEF Named

\* Links to receipts stay links to them.
LEMMA LinksKept ==
    ASSUME TypeOK, Kept, NEW c \in Contracts
    PROVE  /\ Len(PairOf(c)) \in Nat /\ Len(PairOf(c)') \in Nat /\ Len(PairOf(c)) <= Len(PairOf(c)')
           /\ \A k \in 0 .. Len(PairOf(c)) : LinkAt(c, k)' = LinkAt(c, k)
           /\ \A x : Issued(c, x) => Issued(c, x)'
<1>1. EmitterOf[c] \in Emitters
  BY EmitterIs
<1>2. /\ Len(PairOf(c)) \in Nat /\ Len(PairOf(c)') \in Nat /\ Len(PairOf(c)) <= Len(PairOf(c)')
      /\ \A i \in 1 .. Len(PairOf(c)) : PairOf(c)'[i].content = PairOf(c)[i].content /\ PairOf(c)'[i].sig = PairOf(c)[i].sig
  BY <1>1 DEF Kept, PairOf
<1>3. \A k \in 0 .. Len(PairOf(c)) : LinkAt(c, k)' = LinkAt(c, k)
  BY <1>2 DEF LinkAt
<1>4. ASSUME NEW x, Issued(c, x) PROVE Issued(c, x)'
  <2>1. PICK i \in 1 .. Len(PairOf(c)) : PairOf(c)[i].content.contract = c /\ PairOf(c)[i].sig = x
    BY <1>4 DEF Issued
  <2>2. i \in 1 .. Len(PairOf(c)') /\ PairOf(c)'[i].content.contract = c /\ PairOf(c)'[i].sig = x
    BY <1>2, <2>1
  <2> QED BY <2>2 DEF Issued
<1> QED BY <1>2, <1>3, <1>4

LEMMA HeadLink == ASSUME TypeOK, NEW c \in Contracts PROVE LastLink(c) = LinkAt(c, Len(PairOf(c)))
<1>1. PairOf(c) \in Seq(ReceiptRecords)
  BY EmitterIs DEF PairOf, TypeOK
<1> QED BY <1>1 DEF LastLink, LinkAt, Last

LEMMA TracksStep ==
    ASSUME TypeOK, Named, Tracks, [Next]_vars
    PROVE  Tracks'
<1>0. Kept /\ TypeOK' /\ Named'
  BY ChainKept, TypeStep, NamedStep
<1> SUFFICES ASSUME NEW t \in Threads, NEW c, c = job'[t].contract
             PROVE  /\ c # None => job'[t].tries <= Len(PairOf(c)')
                    /\ job'[t].pc = "save" => \E k \in job'[t].tries .. Len(PairOf(c)') : job'[t].prev = LinkAt(c, k)'
                    /\ job'[t].pc = "exhausted" => MaxAttempts <= Len(PairOf(c)')
  BY DEF Tracks, At, PairOf, LinkAt
<1>1. /\ c \in Contracts \cup {None} /\ None \notin Contracts /\ job[t].contract \in Contracts \cup {None}
      /\ job[t].tries \in Nat /\ job'[t].tries \in Nat /\ MaxAttempts \in Nat /\ job[t].tries + 1 \in Nat
  BY <1>0, SettlementAssumption DEF TypeOK
<1>2. c \in Contracts => /\ Len(PairOf(c)) \in Nat /\ Len(PairOf(c)') \in Nat /\ Len(PairOf(c)) <= Len(PairOf(c)')
                         /\ \A k \in 0 .. Len(PairOf(c)) : LinkAt(c, k)' = LinkAt(c, k)
  BY <1>0, LinksKept
<1>3. job'[t].pc \in Busy => c \in Contracts
  BY <1>0 DEF Named
<1>4. ASSUME job[t].contract = c
      PROVE  /\ c # None => job[t].tries <= Len(PairOf(c))
             /\ job[t].pc = "save" => \E k \in job[t].tries .. Len(PairOf(c)) : job[t].prev = LinkAt(c, k)
             /\ job[t].pc = "exhausted" => MaxAttempts <= Len(PairOf(c))
  BY <1>4 DEF Tracks, At
<1>5. job'[t] = job[t] \/ Moves(t)
  BY ThreadMoves
<1>6. CASE job'[t] = job[t]
  <2>1. job[t].contract = c
    BY <1>6
  <2>2. c # None => job[t].tries <= Len(PairOf(c)')
    BY <1>1, <1>2, <1>4, <2>1
  <2>3. job[t].pc = "exhausted" => MaxAttempts <= Len(PairOf(c)')
    BY <1>1, <1>2, <1>3, <1>4, <1>6, <2>1 DEF Busy
  <2>4. ASSUME job[t].pc = "save" PROVE \E k \in job[t].tries .. Len(PairOf(c)') : job[t].prev = LinkAt(c, k)'
    <3>1. c \in Contracts
      BY <1>3, <1>6, <2>4 DEF Busy
    <3>2. PICK k \in job[t].tries .. Len(PairOf(c)) : job[t].prev = LinkAt(c, k)
      BY <1>4, <2>1, <2>4
    <3>3. k \in job[t].tries .. Len(PairOf(c)') /\ k \in 0 .. Len(PairOf(c))
      BY <1>1, <1>2, <3>1, <3>2
    <3> QED BY <1>2, <3>1, <3>2, <3>3
  <2> QED BY <1>6, <2>2, <2>3, <2>4
<1>7. CASE Rests(t) \/ Begins(t) \/ Evaluates(t)
  <2>1. job'[t].pc \notin {"save", "exhausted"}
    BY <1>7 DEF Rests, Begins, Evaluates, Busy
  <2>2. job'[t].tries = 0 \/ (job'[t].tries = job[t].tries /\ c = job[t].contract)
    BY <1>7 DEF Rests, Begins, Evaluates
  <2> QED BY <1>1, <1>2, <1>4, <2>1, <2>2
<1>8. CASE Reads(t)
  <2>1. job[t].contract = c /\ c \in Contracts /\ job'[t].tries = job[t].tries /\ job'[t].prev = LastLink(c) /\ job'[t].pc = "save"
    BY <1>3, <1>8 DEF Reads, Busy
  <2>2. job'[t].prev = LinkAt(c, Len(PairOf(c)))
    BY <2>1, HeadLink
  <2>3. /\ Len(PairOf(c)) \in job'[t].tries .. Len(PairOf(c)') /\ Len(PairOf(c)) \in 0 .. Len(PairOf(c))
        /\ job'[t].tries <= Len(PairOf(c)')
    BY <1>1, <1>2, <1>4, <2>1
  <2>4. PICK k : k = Len(PairOf(c))
    OBVIOUS
  <2>5. job'[t].prev = LinkAt(c, k)'
    BY <1>2, <2>1, <2>2, <2>3, <2>4
  <2>6. k \in job'[t].tries .. Len(PairOf(c)')
    BY <2>3, <2>4
  <2> QED BY <2>1, <2>3, <2>5, <2>6
<1>9. ASSUME job[t].pc = "save", ~LinkFresh(t), job[t].contract = c, c \in Contracts
      PROVE  job[t].tries + 1 <= Len(PairOf(c))
  <2>1. PICK k \in job[t].tries .. Len(PairOf(c)) : job[t].prev = LinkAt(c, k)
    BY <1>4, <1>9
  <2>2. job[t].prev # LinkAt(c, Len(PairOf(c)))
    BY <1>9, HeadLink DEF LinkFresh
  <2>3. k # Len(PairOf(c))
    BY <2>1, <2>2
  <2> QED BY <1>1, <1>2, <1>9, <2>1, <2>3
<1>10. CASE Retries(t)
  <2>1. job[t].pc = "save" /\ ~LinkFresh(t) /\ job[t].contract = c /\ job'[t].pc = "read" /\ job'[t].tries = job[t].tries + 1
    BY <1>10 DEF Retries
  <2>2. c \in Contracts
    BY <1>3, <2>1 DEF Busy
  <2> QED BY <1>1, <1>2, <1>9, <2>1, <2>2
<1>11. CASE Exhausts(t)
  <2>1. job[t].pc = "save" /\ ~LinkFresh(t) /\ job[t].contract = c /\ job'[t].pc = "exhausted" /\ job'[t].tries = 0
        /\ job[t].tries + 1 >= MaxAttempts
    BY <1>11 DEF Exhausts
  <2>2. c \in Contracts
    BY <1>3, <2>1 DEF Busy
  <2> QED BY <1>1, <1>2, <1>9, <2>1, <2>2
<1>12. CASE Answers(t) \/ Appends(t)
  <2>1. job'[t].pc = "done" /\ job'[t].tries = 0 /\ c \in Contracts
    BY <1>3, <1>12 DEF Answers, Appends, Busy
  <2> QED BY <1>2, <2>1
<1> QED BY <1>5, <1>6, <1>7, <1>8, <1>10, <1>11, <1>12 DEF Moves

\* A receipt is appended only for a contract that has none.
LEMMA OneReceiptStep ==
    ASSUME TypeOK, Named, OneReceipt, [Next]_vars
    PROVE  OneReceipt'
<1> SUFFICES ASSUME NEW e \in Emitters, NEW i \in 1 .. Len(chain'[e]), NEW j \in 1 .. Len(chain'[e]),
                    chain'[e][i].content.contract = chain'[e][j].content.contract
             PROVE  i = j
  BY DEF OneReceipt
<1>0. /\ Len(chain[e]) \in Nat
      /\ \A k \in 1 .. Len(chain[e]) : chain'[e][k].content = chain[e][k].content
  BY ChainKept DEF Kept
<1>1. CASE Len(chain'[e]) = Len(chain[e])
  <2>1. i \in 1 .. Len(chain[e]) /\ j \in 1 .. Len(chain[e])
    BY <1>1
  <2>2. chain[e][i].content.contract = chain[e][j].content.contract
    BY <1>0, <2>1
  <2> QED BY <2>1, <2>2 DEF OneReceipt
<1>2. ASSUME NEW t \in Threads, SaveAppends(t), EmitterOf[job[t].contract] = e PROVE i = j
  <2> DEFINE c == job[t].contract
             n == Len(chain[e])
  <2>1. /\ Len(chain'[e]) = n + 1 /\ chain'[e][n + 1] = NewReceipt(t) /\ n \in Nat
    BY <1>2, AppendIs
  <2>2. chain'[e][n + 1].content.contract = c
    BY <2>1 DEF NewReceipt, Content
  <2>3. ~\E k \in 1 .. n : chain[e][k].content.contract = c
    BY <1>2 DEF SaveAppends, Settled, Receipts, PairOf
  <2>4. ASSUME NEW k \in 1 .. n PROVE chain'[e][k].content.contract = chain[e][k].content.contract /\ chain[e][k].content.contract # c
    BY <1>0, <2>3
  <2>5. CASE i = n + 1 /\ j = n + 1
    BY <2>5
  <2>6. CASE i = n + 1 /\ j # n + 1
    <3>1. j \in 1 .. n
      BY <2>1, <2>6
    <3> QED BY <2>2, <2>4, <2>6, <3>1
  <2>7. CASE i # n + 1 /\ j = n + 1
    <3>1. i \in 1 .. n
      BY <2>1, <2>7
    <3> QED BY <2>2, <2>4, <2>7, <3>1
  <2>8. CASE i # n + 1 /\ j # n + 1
    <3>1. i \in 1 .. n /\ j \in 1 .. n
      BY <2>1, <2>8
    <3>2. chain[e][i].content.contract = chain[e][j].content.contract
      BY <2>4, <3>1
    <3> QED BY <3>1, <3>2 DEF OneReceipt
  <2> QED BY <2>5, <2>6, <2>7, <2>8
<1>3. ASSUME NEW t \in Threads, SaveAppends(t), EmitterOf[job[t].contract] # e PROVE Len(chain'[e]) = Len(chain[e])
  BY <1>3, AppendIs
<1>4. ASSUME NEW d \in Deciders, UpdateReceipt(d) PROVE Len(chain'[e]) = Len(chain[e])
  BY <1>4, RulingIs
<1> QED BY <1>1, <1>2, <1>3, <1>4, ChainWriters

-----------------------------------------------------------------------------
(* The chain verifies, and every answer is a receipt of it.                *)

\* What an append writes has the number, the link and the signature that the
\* chain needs at its place.
LEMMA ChainVerifiesStep ==
    ASSUME TypeOK, Named, ChainVerifies, [Next]_vars
    PROVE  ChainVerifies'
<1> SUFFICES ASSUME NEW e \in Emitters PROVE VerifyChainIntegrity(chain'[e])
  BY DEF ChainVerifies
<1>0. chain[e] \in Seq(ReceiptRecords) /\ Len(chain[e]) \in Nat
  BY DEF TypeOK
<1>1. CASE chain'[e] = chain[e]
  BY <1>1 DEF ChainVerifies
<1>2. ASSUME NEW t \in Threads, SaveAppends(t), EmitterOf[job[t].contract] = e
      PROVE  VerifyChainIntegrity(chain'[e])
  <2> DEFINE n == Len(chain[e])
  <2>1. /\ Len(chain'[e]) = n + 1 /\ chain'[e][n + 1] = NewReceipt(t)
        /\ \A i \in 1 .. n : chain'[e][i] = chain[e][i]
    BY <1>2, AppendIs
  <2>2. \A i \in 1 .. n : /\ chain[e][i].seq = i
                          /\ chain[e][i].content.prev = (IF i = 1 THEN None ELSE chain[e][i - 1].sig.contract)
                          /\ chain[e][i].sig = SignReceipt(chain[e][i].content)
                          /\ chain[e][i].decision # "none" => chain[e][i].signed = EmitterContent(chain[e][i])
    BY DEF ChainVerifies, VerifyChainIntegrity
  <2>3. /\ NewReceipt(t).seq = n + 1 /\ NewReceipt(t).decision = "none"
        /\ NewReceipt(t).sig = SignReceipt(NewReceipt(t).content)
        /\ NewReceipt(t).content.prev = job[t].prev
    BY <1>2 DEF NewReceipt, Content, PairOf
  <2>4. job[t].prev = IF n + 1 = 1 THEN None ELSE chain[e][n].sig.contract
    <3>1. job[t].prev = LastLink(job[t].contract)
      BY <1>2 DEF SaveAppends, LinkFresh
    <3> QED BY <1>0, <1>2, <3>1 DEF LastLink, PairOf, Last
  <2>5. ASSUME NEW i \in 1 .. n + 1
        PROVE  /\ chain'[e][i].seq = i
               /\ chain'[e][i].content.prev = (IF i = 1 THEN None ELSE chain'[e][i - 1].sig.contract)
               /\ chain'[e][i].sig = SignReceipt(chain'[e][i].content)
               /\ chain'[e][i].decision # "none" => chain'[e][i].signed = EmitterContent(chain'[e][i])
    <3>1. CASE i = n + 1
      <4>1. i # 1 => chain'[e][i - 1] = chain[e][n]
        BY <1>0, <2>1, <3>1
      <4> QED BY <1>0, <2>1, <2>3, <2>4, <3>1, <4>1
    <3>2. CASE i # n + 1
      <4>1. i \in 1 .. n /\ (i # 1 => i - 1 \in 1 .. n)
        BY <1>0, <3>2
      <4>2. chain'[e][i] = chain[e][i] /\ (i # 1 => chain'[e][i - 1] = chain[e][i - 1])
        BY <2>1, <4>1
      <4> QED BY <2>2, <4>1, <4>2
    <3> QED BY <3>1, <3>2
  <2> QED BY <2>1, <2>5 DEF VerifyChainIntegrity
<1>3. ASSUME NEW t \in Threads, SaveAppends(t), EmitterOf[job[t].contract] # e PROVE chain'[e] = chain[e]
  BY <1>3, AppendIs
<1>4. ASSUME NEW d \in Deciders, UpdateReceipt(d), EmitterOf[ruling[d].contract] # e PROVE chain'[e] = chain[e]
  BY <1>4, RulingIs
<1>5. ASSUME NEW d \in Deciders, UpdateReceipt(d), EmitterOf[ruling[d].contract] = e
      PROVE  VerifyChainIntegrity(chain'[e])
  <2> DEFINE x == ruling[d].decision
  <2>1. /\ Len(chain'[e]) = Len(chain[e]) /\ x \in Decisions
        /\ \A i \in 1 .. Len(chain[e]) : chain'[e][i] = chain[e][i] \/ chain'[e][i] = Ruled(chain[e][i], x)
    BY <1>5, RulingIs
  <2>2. \A i \in 1 .. Len(chain[e]) : chain[e][i] \in ReceiptRecords
    BY <1>0
  <2>3. ASSUME NEW i \in 1 .. Len(chain[e])
        PROVE  /\ chain'[e][i].seq = chain[e][i].seq /\ chain'[e][i].content = chain[e][i].content
               /\ chain'[e][i].sig = chain[e][i].sig
               /\ \/ chain'[e][i] = chain[e][i]
                  \/ chain'[e][i].signed = EmitterContent(chain'[e][i])
    BY <2>1, <2>2, RuledIs
  <2>4. \A i \in 1 .. Len(chain[e]) : i # 1 => i - 1 \in 1 .. Len(chain[e])
    BY <1>0
  <2>5. VerifyChainIntegrity(chain[e])
    BY DEF ChainVerifies
  <2> QED BY <2>1, <2>3, <2>4, <2>5, ZenonT(30) DEF VerifyChainIntegrity, SignReceipt
<1>6. CASE UNCHANGED chain
  BY <1>1, <1>6
<1> QED BY <1>1, <1>2, <1>3, <1>4, <1>5, <1>6, ChainWriters

\* Whoever is answered is answered with what is in the chain, and it stays there.
LEMMA AnsweredStep ==
    ASSUME TypeOK, Named, Answered, [Next]_vars
    PROVE  Answered'
<1>0. Kept /\ TypeOK' /\ Named'
  BY ChainKept, TypeStep, NamedStep
<1> SUFFICES ASSUME NEW t \in Settlers, job'[t].pc = "done", NEW c, c = job'[t].contract, NEW x, x = job'[t].answer
             PROVE  Issued(c, x)'
  BY DEF Answered, At, Issued, PairOf
<1>1. t \in Threads /\ c \in Contracts
  BY <1>0 DEF Threads, Named, Busy
<1>2. Issued(c, x) => Issued(c, x)'
  BY <1>0, <1>1, LinksKept
<1>3. CASE job'[t] = job[t]
  BY <1>2, <1>3 DEF Answered, At
<1>4. CASE Answers(t)
  <2>1. job[t].contract = c /\ Settled(c) /\ x = ReceiptOf(c).sig
    BY <1>4 DEF Answers
  <2> QED BY <1>1, <1>2, <2>1, ReceiptIs
<1>5. CASE Appends(t)
  <2> DEFINE e == EmitterOf[c]
             n == Len(chain[e])
  <2>1. SaveAppends(t) /\ job[t].contract = c /\ x = Content(t)
    BY <1>5 DEF Appends
  <2>2. n \in Nat /\ Len(chain'[e]) = n + 1 /\ chain'[e][n + 1] = NewReceipt(t)
    BY <1>1, <2>1, AppendIs
  <2>3. NewReceipt(t).content.contract = c /\ NewReceipt(t).sig = x
    BY <2>1 DEF NewReceipt, Content, SignReceipt
  <2>4. n + 1 \in 1 .. Len(chain'[e])
    BY <2>2
  <2> QED BY <2>2, <2>3, <2>4 DEF Issued, PairOf
<1>6. ~Rests(t) /\ ~Begins(t) /\ ~Evaluates(t) /\ ~Reads(t) /\ ~Retries(t) /\ ~Exhausts(t)
  BY DEF Rests, Begins, Evaluates, Reads, Retries, Exhausts, Busy
<1> QED BY <1>1, <1>3, <1>4, <1>5, <1>6, ThreadMoves DEF Moves

-----------------------------------------------------------------------------
(* The inductive invariant and what follows from it.                       *)

SettlementInv == TypeOK /\ Named /\ Tracks /\ OneReceipt /\ Answered /\ ChainVerifies

LEMMA SettlementInit == Init => SettlementInv
<1> SUFFICES ASSUME Init PROVE SettlementInv
  OBVIOUS
<1>0. /\ \A t \in Threads : job[t] = Idle
      /\ \A e \in Emitters : chain[e] = <<>>
      /\ Reaper \in Threads /\ 0 \in 0 .. MaxAttempts - 1 /\ 0 \in 0 .. MaxFaults
      /\ <<>> \in Seq(ReceiptRecords)
  BY SettlementAssumption DEF Init, Threads
<1>1. Idle \in JobRecords /\ Idle.pc = "idle" /\ Idle.contract = None /\ Idle.tries = 0 /\ Idle.outcome = Timeout
  BY <1>0 DEF Idle, Job, JobRecords
<1>2. NoRuling \in [pc : {"idle", "write", "done"}, contract : Contracts \cup {None}, decision : Decisions]
      /\ NoRuling.pc = "idle"
  BY DEF NoRuling, Decisions
<1>3. TypeOK
  <2>1. job \in [Threads -> JobRecords]
    BY <1>1 DEF Init
  <2>2. chain \in [Emitters -> Seq(ReceiptRecords)]
    BY <1>0 DEF Init
  <2>3. ruling \in [Deciders -> [pc : {"idle", "write", "done"}, contract : Contracts \cup {None}, decision : Decisions]]
    BY <1>2 DEF Init
  <2> QED BY <1>0, <2>1, <2>2, <2>3 DEF Init, TypeOK, JobRecords
<1>4. Named
  BY <1>0, <1>1, <1>2 DEF Init, Named, Busy
<1>5. Tracks /\ Answered
  BY <1>0, <1>1 DEF Tracks, Answered, At, Threads
<1>6. OneReceipt /\ ChainVerifies
  BY <1>0 DEF OneReceipt, ChainVerifies, VerifyChainIntegrity
<1> QED BY <1>3, <1>4, <1>5, <1>6 DEF SettlementInv

LEMMA SettlementStep == SettlementInv /\ [Next]_vars => SettlementInv'
  BY TypeStep, NamedStep, TracksStep, OneReceiptStep, AnsweredStep, ChainVerifiesStep DEF SettlementInv

LEMMA SettlementInvariant == Spec => []SettlementInv
  BY SettlementInit, SettlementStep, PTL DEF Spec

\* The state is well formed, and the engine's mutex is only ever held by a
\* settlement between its read of the head and its save.
THEOREM SettlementTypeCorrect == Spec => []TypeOK
<1>1. SettlementInv => TypeOK
  BY DEF SettlementInv
<1> QED BY <1>1, SettlementInvariant, PTL

\* Every chain verifies at every moment, for any number of settlements, timeouts,
\* rulings, failures and crashes: what is appended carries the head it links to.
THEOREM SettlementChainVerifies == Spec => []ChainVerifies
<1>1. SettlementInv => ChainVerifies
  BY DEF SettlementInv
<1> QED BY <1>1, SettlementInvariant, PTL

\* A contract has one receipt and every answer is that receipt.
LEMMA IdempotentFromInv == SettlementInv => SettleIdempotent
<1> SUFFICES ASSUME TypeOK, Named, OneReceipt, Answered PROVE SettleIdempotent
  BY DEF SettlementInv
<1>1. ASSUME NEW c \in Contracts
      PROVE  Cardinality({i \in 1 .. Len(PairOf(c)) : PairOf(c)[i].content.contract = c}) <= 1
  <2> DEFINE S == {i \in 1 .. Len(PairOf(c)) : PairOf(c)[i].content.contract = c}
  <2>1. \A i, j \in S : i = j
    BY <1>1, EmitterIs DEF OneReceipt, PairOf
  <2> SUFFICES Cardinality(S) <= 1
    OBVIOUS
  <2> HIDE DEF S
  <2>2. CASE S = {}
    <3>1. Cardinality(S) = 0
      BY <2>2, FS_EmptySet
    <3> QED BY <3>1
  <2>3. CASE S # {}
    <3>1. PICK i : S = {i}
      BY <2>1, <2>3
    <3>2. Cardinality(S) = 1
      BY <3>1, FS_Singleton
    <3> QED BY <3>2
  <2> QED BY <2>2, <2>3
<1>2. ASSUME NEW t \in Settlers, At(t, "done")
      PROVE  Settled(job[t].contract) /\ job[t].answer = ReceiptOf(job[t].contract).sig
  <2> DEFINE c == job[t].contract
  <2>1. c \in Contracts /\ EmitterOf[c] \in Emitters
    BY <1>2, EmitterIs DEF Named, Busy, At, Threads
  <2>2. PICK i \in 1 .. Len(PairOf(c)) : PairOf(c)[i].content.contract = c /\ PairOf(c)[i].sig = job[t].answer
    BY <1>2 DEF Answered, Issued
  <2>3. Settled(c)
    BY <2>2 DEF Settled, Receipts
  <2>4. PICK j \in 1 .. Len(PairOf(c)) : PairOf(c)[j].content.contract = c /\ PairOf(c)[j].sig = ReceiptOf(c).sig
    BY <2>1, <2>3, ReceiptIs DEF Issued
  <2>5. i = j
    BY <2>1, <2>2, <2>4 DEF OneReceipt, PairOf
  <2> QED BY <2>2, <2>3, <2>4, <2>5
<1> QED BY <1>1, <1>2 DEF SettleIdempotent

\* R1 of the engine: however settlements, timeouts and crashes interleave, a
\* contract gets one receipt and all who are answered are answered with it.
THEOREM SettlementIdempotent == Spec => []SettleIdempotent
  BY IdempotentFromInv, SettlementInvariant, PTL

\* An attempt is lost only to an append of somebody else, so a settlement that
\* ran out of attempts has seen that many receipts come in.
THEOREM SettlementSomeWriterWins == Spec => []SomeWriterWins
<1>1. SettlementInv => SomeWriterWins
  <2> SUFFICES ASSUME TypeOK, Named, Tracks, NEW t \in Threads
               PROVE  /\ job[t].contract # None => job[t].tries <= Len(PairOf(job[t].contract))
                      /\ At(t, "exhausted") => Len(PairOf(job[t].contract)) >= MaxAttempts
    BY DEF SettlementInv, SomeWriterWins
  <2>1. At(t, "exhausted") => job[t].contract \in Contracts
    BY DEF Named, At, Busy
  <2>2. job[t].contract \in Contracts => Len(PairOf(job[t].contract)) \in Nat
    BY EmitterIs DEF TypeOK, PairOf
  <2> QED BY <2>1, <2>2, SettlementAssumption DEF Tracks
<1> QED BY <1>1, SettlementInvariant, PTL

\* No step removes, moves, renumbers or rewrites a receipt that was appended:
\* a ruling only adds the emitter's part to it.
THEOREM SettlementAppendOnly == Spec => [][Kept]_vars
<1>1. SettlementInv /\ [Next]_vars => [Kept]_vars
  BY ChainKept DEF SettlementInv
<1> QED BY <1>1, SettlementInvariant, PTL DEF Spec

=============================================================================
