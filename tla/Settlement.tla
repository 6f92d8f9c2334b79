----------------------------- MODULE Settlement -----------------------------
(***************************************************************************)
(* How a contract is settled: the leases and handlers of the agent server  *)
(* (integration/agent/server.go), the settlement engine (pkg/settlement)   *)
(* and the chain of signed receipts it appends to (pkg/receipt).           *)
(*                                                                         *)
(* An envelope here is one that passes Validate, the mTLS and signature    *)
(* checks and the capability policy: the others are answered 4xx before    *)
(* anything is looked up or written.  A contract has at most one receipt,  *)
(* so its name stands for the receipt's identifier and for the hash of the *)
(* receipt's signature; a signature is the content that was signed.        *)
(***************************************************************************)
EXTENDS Integers, SequencesExt

CONSTANTS
    Contracts,      \* envelopes
    EmitterOf,      \* who signed each of them; the executor is this server
    LeaseIds,       \* bound: leases handed out (UnixNano, never reused)
    LeaseFor,       \* the contract whose envelope each of them answers
    Settlers,       \* bound: requests to settle
    Deciders,       \* bound: requests to accept or dispute
    Evaluations,    \* what evaluating an envelope's assertions may give
    MaxAttempts,    \* AppendConfig.MaxAttempts
    MaxFaults,      \* bound: database errors, timeouts of a context, crashes
    Reaper,         \* the goroutine of startLeaseReaper
    None

ASSUME SettlementAssumption ==
    /\ None \notin Contracts \cup LeaseIds \cup Settlers \cup {Reaper}
    /\ Reaper \notin Settlers
    /\ LeaseFor \in [LeaseIds -> Contracts]
    /\ EmitterOf \in [Contracts -> {EmitterOf[c] : c \in Contracts}]
    /\ Evaluations \subseteq SUBSET {"PASS", "FAIL", "ERROR"} \ {{}}
    /\ MaxAttempts \in Nat \ {0} /\ MaxFaults \in Nat

Emitters == {EmitterOf[c] : c \in Contracts}
Threads == Settlers \cup {Reaper}

VARIABLES
    leases,     \* Server.leases; a purged lease is kept with held = FALSE
    enveloped,  \* the contracts of Server.leaseEnvelopes
    chain,      \* table receipts, by pair, in the order of seq
    chainMu,    \* Engine.chainMu
    job,        \* the settle requests and the reaper
    todo,       \* the reaper's snapshot, then what is left to emit
    ruling,     \* the accept and dispute requests
    faults

leaseVars == <<leases, enveloped>>
vars == <<leases, enveloped, chain, chainMu, job, todo, ruling, faults>>

Fault == faults < MaxFaults /\ faults' = faults + 1

-----------------------------------------------------------------------------
(* Assertions and verdicts.  Of the results of an evaluation only which    *)
(* outcomes occur matters; an envelope has at least one assertion.         *)

ComputeVerdict(results) == IF results = {"PASS"} THEN "CLEAN" ELSE "FAILED"

\* What the receipt says of an assertion that ended in an error.
ConvertResults(results) == {IF o = "ERROR" THEN "SKIP" ELSE o : o \in results}

\* Evaluate, and again up to the limit (at least once) while it fails: what is
\* recorded is the last evaluation.
SettleOutcomes ==
    {[verdict |-> "CLEAN", results |-> ConvertResults(r)] : r \in {r \in Evaluations : ComputeVerdict(r) = "CLEAN"}}
    \cup {[verdict |-> "REMEDIATED", results |-> ConvertResults(r)] : r \in {r \in Evaluations : ComputeVerdict(r) = "CLEAN"}}
    \cup {[verdict |-> "FAILED", results |-> ConvertResults(r)] : r \in {r \in Evaluations : ComputeVerdict(r) = "FAILED"}}

Timeout == [verdict |-> "TIMEOUT", results |-> {}]

-----------------------------------------------------------------------------
(* The chain.                                                              *)

PairOf(c) == chain[EmitterOf[c]]

\* GetReceiptByContractID.
Receipts(c) == {PairOf(c)[i] : i \in {i \in 1 .. Len(PairOf(c)) : PairOf(c)[i].content.contract = c}}
Settled(c) == Receipts(c) # {}
ReceiptOf(c) == CHOOSE r \in Receipts(c) : TRUE

\* GetLastReceipt and the hash of its signature.
LastLink(c) == IF PairOf(c) = <<>> THEN None ELSE Last(PairOf(c)).sig.contract

\* ComputeReceiptHash keeps the link and clears the number and what the emitter adds.
Content(t) == [contract |-> job[t].contract, prev |-> job[t].prev,
               verdict |-> job[t].outcome.verdict, results |-> job[t].outcome.results]

SignReceipt(content) == content

\* ComputeEmitterReceiptHash covers the decision and the reason.
EmitterContent(r) == <<r.content, r.decision, r.reason>>

VerifyChainIntegrity(receipts) ==
    \A i \in 1 .. Len(receipts) :
        LET r == receipts[i]
        IN  /\ r.seq = i
            /\ r.content.prev = (IF i = 1 THEN None ELSE receipts[i - 1].sig.contract)
            /\ r.sig = SignReceipt(r.content)
            /\ r.decision # "none" => r.signed = EmitterContent(r)

-----------------------------------------------------------------------------
(* Leases.                                                                 *)

\* The capabilities are granted by the policy and every precondition holds now.
LeaseAccepted(granted, holds) == granted /\ FALSE \notin holds

\* A rejected lease is stored, with its envelope, like an accepted one.
StoreLease(l, accepted) ==
    /\ leases[l] = None
    /\ leases' = [leases EXCEPT ![l] = [accepted |-> accepted, expired |-> FALSE, held |-> TRUE]]
    /\ enveloped' = enveloped \cup {LeaseFor[l]}
    /\ UNCHANGED <<chain, chainMu, job, todo, ruling, faults>>

SubmitEnvelope(l) == \E granted \in BOOLEAN, holds \in SUBSET BOOLEAN : StoreLease(l, LeaseAccepted(granted, holds))
CreateLease(l) == \E granted \in BOOLEAN, holds \in SUBSET BOOLEAN : StoreLease(l, LeaseAccepted(granted, holds))

Held(l) == leases[l] # None /\ leases[l].held
Expired(l) == leases[l] # None /\ leases[l].expired

\* The clock passes ExpiresAt.
LeaseExpires(l) ==
    /\ Held(l) /\ ~Expired(l)
    /\ leases' = [leases EXCEPT ![l].expired = TRUE]
    /\ UNCHANGED <<enveloped, chain, chainMu, job, todo, ruling, faults>>

-----------------------------------------------------------------------------
(* handleSettle, Engine.Settle and emitSettlementTimeout.                  *)

Job(where, c, outcome, receipt) ==
    [pc |-> where, contract |-> c, outcome |-> outcome, prev |-> None, tries |-> 0, answer |-> receipt]
Idle == Job("idle", None, Timeout, None)

At(t, where) == job[t].pc = where
TimingOut(t) == job[t].outcome = Timeout
Unlock(t) == chainMu' = IF chainMu = t THEN None ELSE chainMu

\* The handler answers; the reaper goes on with the next lease.
End(t, how, receipt) ==
    job' = [job EXCEPT ![t] = IF t = Reaper THEN Job("emit", None, Timeout, None)
                              ELSE Job(how, job[t].contract, Timeout, receipt)]
Answer(t, receipt) == End(t, "done", receipt)
Refuse(t, how) == End(t, how, None)
Ended == {"done", "refused", "failed", "exhausted"}

\* What the settlement of contract c finds under the lease id of its request.
LeaseHeld(l) == IF l = None THEN FALSE ELSE Held(l)
LeaseRefused(l) == LeaseHeld(l) /\ ~leases[l].accepted
LeaseLapsed(l, c) == LeaseHeld(l) /\ leases[l].accepted /\ LeaseFor[l] = c /\ leases[l].expired

Begin(t, c, outcome) == job' = [job EXCEPT ![t] = Job("check", c, outcome, None)]

\* A lease that is not known, or of another envelope, does not stop the settlement.
Settle(t, c, l) ==
    /\ At(t, "idle")
    /\ \/ LeaseRefused(l) /\ job' = [job EXCEPT ![t].pc = "refused", ![t].contract = c]
       \/ LeaseLapsed(l, c) /\ Begin(t, c, Timeout)
       \/ ~LeaseRefused(l) /\ ~LeaseLapsed(l, c) /\ Begin(t, c, None)
    /\ UNCHANGED <<leaseVars, chain, chainMu, todo, ruling, faults>>

CheckExisting(t) ==
    /\ At(t, "check") /\ Settled(job[t].contract)
    /\ Answer(t, ReceiptOf(job[t].contract).sig)
    /\ UNCHANGED <<leaseVars, chain, chainMu, todo, ruling, faults>>

\* No receipt yet: the assertions are evaluated, unless it is a timeout.
Evaluate(t) ==
    /\ At(t, "check") /\ ~Settled(job[t].contract)
    /\ \E outcome \in IF TimingOut(t) THEN {Timeout} ELSE SettleOutcomes :
           job' = [job EXCEPT ![t].outcome = outcome, ![t].pc = "read"]
    /\ UNCHANGED <<leaseVars, chain, chainMu, todo, ruling, faults>>

\* One attempt of SignAndSaveReceipt reads the last receipt and signs the link to
\* it, the engine under its mutex, a timeout without any.
ReadHead(t) ==
    /\ At(t, "read") /\ (TimingOut(t) \/ chainMu = None)
    /\ chainMu' = IF TimingOut(t) THEN chainMu ELSE t
    /\ job' = [job EXCEPT ![t].prev = LastLink(job[t].contract), ![t].pc = "save"]
    /\ UNCHANGED <<leaseVars, chain, todo, ruling, faults>>

LinkFresh(t) == job[t].prev = LastLink(job[t].contract)

\* Mutant: the attempts are counted from zero to the limit included.
SaveStaleOffByOne(t) ==
    /\ At(t, "save") /\ ~LinkFresh(t)
    /\ IF job[t].tries < MaxAttempts
       THEN job' = [job EXCEPT ![t].tries = @ + 1, ![t].pc = "read"]
       ELSE Refuse(t, "exhausted")
    /\ Unlock(t)
    /\ UNCHANGED <<leaseVars, chain, todo, ruling, faults>>
\* Mutant: the receipt is signed once, before the loop.
SaveStaleKeepsHead(t) ==
    /\ At(t, "save") /\ ~LinkFresh(t)
    /\ IF job[t].tries + 1 < MaxAttempts
       THEN job' = [job EXCEPT ![t].tries = @ + 1]
       ELSE Refuse(t, "exhausted")
    /\ Unlock(t)
    /\ UNCHANGED <<leaseVars, chain, todo, ruling, faults>>
\* SaveReceipt finds that another receipt has come in between: ErrInvalidPreviousHash.
SaveStale(t) ==
    /\ At(t, "save") /\ ~LinkFresh(t)
    /\ IF job[t].tries + 1 < MaxAttempts
       THEN job' = [job EXCEPT ![t].tries = @ + 1, ![t].pc = "read"]
       ELSE Refuse(t, "exhausted")
    /\ Unlock(t)
    /\ UNCHANGED <<leaseVars, chain, todo, ruling, faults>>

\* UNIQUE(contract_id) refuses the row: the winner's receipt is the answer.
SaveDuplicate(t) ==
    /\ At(t, "save") /\ LinkFresh(t) /\ Settled(job[t].contract)
    /\ Answer(t, ReceiptOf(job[t].contract).sig)
    /\ Unlock(t)
    /\ UNCHANGED <<leaseVars, chain, todo, ruling, faults>>

NewReceipt(t) ==
    [content |-> Content(t), sig |-> SignReceipt(Content(t)), seq |-> Len(PairOf(job[t].contract)) + 1,
     decision |-> "none", reason |-> FALSE, signed |-> None]

\* Mutant: the store links the receipt itself, after it was signed.
SaveRelinks(t) ==
    /\ At(t, "save") /\ ~Settled(job[t].contract)
    /\ chain' = [chain EXCEPT ![EmitterOf[job[t].contract]] =
                    Append(@, [NewReceipt(t) EXCEPT !.content.prev = LastLink(job[t].contract)])]
    /\ Answer(t, SignReceipt(Content(t)))
    /\ Unlock(t)
    /\ UNCHANGED <<leaseVars, todo, ruling, faults>>
\* Mutant: no UNIQUE(contract_id).
SaveUnchecked(t) ==
    /\ At(t, "save") /\ LinkFresh(t)
    /\ chain' = [chain EXCEPT ![EmitterOf[job[t].contract]] = Append(@, NewReceipt(t))]
    /\ Answer(t, SignReceipt(Content(t)))
    /\ Unlock(t)
    /\ UNCHANGED <<leaseVars, todo, ruling, faults>>
SaveAppends(t) ==
    /\ At(t, "save") /\ LinkFresh(t) /\ ~Settled(job[t].contract)
    /\ chain' = [chain EXCEPT ![EmitterOf[job[t].contract]] = Append(@, NewReceipt(t))]
    /\ Answer(t, SignReceipt(Content(t)))
    /\ Unlock(t)
    /\ UNCHANGED <<leaseVars, todo, ruling, faults>>

\* A database error, or EvalTimeout: nothing was written and the mutex is released.
OperationFails(t) ==
    /\ job[t].pc \in {"check", "read", "save"} /\ Fault
    /\ Refuse(t, "failed")
    /\ Unlock(t)
    /\ UNCHANGED <<leaseVars, chain, todo, ruling>>

-----------------------------------------------------------------------------
(* The reaper.                                                             *)

\* Phase 1: what has expired, with the envelope if it is still registered.
SnapshotExpiredLeases ==
    /\ At(Reaper, "idle")
    /\ \E l \in LeaseIds : Held(l) /\ Expired(l)
    /\ todo' = {[lease |-> l, known |-> LeaseFor[l] \in enveloped] :
                    l \in {l \in LeaseIds : Held(l) /\ Expired(l)}}
    /\ job' = [job EXCEPT ![Reaper].pc = "confirm"]
    /\ UNCHANGED <<leaseVars, chain, chainMu, ruling, faults>>

\* Phase 2: the leases go, and with each of them the envelope of its contract,
\* also when another lease of that contract is alive.
ConfirmAndPurge ==
    /\ At(Reaper, "confirm")
    /\ LET gone == {s \in todo : Held(s.lease)}
       IN  /\ leases' = [l \in LeaseIds |-> IF \E s \in gone : s.lease = l
                                            THEN [leases[l] EXCEPT !.held = FALSE] ELSE leases[l]]
           /\ enveloped' = enveloped \ {LeaseFor[s.lease] : s \in gone}
           /\ todo' = {s \in gone : s.known}
    /\ job' = [job EXCEPT ![Reaper].pc = "emit"]
    /\ UNCHANGED <<chain, chainMu, ruling, faults>>

\* Mutant: purging is all that is done.
EmitNothing ==
    /\ At(Reaper, "emit")
    /\ todo' = {} /\ job' = [job EXCEPT ![Reaper] = Idle]
    /\ UNCHANGED <<leaseVars, chain, chainMu, ruling, faults>>
EmitNext ==
    /\ At(Reaper, "emit")
    /\ \/ \E s \in todo :
             /\ todo' = todo \ {s}
             /\ job' = [job EXCEPT ![Reaper] = Job("check", LeaseFor[s.lease], Timeout, None)]
       \/ todo = {} /\ job' = [job EXCEPT ![Reaper] = Idle] /\ UNCHANGED todo
    /\ UNCHANGED <<leaseVars, chain, chainMu, ruling, faults>>

-----------------------------------------------------------------------------
(* handleAccept and handleDispute: a read, and a blind UpdateReceipt.      *)

NoRuling == [pc |-> "idle", contract |-> None, decision |-> "none"]

\* Only a dispute looks at the decision that is already there.
ReadStored(d, c, decision) ==
    /\ ruling[d].pc = "idle" /\ Settled(c)
    /\ ruling' = [ruling EXCEPT ![d] =
           [pc |-> IF decision = "DISPUTED" /\ ReceiptOf(c).decision # "none" THEN "done" ELSE "write",
            contract |-> c, decision |-> decision]]
    /\ UNCHANGED <<leaseVars, chain, chainMu, job, todo, faults>>

Ruled(r, decision) ==
    LET ruled == [r EXCEPT !.decision = decision, !.reason = (decision = "DISPUTED")]
    IN  [ruled EXCEPT !.signed = EmitterContent(ruled)]

UpdateReceipt(d) ==
    /\ ruling[d].pc = "write"
    /\ LET c == ruling[d].contract
       IN  chain' = [chain EXCEPT ![EmitterOf[c]] =
                        [i \in DOMAIN @ |-> IF @[i].content.contract = c THEN Ruled(@[i], ruling[d].decision) ELSE @[i]]]
    /\ ruling' = [ruling EXCEPT ![d].pc = "done"]
    /\ UNCHANGED <<leaseVars, chainMu, job, todo, faults>>

UpdateFails(d) ==
    /\ ruling[d].pc = "write" /\ Fault
    /\ ruling' = [ruling EXCEPT ![d].pc = "done"]
    /\ UNCHANGED <<leaseVars, chain, chainMu, job, todo>>

-----------------------------------------------------------------------------

\* The process dies and comes back: the chain is what is left.
Crash ==
    /\ Fault
    /\ leases' = [l \in LeaseIds |-> IF Held(l) THEN [leases[l] EXCEPT !.held = FALSE] ELSE leases[l]]
    /\ enveloped' = {} /\ chainMu' = None /\ todo' = {}
    /\ job' = [t \in Threads |-> IF t = Reaper THEN Idle
                                 ELSE IF job[t].pc \in {"idle"} \cup Ended THEN job[t]
                                 ELSE Job("failed", job[t].contract, Timeout, None)]
    /\ ruling' = [d \in Deciders |-> IF ruling[d].pc = "idle" THEN ruling[d] ELSE [ruling[d] EXCEPT !.pc = "done"]]
    /\ UNCHANGED chain

Init ==
    /\ leases = [l \in LeaseIds |-> None] /\ enveloped = {}
    /\ chain = [e \in Emitters |-> <<>>] /\ chainMu = None
    /\ job = [t \in Threads |-> Idle] /\ todo = {}
    /\ ruling = [d \in Deciders |-> NoRuling] /\ faults = 0

AppendStep(t) == CheckExisting(t) \/ Evaluate(t) \/ ReadHead(t) \/ SaveStale(t) \/ SaveDuplicate(t) \/ SaveAppends(t)
SettleStep(t) == \E c \in Contracts, l \in LeaseIds \cup {None} : Settle(t, c, l)
ReaperStep == SnapshotExpiredLeases \/ ConfirmAndPurge \/ EmitNext
LeaseStep(l) == SubmitEnvelope(l) \/ CreateLease(l) \/ LeaseExpires(l)
RulingStep(d) == UpdateReceipt(d) \/ UpdateFails(d)
                 \/ \E c \in Contracts, x \in {"ACCEPTED", "DISPUTED"} : ReadStored(d, c, x)

Next ==
    \/ \E t \in Threads : AppendStep(t) \/ OperationFails(t)
    \/ \E t \in Settlers : SettleStep(t)
    \/ ReaperStep
    \/ \E l \in LeaseIds : LeaseStep(l)
    \/ \E d \in Deciders : RulingStep(d)
    \/ Crash

Spec == Init /\ [][Next]_vars

\* Handlers run on and the reaper's ticker keeps ticking.  A mutex of the engine
\* is handed over in order, so nobody waits for it for ever.
Fairness == WF_vars(ReaperStep) /\ \A t \in Threads : SF_vars(AppendStep(t))

FairSpec == Spec /\ Fairness

-----------------------------------------------------------------------------
(* Properties.                                                             *)

Contents == [contract : Contracts, prev : Contracts \cup {None},
             verdict : {"CLEAN", "REMEDIATED", "FAILED", "TIMEOUT"}, results : SUBSET {"PASS", "FAIL", "SKIP"}]
Decisions == {"none", "ACCEPTED", "DISPUTED"}
ReceiptRecords == [content : Contents, sig : Contents, seq : Nat, decision : Decisions, reason : BOOLEAN,
                   signed : {None} \cup (Contents \X Decisions \X BOOLEAN)]

\* Type invariant: among it, who holds the engine's mutex is saving.
TypeOK ==
    /\ leases \in [LeaseIds -> {None} \cup [accepted : BOOLEAN, expired : BOOLEAN, held : BOOLEAN]]
    /\ enveloped \subseteq Contracts
    /\ chain \in [Emitters -> Seq(ReceiptRecords)]
    /\ chainMu \in Settlers \cup {None}
    /\ chainMu # None => At(chainMu, "save")
    /\ job \in [Threads -> [pc : {"idle", "check", "read", "save", "confirm", "emit"} \cup Ended,
                            contract : Contracts \cup {None}, outcome : SettleOutcomes \cup {Timeout, None},
                            prev : Contracts \cup {None}, tries : 0 .. MaxAttempts - 1,
                            answer : Contents \cup {None}]]
    /\ todo \subseteq [lease : LeaseIds, known : BOOLEAN]
    /\ ruling \in [Deciders -> [pc : {"idle", "write", "done"}, contract : Contracts \cup {None}, decision : Decisions]]
    /\ faults \in 0 .. MaxFaults

\* Every chain verifies at every moment: numbers without gaps, links to the
\* signature before, signatures of executor and emitter over what is stored,
\* although settlements and timeouts append without a common lock (append.go:70).
ChainVerifies == \A e \in Emitters : VerifyChainIntegrity(chain[e])

\* R1: a contract has one receipt, and everyone who is answered with a receipt
\* is answered with that one, "both callers get 200 OK with the same receipt".
SettleIdempotent ==
    /\ \A c \in Contracts : Cardinality({i \in 1 .. Len(PairOf(c)) : PairOf(c)[i].content.contract = c}) <= 1
    /\ \A t \in Settlers : At(t, "done") => Settled(job[t].contract) /\ job[t].answer = ReceiptOf(job[t].contract).sig

\* A settlement runs out of attempts only if that many receipts of its pair
\* were appended: some writer gets through every time.
SomeWriterWins ==
    \A t \in Threads :
        /\ job[t].contract # None => job[t].tries <= Len(PairOf(job[t].contract))
        /\ At(t, "exhausted") => Len(PairOf(job[t].contract)) >= MaxAttempts

\* A lease that expires with its envelope registered leaves a receipt, once
\* the database works and the process stays up.
ExpiredSettles ==
    \A l \in LeaseIds, c \in Contracts :
        Held(l) /\ Expired(l) /\ LeaseFor[l] = c /\ c \in enveloped /\ faults = MaxFaults ~> Settled(c)

\* ACCEPTED_FINAL is terminal (formal specification, section 8).
AcceptedIsFinal ==
    [][\A e \in Emitters : \A i \in 1 .. Len(chain[e]) :
           chain[e][i].decision = "ACCEPTED" => chain'[e][i].decision = "ACCEPTED"]_vars
=============================================================================
