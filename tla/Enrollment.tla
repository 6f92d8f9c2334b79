----------------------------- MODULE Enrollment -----------------------------
(***************************************************************************)
(* How a node gets and loses its certificate: enrollment with an invite    *)
(* token (handleCertsEnroll, tokenstore.go, certstore.go), revocation over *)
(* the API, by the command line and across a restart (server.go, main.go), *)
(* and the check every request of a node passes (middleware.go).           *)
(*                                                                         *)
(* A request here has a token, a node id and a CSR whose signature         *)
(* verifies; the others are answered 4xx before anything is read.  A       *)
(* certificate is its serial, which is the request that caused it.         *)
(***************************************************************************)
EXTENDS Naturals, FiniteSets

CONSTANTS
    Nodes, Tokens,
    Requests,       \* bound: enrollment requests
    Rotations,      \* bound: certificates made by hand with cert-issue
    Revokers,       \* bound: calls of POST /v1/certs/revoke
    Joins,          \* bound: requests to join, each with a certificate
    ByHand,         \* bound: nodes that do not enroll, their certificates come from cert-issue
    MaxUses,        \* max_uses of a token
    MaxFaults,      \* bound: errors, lost answers and restarts
    None

\* A row of enrollment_tokens and a row of node_certs.
TokenRow == [uses : Nat, usedBy : SUBSET Requests, open : BOOLEAN]
CertRow == [serial : Requests, revoked : BOOLEAN]

ASSUME EnrollmentAssumption ==
    /\ MaxUses \in Nat /\ MaxFaults \in Nat
    /\ Requests \cap Rotations = {} /\ None \notin Nodes \cup Tokens \cup Requests \cup Rotations
    /\ None \notin TokenRow /\ None \notin CertRow

Serials == Requests \cup Rotations
Stamps == {"past", "now", "future"}

VARIABLES
    token,      \* table enrollment_tokens
    row,        \* table node_certs: one row per node
    ledger,     \* table revoked_serials
    cache,      \* Server.revocationCache
    req,        \* the enrollment handlers
    owner,      \* the certificates that reached a node, and that node
    registry,   \* Registry.nodes: the status of each
    beat,       \* ... and its LastHeartbeat: whose certificate came with it, and what
                \* the time stamp is to the coordinator's clock
    revoker,    \* the revocation handlers
    join,       \* the join requests
    faults

certVars == <<row, ledger, cache>>
vars == <<token, row, ledger, cache, req, owner, registry, beat, revoker, join, faults>>

Fault == faults < MaxFaults /\ faults' = faults + 1

-----------------------------------------------------------------------------
(* Tokens.                                                                 *)

CreateToken(t) ==
    /\ token[t] = None
    /\ token' = [token EXCEPT ![t] = [uses |-> 0, usedBy |-> {}, open |-> TRUE]]
    /\ UNCHANGED <<certVars, req, owner, registry, beat, revoker, join, faults>>

\* RevokeToken keeps the row; a token that expires is as closed.
CloseToken(t) ==
    /\ token[t] # None /\ token[t].open
    /\ token' = [token EXCEPT ![t].open = FALSE]
    /\ UNCHANGED <<certVars, req, owner, registry, beat, revoker, join, faults>>

Usable(t) == IF token[t] = None THEN FALSE ELSE token[t].open /\ token[t].uses < MaxUses
Used(k, r) == [uses |-> k.uses + 1, usedBy |-> k.usedBy \cup {r}, open |-> k.open]

-----------------------------------------------------------------------------
(* handleCertsEnroll.                                                      *)

Progress(r, where) == req' = [req EXCEPT ![r].pc = where]
At(r, where) == req[r].pc = where

\* The identity is looked up first, so that a refusal does not use the token up.
CheckIdentity(r, n, t) ==
    /\ At(r, "idle")
    /\ req' = [req EXCEPT ![r] = [pc |-> IF row[n] # None THEN "refused" ELSE "token", node |-> n, token |-> t]]
    /\ UNCHANGED <<token, certVars, owner, registry, beat, revoker, join, faults>>

\* Mutant: the uses were checked when the identity was.
UseTokenUnchecked(r) ==
    /\ At(r, "token") /\ token[req[r].token] # None
    /\ token' = [token EXCEPT ![req[r].token] = Used(@, r)]
    /\ Progress(r, "issue")
    /\ UNCHANGED <<certVars, owner, registry, beat, revoker, join, faults>>
\* One UPDATE checks and uses.
UseToken(r) ==
    /\ At(r, "token") /\ Usable(req[r].token)
    /\ token' = [token EXCEPT ![req[r].token] = Used(@, r)]
    /\ Progress(r, "issue")
    /\ UNCHANGED <<certVars, owner, registry, beat, revoker, join, faults>>

TokenRefused(r) ==
    /\ At(r, "token") /\ ~Usable(req[r].token)
    /\ Progress(r, "refused")
    /\ UNCHANGED <<token, certVars, owner, registry, beat, revoker, join, faults>>

\* The certificate the CA signs, as the store records it.
SignCSR(r) == [serial |-> r, revoked |-> FALSE]

\* The insert decides who has the identity.
IssueCertIfAbsent(r) ==
    /\ At(r, "issue") /\ row[req[r].node] = None
    /\ row' = [row EXCEPT ![req[r].node] = SignCSR(r)]
    /\ Progress(r, "uncache")
    /\ UNCHANGED <<token, ledger, cache, owner, registry, beat, revoker, join, faults>>

IdentityExists(r) ==
    /\ At(r, "issue") /\ row[req[r].node] # None
    /\ Progress(r, "supersede")
    /\ UNCHANGED <<token, certVars, owner, registry, beat, revoker, join, faults>>

\* Mutant: the loser's certificate is dropped and not recorded.
SupersedeDropped(r) ==
    /\ At(r, "supersede")
    /\ Progress(r, "conflict")
    /\ UNCHANGED <<token, certVars, owner, registry, beat, revoker, join, faults>>
\* RevokeSerial: what was signed for the loser goes into the ledger.
RevokeSerial(r) ==
    /\ At(r, "supersede")
    /\ ledger' = ledger \cup {r}
    /\ Progress(r, "conflict")
    /\ UNCHANGED <<token, row, cache, owner, registry, beat, revoker, join, faults>>

UncacheSerial(r) ==
    /\ At(r, "uncache")
    /\ cache' = cache \ {r}
    /\ Progress(r, "answer")
    /\ UNCHANGED <<token, row, ledger, owner, registry, beat, revoker, join, faults>>

Deliver(r) ==
    /\ At(r, "answer")
    /\ owner' = [owner EXCEPT ![r] = req[r].node]
    /\ Progress(r, "ok")
    /\ UNCHANGED <<token, certVars, registry, beat, revoker, join, faults>>

\* The client is gone, which cancels the context of every store call, or the
\* store fails; an answer that was ready is lost.
RequestFails(r) ==
    /\ req[r].pc \in {"token", "issue", "supersede", "uncache", "answer"} /\ Fault
    /\ Progress(r, "failed")
    /\ UNCHANGED <<token, certVars, owner, registry, beat, revoker, join>>

GenerateNodeCert(s, n) == owner' = [owner EXCEPT ![s] = n]

\* cert-issue signs with the CA's key and writes two files, nothing else.
CertIssue(s, n) ==
    /\ s \in Rotations /\ owner[s] = None
    /\ GenerateNodeCert(s, n)
    /\ UNCHANGED <<token, certVars, req, registry, beat, revoker, join, faults>>

-----------------------------------------------------------------------------
(* Revocation.                                                             *)

\* The cache answers first, a miss falls through to the ledger.
IsCertRevoked(s) == s \in cache \/ s \in ledger

Stage(v, where) == revoker' = [revoker EXCEPT ![v].pc = where]

FindCert(v, n) ==
    /\ revoker[v].pc = "idle" /\ row[n] # None
    /\ revoker' = [revoker EXCEPT ![v] = [pc |-> "write", node |-> n, serial |-> row[n].serial]]
    /\ UNCHANGED <<token, certVars, req, owner, registry, beat, join, faults>>

\* Row and ledger in one transaction.
RevokeRow(n) ==
    /\ row' = [row EXCEPT ![n].revoked = TRUE]
    /\ ledger' = ledger \cup {row[n].serial}

\* Mutant: the cache is told before the transaction.
RevokeCertCachedFirst(v) ==
    /\ revoker[v].pc = "write"
    /\ cache' = cache \cup {revoker[v].serial} /\ Stage(v, "cache")
    /\ UNCHANGED <<token, row, ledger, req, owner, registry, beat, join, faults>>
RevokeCert(v) ==
    /\ revoker[v].pc = "write"
    /\ RevokeRow(revoker[v].node) /\ Stage(v, "cache")
    /\ UNCHANGED <<token, cache, req, owner, registry, beat, join, faults>>

CacheSerial(v) ==
    /\ revoker[v].pc = "cache"
    /\ cache' = cache \cup {revoker[v].serial}
    /\ Stage(v, "evict")
    /\ UNCHANGED <<token, row, ledger, req, owner, registry, beat, join, faults>>

\* No time stamp, or that of a node that is not registered.
NoBeat == [by |-> None, stamp |-> "past"]

\* Mutant: the node is kept with a status of its own.
DeregisterMarks(v) ==
    /\ revoker[v].pc = "evict"
    /\ registry' = [registry EXCEPT ![revoker[v].node] = "revoked"]
    /\ beat' = [beat EXCEPT ![revoker[v].node] = NoBeat]
    /\ Stage(v, "done")
    /\ UNCHANGED <<token, certVars, req, owner, join, faults>>
\* DeregisterNode; the tasks of the node fail then (MeshDispatch).
DeregisterNode(v) ==
    /\ revoker[v].pc = "evict"
    /\ registry' = [registry EXCEPT ![revoker[v].node] = "none"]
    /\ beat' = [beat EXCEPT ![revoker[v].node] = NoBeat]
    /\ Stage(v, "done")
    /\ UNCHANGED <<token, certVars, req, owner, join, faults>>

RevokeFails(v) ==
    /\ revoker[v].pc = "write" /\ Fault
    /\ Stage(v, "failed")
    /\ UNCHANGED <<token, certVars, req, owner, registry, beat, join>>

\* cert-revoke -db-path: another process writes to the database.
RevokeOffline(n) ==
    /\ row[n] # None /\ ~row[n].revoked
    /\ RevokeRow(n)
    /\ UNCHANGED <<token, cache, req, owner, registry, beat, revoker, join, faults>>

-----------------------------------------------------------------------------
(* The requests of a node.                                                 *)

CertsOf(n) == {s \in Serials : owner[s] = n}
Valid(s) == owner[s] # None /\ ~IsCertRevoked(s)

\* The handshake and the middleware ask about the serial, and a join is for the
\* node the certificate names ...
Authorize(j, n) ==
    /\ join[j].pc = "idle" /\ \E s \in CertsOf(n) : Valid(s)
    /\ join' = [join EXCEPT ![j] = [pc |-> "admitted", node |-> n]]
    /\ UNCHANGED <<token, certVars, req, owner, registry, beat, revoker, faults>>

\* ... and the handler registers the node some time later.
RegisterNode(j) ==
    /\ join[j].pc = "admitted"
    /\ registry' = [registry EXCEPT ![join[j].node] = "online"]
    /\ beat' = [beat EXCEPT ![join[j].node] = [by |-> join[j].node, stamp |-> "now"]]
    /\ join' = [join EXCEPT ![j].pc = "done"]
    /\ UNCHANGED <<token, certVars, req, owner, revoker, faults>>

\* Any valid certificate will do for any registered node: the handler does not
\* compare its name with node_id, and it stores the time the client sent.
Heartbeat(n, s, time) ==
    /\ registry[n] # "none" /\ Valid(s)
    /\ registry' = [registry EXCEPT ![n] = "online"]
    /\ beat' = [beat EXCEPT ![n] = [by |-> owner[s], stamp |-> time]]
    /\ UNCHANGED <<token, certVars, req, owner, revoker, join, faults>>

\* Three times the heartbeat timeout passes after the stamp.  One that is ahead
\* of the clock is taken to stay ahead: the client may send any.
BeatAges(n) ==
    /\ beat[n].stamp = "now"
    /\ beat' = [beat EXCEPT ![n].stamp = "past"]
    /\ UNCHANGED <<token, certVars, req, owner, registry, revoker, join, faults>>

\* Mutant: only the nodes nobody revoked are looked at.
PruneKeepsRevoked(n) ==
    /\ registry[n] = "online" /\ beat[n].stamp = "past" /\ (IF row[n] = None THEN TRUE ELSE ~row[n].revoked)
    /\ registry' = [registry EXCEPT ![n] = "offline"]
    /\ UNCHANGED <<token, certVars, req, owner, beat, revoker, join, faults>>
\* Degraded, which is as good as offline to a dispatch, is passed over.
PruneStaleNode(n) ==
    /\ registry[n] = "online" /\ beat[n].stamp = "past"
    /\ registry' = [registry EXCEPT ![n] = "offline"]
    /\ UNCHANGED <<token, certVars, req, owner, beat, revoker, join, faults>>

-----------------------------------------------------------------------------

Closed(pc) == pc \in {"idle", "refused", "conflict", "failed", "ok", "done"}

\* NewServer warms the cache from the ledger.
Restart ==
    /\ Fault
    /\ cache' = ledger
    /\ registry' = [n \in Nodes |-> "none"] /\ beat' = [n \in Nodes |-> NoBeat]
    /\ req' = [r \in Requests |-> IF Closed(req[r].pc) THEN req[r] ELSE [req[r] EXCEPT !.pc = "failed"]]
    /\ revoker' = [v \in Revokers |-> IF Closed(revoker[v].pc) THEN revoker[v] ELSE [revoker[v] EXCEPT !.pc = "failed"]]
    /\ join' = [j \in Joins |-> IF Closed(join[j].pc) THEN join[j] ELSE [join[j] EXCEPT !.pc = "failed"]]
    /\ UNCHANGED <<token, row, ledger, owner>>

Init ==
    /\ token = [t \in Tokens |-> None] /\ row = [n \in Nodes |-> None]
    /\ ledger = {} /\ cache = {}
    /\ req = [r \in Requests |-> [pc |-> "idle", node |-> None, token |-> None]]
    /\ owner = [s \in Serials |-> None] /\ registry = [n \in Nodes |-> "none"]
    /\ beat = [n \in Nodes |-> NoBeat]
    /\ revoker = [v \in Revokers |-> [pc |-> "idle", node |-> None, serial |-> None]]
    /\ join = [j \in Joins |-> [pc |-> "idle", node |-> None]]
    /\ faults = 0

EnrollStep(r) == UseToken(r) \/ TokenRefused(r) \/ IssueCertIfAbsent(r) \/ IdentityExists(r)
                 \/ RevokeSerial(r) \/ UncacheSerial(r) \/ Deliver(r)
RevokeStep(v) == RevokeCert(v) \/ CacheSerial(v) \/ DeregisterNode(v)
OperatorStep == \/ \E t \in Tokens : CreateToken(t) \/ CloseToken(t)
                \/ \E n \in Nodes : RevokeOffline(n) \/ \E s \in Rotations : CertIssue(s, n)

Next ==
    \/ \E r \in Requests : EnrollStep(r) \/ RequestFails(r) \/ \E n \in Nodes \ ByHand, t \in Tokens : CheckIdentity(r, n, t)
    \/ \E v \in Revokers : RevokeStep(v) \/ RevokeFails(v) \/ \E n \in Nodes : FindCert(v, n)
    \/ \E j \in Joins : RegisterNode(j) \/ \E n \in Nodes : Authorize(j, n)
    \/ \E n \in Nodes : BeatAges(n) \/ PruneStaleNode(n) \/ \E s \in Serials, time \in Stamps : Heartbeat(n, s, time)
    \/ OperatorStep
    \/ Restart

Spec == Init /\ [][Next]_vars

\* Handlers that have started run on, time passes and the prune loop keeps
\* running.  Nothing is assumed of the nodes, which may beat or not.
Fairness ==
    /\ \A r \in Requests : WF_vars(EnrollStep(r))
    /\ \A v \in Revokers : WF_vars(RevokeStep(v))
    /\ \A j \in Joins : WF_vars(RegisterNode(j))
    /\ \A n \in Nodes : WF_vars(BeatAges(n)) /\ WF_vars(PruneStaleNode(n))

FairSpec == Spec /\ Fairness

-----------------------------------------------------------------------------
(* Properties.                                                             *)

RequestPCs == {"idle", "token", "issue", "supersede", "uncache", "answer", "ok", "refused", "conflict", "failed"}
RevokerPCs == {"idle", "write", "cache", "evict", "done", "failed"}

\* Type invariant.
TypeOK ==
    /\ token \in [Tokens -> TokenRow \cup {None}] /\ row \in [Nodes -> CertRow \cup {None}]
    /\ ledger \subseteq Serials /\ cache \subseteq Serials
    /\ owner \in [Serials -> Nodes \cup {None}]
    /\ registry \in [Nodes -> {"none", "online", "offline"}]
    /\ beat \in [Nodes -> [by : Nodes \cup {None}, stamp : Stamps]]
    /\ req \in [Requests -> [pc : RequestPCs, node : Nodes \cup {None}, token : Tokens \cup {None}]]
    /\ revoker \in [Revokers -> [pc : RevokerPCs, node : Nodes \cup {None}, serial : Requests \cup {None}]]
    /\ join \in [Joins -> [pc : {"idle", "admitted", "done", "failed"}, node : Nodes \cup {None}]]
    /\ faults \in 0 .. MaxFaults

\* However requests race for one node id, at most one certificate for it leaves
\* the coordinator, it is the one on record, which a revocation finds, and what
\* was signed for a request that lost the race is revoked (handlers.go:343).
OneIdentity ==
    /\ \A r \in Requests : owner[r] # None => row[owner[r]] # None /\ row[owner[r]].serial = r
    /\ \A r \in Requests : At(r, "conflict") => IsCertRevoked(r)

\* A token is used at most max_uses times, every use is on record, and nobody
\* gets a certificate without a use of its own.
TokenAccounting ==
    /\ \A t \in Tokens : token[t] # None =>
           token[t].uses = Cardinality(token[t].usedBy) /\ token[t].uses <= MaxUses
    /\ \A r \in Requests : owner[r] # None => r \in token[req[r].token].usedBy

\* The answer to "is it revoked" is the ledger's, although the cache in front
\* of it is written apart from it, by handlers that race (server.go:359).
RevocationAuthoritative == \A s \in Serials : IsCertRevoked(s) <=> s \in ledger

AllRevoked(n) == CertsOf(n) # {} /\ \A s \in CertsOf(n) : IsCertRevoked(s)

\* What keeps a node online that cannot beat itself: the certificate of another
\* node, or a stamp from ahead of the coordinator's clock.
Vouched(n) == registry[n] = "online" /\ (beat[n].by # n \/ beat[n].stamp = "future")

\* A node that has no valid certificate left stops being offered tasks for good,
\* also when a join of it was under way during the revocation, unless it is kept
\* up by what the code does not check of a heartbeat (handlers.go:472).
RevokedFades ==
    \A n \in Nodes : <>[]AllRevoked(n) => <>[](registry[n] # "online") \/ []<>Vouched(n)

\* README.md:528: a revocation marks the certificate and deregisters the node
\* in one atomic operation.
RevocationEvicts ==
    \A v \in Revokers : revoker[v].pc = "done" /\ AllRevoked(revoker[v].node)
        => registry[revoker[v].node] = "none"
=============================================================================
