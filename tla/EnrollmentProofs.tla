-------------------------- MODULE EnrollmentProofs --------------------------
(***************************************************************************)
(* Theorems about Enrollment, for any nodes, tokens and requests.          *)
(***************************************************************************)
EXTENDS Enrollment, FiniteSetTheorems, TLAPS

-----------------------------------------------------------------------------
(* The inductive invariant, by table.                                      *)

\* A handler that has started knows which node and which token it is about.
HandlersNamed ==
    /\ \A r \in Requests : req[r].pc # "idle" => req[r].node \in Nodes /\ req[r].token \in Tokens
    /\ \A v \in Revokers : revoker[v].pc # "idle" => revoker[v].node \in Nodes /\ revoker[v].serial \in Requests
    /\ \A j \in Joins : join[j].pc # "idle" => join[j].node \in Nodes

\* node_certs: a request that won the insert is on the row of its node, and
\* only such a request hands out a certificate; the row a revocation has read
\* still carries the serial it read.
RowsMatch ==
    /\ \A r \in Requests :
           /\ req[r].pc \in {"uncache", "answer", "ok"} =>
                  row[req[r].node] # None /\ row[req[r].node].serial = r
           /\ owner[r] # None => req[r].pc = "ok" /\ owner[r] = req[r].node
    /\ \A v \in Revokers :
           revoker[v].pc \in {"write", "cache"} =>
               row[revoker[v].node] # None /\ row[revoker[v].node].serial = revoker[v].serial

\* revoked_serials: whatever the cache says, and what a loser signed, is there.
LedgerMatches ==
    /\ cache \subseteq ledger
    /\ \A r \in Requests : req[r].pc = "conflict" => r \in ledger
    /\ \A v \in Revokers : revoker[v].pc = "cache" => revoker[v].serial \in ledger

\* enrollment_tokens: the counter counts the requests that used the token.
TokensMatch ==
    /\ \A t \in Tokens : token[t] # None =>
           /\ IsFiniteSet(token[t].usedBy)
           /\ token[t].uses = Cardinality(token[t].usedBy) /\ token[t].uses <= MaxUses
    /\ \A r \in Requests :
           /\ req[r].pc \in {"idle", "token"} =>
                  \A t \in Tokens : token[t] # None => r \notin token[t].usedBy
           /\ req[r].pc \in {"issue", "supersede", "uncache", "answer", "ok"} =>
                  token[req[r].token] # None /\ r \in token[req[r].token].usedBy

EnrollInv == TypeOK /\ HandlersNamed /\ RowsMatch /\ LedgerMatches /\ TokensMatch

LEMMA InitInv == Init => EnrollInv
<1> SUFFICES ASSUME Init PROVE EnrollInv
  OBVIOUS
<1>1. TypeOK
  BY EnrollmentAssumption DEF Init, TypeOK, Serials, Stamps, NoBeat, RequestPCs, RevokerPCs
<1>2. HandlersNamed /\ RowsMatch /\ LedgerMatches /\ TokensMatch
  BY DEF Init, HandlersNamed, RowsMatch, LedgerMatches, TokensMatch, Serials
<1> QED BY <1>1, <1>2 DEF EnrollInv

\* One transaction of RevokeCert or of the command line: the row keeps its serial.
LEMMA RevokeRowKeeps ==
    ASSUME TypeOK, NEW n \in Nodes, row[n] # None, RevokeRow(n)
    PROVE  /\ row' \in [Nodes -> CertRow \cup {None}] /\ ledger' \subseteq Serials
           /\ ledger \subseteq ledger' /\ row[n].serial \in ledger'
           /\ \A m \in Nodes : row[m] # None => row'[m] # None /\ row'[m].serial = row[m].serial
<1>1. row[n] \in CertRow
  BY DEF TypeOK
<1>2. /\ [row[n] EXCEPT !.revoked = TRUE] \in CertRow
      /\ [row[n] EXCEPT !.revoked = TRUE].serial = row[n].serial
  BY <1>1 DEF CertRow
<1>3. row' = [row EXCEPT ![n] = [row[n] EXCEPT !.revoked = TRUE]]
  BY DEF RevokeRow
<1>4. \A m \in Nodes : row'[m] = IF m = n THEN [row[n] EXCEPT !.revoked = TRUE] ELSE row[m]
  BY <1>3 DEF TypeOK
<1>5. ledger' = ledger \cup {row[n].serial} /\ row[n].serial \in Serials
  BY <1>1 DEF RevokeRow, CertRow, Serials
<1>6. row' \in [Nodes -> CertRow \cup {None}]
  BY <1>2, <1>3 DEF TypeOK
<1> QED BY <1>2, <1>4, <1>5, <1>6, EnrollmentAssumption DEF TypeOK

\* The UPDATE of UseToken, on the row of the token the request names.
LEMMA UseTokenRow ==
    ASSUME TypeOK, HandlersNamed, NEW r \in Requests, UseToken(r)
    PROVE  LET t == req[r].token
           IN  /\ t \in Tokens /\ token[t] \in TokenRow /\ token[t] # None /\ token[t].uses < MaxUses
               /\ token' \in [Tokens -> TokenRow \cup {None}]
               /\ token'[t] \in TokenRow
               /\ token'[t].uses = token[t].uses + 1 /\ token'[t].usedBy = token[t].usedBy \cup {r}
               /\ \A u \in Tokens \ {t} : token'[u] = token[u]
<1> DEFINE t == req[r].token
           used == Used(token[t], r)
<1>1. t \in Tokens /\ token[t] # None /\ token[t] \in TokenRow /\ token[t].uses < MaxUses
  BY DEF TypeOK, HandlersNamed, UseToken, Usable, At
<1>2. used \in TokenRow /\ used.uses = token[t].uses + 1 /\ used.usedBy = token[t].usedBy \cup {r}
  BY <1>1 DEF TokenRow, Used
<1>3. token' = [token EXCEPT ![t] = used]
  BY DEF UseToken
<1> HIDE DEF used
<1> QED BY <1>1, <1>2, <1>3 DEF TypeOK

\* RevokeToken, or the day the token expires.
LEMMA CloseTokenRow ==
    ASSUME TypeOK, NEW t \in Tokens, CloseToken(t)
    PROVE  /\ token[t] # None /\ token'[t] \in TokenRow /\ token' \in [Tokens -> TokenRow \cup {None}]
           /\ token'[t].uses = token[t].uses /\ token'[t].usedBy = token[t].usedBy
           /\ \A u \in Tokens \ {t} : token'[u] = token[u]
<1> DEFINE closed == [token[t] EXCEPT !.open = FALSE]
<1>1. token[t] # None /\ token[t] \in TokenRow
  BY DEF TypeOK, CloseToken
<1>2. closed \in TokenRow /\ closed.uses = token[t].uses /\ closed.usedBy = token[t].usedBy
  BY <1>1 DEF TokenRow
<1>3. token' = [token EXCEPT ![t] = closed]
  BY DEF CloseToken
<1> HIDE DEF closed
<1> QED BY <1>1, <1>2, <1>3 DEF TypeOK

\* A restart closes the handlers that were under way and changes no other field.
LEMMA RestartHandlers ==
    ASSUME TypeOK, HandlersNamed, Restart
    PROVE  /\ req' \in [Requests -> [pc : RequestPCs, node : Nodes \cup {None}, token : Tokens \cup {None}]]
           /\ revoker' \in [Revokers -> [pc : RevokerPCs, node : Nodes \cup {None}, serial : Requests \cup {None}]]
           /\ join' \in [Joins -> [pc : {"idle", "admitted", "done", "failed"}, node : Nodes \cup {None}]]
           /\ HandlersNamed'
<1>1. /\ req' \in [Requests -> [pc : RequestPCs, node : Nodes \cup {None}, token : Tokens \cup {None}]]
      /\ \A r \in Requests : req'[r].pc # "idle" => req'[r].node \in Nodes /\ req'[r].token \in Tokens
  <2>1. ASSUME NEW r \in Requests
        PROVE  req'[r] \in [pc : RequestPCs, node : Nodes \cup {None}, token : Tokens \cup {None}] /\ (req'[r].pc # "idle" => req'[r].node \in Nodes /\ req'[r].token \in Tokens)
    <3> DEFINE over == [req[r] EXCEPT !.pc = "failed"]
    <3>1. req'[r] = IF Closed(req[r].pc) THEN req[r] ELSE over
      BY DEF Restart
    <3>2. req[r] \in [pc : RequestPCs, node : Nodes \cup {None}, token : Tokens \cup {None}]
      BY DEF TypeOK
    <3>3. over \in [pc : RequestPCs, node : Nodes \cup {None}, token : Tokens \cup {None}] /\ over.node = req[r].node /\ over.token = req[r].token
      BY <3>2 DEF RequestPCs, RevokerPCs
    <3> HIDE DEF over
    <3>4. CASE req'[r] = req[r]
      BY <3>2, <3>4 DEF HandlersNamed
    <3>5. CASE req'[r] = over /\ req[r].pc # "idle"
      BY <3>3, <3>5 DEF HandlersNamed
    <3> QED BY <3>1, <3>4, <3>5 DEF Closed
  <2>2. req' = [r \in Requests |-> req'[r]]
    BY DEF Restart
  <2> QED BY <2>1, <2>2
<1>2. /\ revoker' \in [Revokers -> [pc : RevokerPCs, node : Nodes \cup {None}, serial : Requests \cup {None}]]
      /\ \A v \in Revokers : revoker'[v].pc # "idle" => revoker'[v].node \in Nodes /\ revoker'[v].serial \in Requests
  <2>1. ASSUME NEW v \in Revokers
        PROVE  revoker'[v] \in [pc : RevokerPCs, node : Nodes \cup {None}, serial : Requests \cup {None}] /\ (revoker'[v].pc # "idle" => revoker'[v].node \in Nodes /\ revoker'[v].serial \in Requests)
    <3> DEFINE over == [revoker[v] EXCEPT !.pc = "failed"]
    <3>1. revoker'[v] = IF Closed(revoker[v].pc) THEN revoker[v] ELSE over
      BY DEF Restart
    <3>2. revoker[v] \in [pc : RevokerPCs, node : Nodes \cup {None}, serial : Requests \cup {None}]
      BY DEF TypeOK
    <3>3. over \in [pc : RevokerPCs, node : Nodes \cup {None}, serial : Requests \cup {None}] /\ over.node = revoker[v].node /\ over.serial = revoker[v].serial
      BY <3>2 DEF RequestPCs, RevokerPCs
    <3> HIDE DEF over
    <3>4. CASE revoker'[v] = revoker[v]
      BY <3>2, <3>4 DEF HandlersNamed
    <3>5. CASE revoker'[v] = over /\ revoker[v].pc # "idle"
      BY <3>3, <3>5 DEF HandlersNamed
    <3> QED BY <3>1, <3>4, <3>5 DEF Closed
  <2>2. revoker' = [v \in Revokers |-> revoker'[v]]
    BY DEF Restart
  <2> QED BY <2>1, <2>2
<1>3. /\ join' \in [Joins -> [pc : {"idle", "admitted", "done", "failed"}, node : Nodes \cup {None}]]
      /\ \A j \in Joins : join'[j].pc # "idle" => join'[j].node \in Nodes
  <2>1. ASSUME NEW j \in Joins
        PROVE  join'[j] \in [pc : {"idle", "admitted", "done", "failed"}, node : Nodes \cup {None}] /\ (join'[j].pc # "idle" => join'[j].node \in Nodes)
    <3> DEFINE over == [join[j] EXCEPT !.pc = "failed"]
    <3>1. join'[j] = IF Closed(join[j].pc) THEN join[j] ELSE over
      BY DEF Restart
    <3>2. join[j] \in [pc : {"idle", "admitted", "done", "failed"}, node : Nodes \cup {None}]
      BY DEF TypeOK
    <3>3. over \in [pc : {"idle", "admitted", "done", "failed"}, node : Nodes \cup {None}] /\ over.node = join[j].node
      BY <3>2 DEF RequestPCs, RevokerPCs
    <3> HIDE DEF over
    <3>4. CASE join'[j] = join[j]
      BY <3>2, <3>4 DEF HandlersNamed
    <3>5. CASE join'[j] = over /\ join[j].pc # "idle"
      BY <3>3, <3>5 DEF HandlersNamed
    <3> QED BY <3>1, <3>4, <3>5 DEF Closed
  <2>2. join' = [j \in Joins |-> join'[j]]
    BY DEF Restart
  <2> QED BY <2>1, <2>2
<1> QED BY <1>1, <1>2, <1>3 DEF HandlersNamed

LEMMA TypesStep == EnrollInv /\ [Next]_vars => TypeOK' /\ HandlersNamed'
<1> SUFFICES ASSUME EnrollInv, [Next]_vars PROVE TypeOK' /\ HandlersNamed'
  OBVIOUS
<1> USE EnrollmentAssumption DEF EnrollInv, TypeOK, HandlersNamed, Serials, Stamps, NoBeat, RequestPCs, RevokerPCs, certVars, Progress, At, Stage, Fault
<1>1. ASSUME NEW r \in Requests, NEW n \in Nodes, NEW t \in Tokens, CheckIdentity(r, n, t) PROVE TypeOK' /\ HandlersNamed'
  BY <1>1 DEF CheckIdentity
<1>2. ASSUME NEW r \in Requests, UseToken(r) PROVE TypeOK' /\ HandlersNamed'
  <2>1. token' \in [Tokens -> TokenRow \cup {None}]
    BY <1>2, UseTokenRow
  <2> QED BY <1>2, <2>1 DEF UseToken
<1>3. ASSUME NEW r \in Requests, TokenRefused(r) PROVE TypeOK' /\ HandlersNamed'
  BY <1>3 DEF TokenRefused
<1>4. ASSUME NEW r \in Requests, IssueCertIfAbsent(r) PROVE TypeOK' /\ HandlersNamed'
  BY <1>4 DEF IssueCertIfAbsent, SignCSR, CertRow
<1>5. ASSUME NEW r \in Requests, IdentityExists(r) PROVE TypeOK' /\ HandlersNamed'
  BY <1>5 DEF IdentityExists
<1>6. ASSUME NEW r \in Requests, RevokeSerial(r) PROVE TypeOK' /\ HandlersNamed'
  BY <1>6 DEF RevokeSerial
<1>7. ASSUME NEW r \in Requests, UncacheSerial(r) PROVE TypeOK' /\ HandlersNamed'
  BY <1>7 DEF UncacheSerial
<1>8. ASSUME NEW r \in Requests, Deliver(r) PROVE TypeOK' /\ HandlersNamed'
  BY <1>8 DEF Deliver
<1>9. ASSUME NEW r \in Requests, RequestFails(r) PROVE TypeOK' /\ HandlersNamed'
  BY <1>9, SMTT(30) DEF RequestFails
<1>10. ASSUME NEW v \in Revokers, NEW n \in Nodes, FindCert(v, n) PROVE TypeOK' /\ HandlersNamed'
  BY <1>10 DEF FindCert, CertRow
<1>11. ASSUME NEW v \in Revokers, RevokeCert(v) PROVE TypeOK' /\ HandlersNamed'
  <2>1. row' \in [Nodes -> CertRow \cup {None}] /\ ledger' \subseteq Serials
    BY <1>11, RevokeRowKeeps DEF RevokeCert, RowsMatch
  <2> QED BY <1>11, <2>1 DEF RevokeCert
<1>12. ASSUME NEW v \in Revokers, CacheSerial(v) PROVE TypeOK' /\ HandlersNamed'
  BY <1>12 DEF CacheSerial
<1>13. ASSUME NEW v \in Revokers, DeregisterNode(v) PROVE TypeOK' /\ HandlersNamed'
  BY <1>13, SMTT(30) DEF DeregisterNode
<1>14. ASSUME NEW v \in Revokers, RevokeFails(v) PROVE TypeOK' /\ HandlersNamed'
  BY <1>14 DEF RevokeFails
<1>15. ASSUME NEW j \in Joins, NEW n \in Nodes, Authorize(j, n) PROVE TypeOK' /\ HandlersNamed'
  BY <1>15 DEF Authorize
<1>16. ASSUME NEW j \in Joins, RegisterNode(j) PROVE TypeOK' /\ HandlersNamed'
  BY <1>16 DEF RegisterNode
<1>17. ASSUME NEW n \in Nodes, NEW s \in Serials, NEW time \in Stamps, Heartbeat(n, s, time) PROVE TypeOK' /\ HandlersNamed'
  BY <1>17 DEF Heartbeat
<1>25. ASSUME NEW n \in Nodes, BeatAges(n) PROVE TypeOK' /\ HandlersNamed'
  BY <1>25 DEF BeatAges
<1>18. ASSUME NEW n \in Nodes, PruneStaleNode(n) PROVE TypeOK' /\ HandlersNamed'
  BY <1>18 DEF PruneStaleNode
<1>19. ASSUME NEW t \in Tokens, CreateToken(t) PROVE TypeOK' /\ HandlersNamed'
  BY <1>19 DEF CreateToken, TokenRow
<1>20. ASSUME NEW t \in Tokens, CloseToken(t) PROVE TypeOK' /\ HandlersNamed'
  <2>1. token' \in [Tokens -> TokenRow \cup {None}]
    BY <1>20, CloseTokenRow
  <2> QED BY <1>20, <2>1 DEF CloseToken
<1>21. ASSUME NEW n \in Nodes, RevokeOffline(n) PROVE TypeOK' /\ HandlersNamed'
  <2>1. row' \in [Nodes -> CertRow \cup {None}] /\ ledger' \subseteq Serials
    BY <1>21, RevokeRowKeeps DEF RevokeOffline
  <2> QED BY <1>21, <2>1 DEF RevokeOffline
<1>22. ASSUME NEW s \in Rotations, NEW n \in Nodes, CertIssue(s, n) PROVE TypeOK' /\ HandlersNamed'
  BY <1>22 DEF CertIssue, GenerateNodeCert
<1>23. ASSUME Restart PROVE TypeOK' /\ HandlersNamed'
  <2>1. /\ token' = token /\ row' = row /\ ledger' = ledger /\ owner' = owner /\ cache' = ledger
        /\ registry' \in [Nodes -> {"none", "online", "offline"}] /\ beat' \in [Nodes -> [by : Nodes \cup {None}, stamp : Stamps]] /\ faults' \in 0 .. MaxFaults
    BY <1>23 DEF Restart
  <2>2. TypeOK'
    BY <1>23, <2>1, RestartHandlers
  <2>3. HandlersNamed'
    BY <1>23, RestartHandlers
  <2> QED BY <2>2, <2>3
<1>24. CASE UNCHANGED vars
  BY <1>24 DEF vars
<1> HIDE DEF EnrollInv, TypeOK, HandlersNamed, Serials, Stamps, NoBeat, RequestPCs, RevokerPCs, certVars
<1> QED BY <1>1, <1>2, <1>3, <1>4, <1>5, <1>6, <1>7, <1>8, <1>9, <1>10, <1>11, <1>12, <1>13, <1>14, <1>15, <1>16, <1>17, <1>25, <1>18, <1>19, <1>20, <1>21, <1>22, <1>23, <1>24 DEF Next, EnrollStep, RevokeStep, OperatorStep

LEMMA RowsStep == EnrollInv /\ [Next]_vars => RowsMatch'
<1> SUFFICES ASSUME EnrollInv, [Next]_vars PROVE RowsMatch'
  OBVIOUS
<1> USE EnrollmentAssumption DEF EnrollInv, TypeOK, HandlersNamed, RowsMatch, Serials, RequestPCs, RevokerPCs, certVars, Progress, At, Stage, Fault
<1>1. ASSUME NEW r \in Requests, NEW n \in Nodes, NEW t \in Tokens, CheckIdentity(r, n, t) PROVE RowsMatch'
  BY <1>1 DEF CheckIdentity
<1>2. ASSUME NEW r \in Requests, UseToken(r) PROVE RowsMatch'
  BY <1>2 DEF UseToken, Usable
<1>3. ASSUME NEW r \in Requests, TokenRefused(r) PROVE RowsMatch'
  BY <1>3 DEF TokenRefused
<1>4. ASSUME NEW r \in Requests, IssueCertIfAbsent(r) PROVE RowsMatch'
  <2>1. SignCSR(r) \in CertRow /\ SignCSR(r).serial = r
    BY DEF SignCSR, CertRow
  <2>2. /\ row'[req[r].node] # None /\ row'[req[r].node].serial = r
        /\ \A m \in Nodes : row[m] # None => row'[m] = row[m]
    BY <1>4, <2>1 DEF IssueCertIfAbsent
  <2> QED BY <1>4, <2>2 DEF IssueCertIfAbsent
<1>5. ASSUME NEW r \in Requests, IdentityExists(r) PROVE RowsMatch'
  BY <1>5 DEF IdentityExists
<1>6. ASSUME NEW r \in Requests, RevokeSerial(r) PROVE RowsMatch'
  BY <1>6 DEF RevokeSerial
<1>7. ASSUME NEW r \in Requests, UncacheSerial(r) PROVE RowsMatch'
  BY <1>7 DEF UncacheSerial
<1>8. ASSUME NEW r \in Requests, Deliver(r) PROVE RowsMatch'
  BY <1>8 DEF Deliver
<1>9. ASSUME NEW r \in Requests, RequestFails(r) PROVE RowsMatch'
  BY <1>9 DEF RequestFails
<1>10. ASSUME NEW v \in Revokers, NEW n \in Nodes, FindCert(v, n) PROVE RowsMatch'
  BY <1>10 DEF FindCert, CertRow
<1>11. ASSUME NEW v \in Revokers, RevokeCert(v) PROVE RowsMatch'
  <2>1. \A m \in Nodes : row[m] # None => row'[m] # None /\ row'[m].serial = row[m].serial
    BY <1>11, RevokeRowKeeps DEF RevokeCert
  <2>2. \A w \in Revokers : /\ revoker'[w].node = revoker[w].node /\ revoker'[w].serial = revoker[w].serial
                            /\ revoker'[w].pc \in {"write", "cache"} => revoker[w].pc \in {"write", "cache"}
    BY <1>11 DEF RevokeCert
  <2>3. req' = req /\ owner' = owner
    BY <1>11 DEF RevokeCert
  <2>4. ASSUME NEW q \in Requests, req[q].pc \in {"uncache", "answer", "ok"}
        PROVE  row'[req[q].node] # None /\ row'[req[q].node].serial = q
    BY <2>1, <2>4
  <2>5. ASSUME NEW w \in Revokers, revoker'[w].pc \in {"write", "cache"}
        PROVE  row'[revoker'[w].node] # None /\ row'[revoker'[w].node].serial = revoker'[w].serial
    <3>1. revoker[w].pc \in {"write", "cache"} /\ revoker[w].node \in Nodes
      BY <2>2, <2>5
    <3>2. row[revoker[w].node] # None /\ row[revoker[w].node].serial = revoker[w].serial
      BY <3>1
    <3> QED BY <2>1, <2>2, <3>1, <3>2
  <2> QED BY <2>3, <2>4, <2>5
<1>12. ASSUME NEW v \in Revokers, CacheSerial(v) PROVE RowsMatch'
  BY <1>12 DEF CacheSerial
<1>13. ASSUME NEW v \in Revokers, DeregisterNode(v) PROVE RowsMatch'
  BY <1>13 DEF DeregisterNode
<1>14. ASSUME NEW v \in Revokers, RevokeFails(v) PROVE RowsMatch'
  BY <1>14 DEF RevokeFails
<1>15. ASSUME NEW j \in Joins, NEW n \in Nodes, Authorize(j, n) PROVE RowsMatch'
  BY <1>15 DEF Authorize
<1>16. ASSUME NEW j \in Joins, RegisterNode(j) PROVE RowsMatch'
  BY <1>16 DEF RegisterNode
<1>17. ASSUME NEW n \in Nodes, NEW s \in Serials, NEW time \in Stamps, Heartbeat(n, s, time) PROVE RowsMatch'
  BY <1>17 DEF Heartbeat
<1>25. ASSUME NEW n \in Nodes, BeatAges(n) PROVE RowsMatch'
  BY <1>25 DEF BeatAges
<1>18. ASSUME NEW n \in Nodes, PruneStaleNode(n) PROVE RowsMatch'
  BY <1>18 DEF PruneStaleNode
<1>19. ASSUME NEW t \in Tokens, CreateToken(t) PROVE RowsMatch'
  BY <1>19 DEF CreateToken, TokenRow
<1>20. ASSUME NEW t \in Tokens, CloseToken(t) PROVE RowsMatch'
  BY <1>20 DEF CloseToken
<1>21. ASSUME NEW n \in Nodes, RevokeOffline(n) PROVE RowsMatch'
  <2>1. \A m \in Nodes : row[m] # None => row'[m] # None /\ row'[m].serial = row[m].serial
    BY <1>21, RevokeRowKeeps DEF RevokeOffline
  <2>2. \A w \in Revokers : /\ revoker'[w].node = revoker[w].node /\ revoker'[w].serial = revoker[w].serial
                            /\ revoker'[w].pc \in {"write", "cache"} => revoker[w].pc \in {"write", "cache"}
    BY <1>21 DEF RevokeOffline
  <2>3. req' = req /\ owner' = owner
    BY <1>21 DEF RevokeOffline
  <2>4. ASSUME NEW q \in Requests, req[q].pc \in {"uncache", "answer", "ok"}
        PROVE  row'[req[q].node] # None /\ row'[req[q].node].serial = q
    BY <2>1, <2>4
  <2>5. ASSUME NEW w \in Revokers, revoker'[w].pc \in {"write", "cache"}
        PROVE  row'[revoker'[w].node] # None /\ row'[revoker'[w].node].serial = revoker'[w].serial
    <3>1. revoker[w].pc \in {"write", "cache"} /\ revoker[w].node \in Nodes
      BY <2>2, <2>5
    <3>2. row[revoker[w].node] # None /\ row[revoker[w].node].serial = revoker[w].serial
      BY <3>1
    <3> QED BY <2>1, <2>2, <3>1, <3>2
  <2> QED BY <2>3, <2>4, <2>5
<1>22. ASSUME NEW s \in Rotations, NEW n \in Nodes, CertIssue(s, n) PROVE RowsMatch'
  BY <1>22 DEF CertIssue, GenerateNodeCert
<1>23. ASSUME Restart PROVE RowsMatch'
  BY <1>23 DEF Restart, Closed
<1>24. CASE UNCHANGED vars
  BY <1>24 DEF vars
<1> QED BY <1>1, <1>2, <1>3, <1>4, <1>5, <1>6, <1>7, <1>8, <1>9, <1>10, <1>11, <1>12, <1>13, <1>14, <1>15, <1>16, <1>17, <1>25, <1>18, <1>19, <1>20, <1>21, <1>22, <1>23, <1>24 DEF Next, EnrollStep, RevokeStep, OperatorStep

LEMMA LedgerStep == EnrollInv /\ [Next]_vars => LedgerMatches'
<1> SUFFICES ASSUME EnrollInv, [Next]_vars PROVE LedgerMatches'
  OBVIOUS
<1> USE EnrollmentAssumption DEF EnrollInv, TypeOK, HandlersNamed, RowsMatch, LedgerMatches, Serials, RequestPCs, RevokerPCs, certVars, Progress, At, Stage, Fault
<1>1. ASSUME NEW r \in Requests, NEW n \in Nodes, NEW t \in Tokens, CheckIdentity(r, n, t) PROVE LedgerMatches'
  BY <1>1 DEF CheckIdentity
<1>2. ASSUME NEW r \in Requests, UseToken(r) PROVE LedgerMatches'
  BY <1>2 DEF UseToken, Usable
<1>3. ASSUME NEW r \in Requests, TokenRefused(r) PROVE LedgerMatches'
  BY <1>3 DEF TokenRefused
<1>4. ASSUME NEW r \in Requests, IssueCertIfAbsent(r) PROVE LedgerMatches'
  BY <1>4 DEF IssueCertIfAbsent, SignCSR, CertRow
<1>5. ASSUME NEW r \in Requests, IdentityExists(r) PROVE LedgerMatches'
  BY <1>5 DEF IdentityExists
<1>6. ASSUME NEW r \in Requests, RevokeSerial(r) PROVE LedgerMatches'
  BY <1>6 DEF RevokeSerial
<1>7. ASSUME NEW r \in Requests, UncacheSerial(r) PROVE LedgerMatches'
  BY <1>7 DEF UncacheSerial
<1>8. ASSUME NEW r \in Requests, Deliver(r) PROVE LedgerMatches'
  BY <1>8 DEF Deliver
<1>9. ASSUME NEW r \in Requests, RequestFails(r) PROVE LedgerMatches'
  BY <1>9 DEF RequestFails
<1>10. ASSUME NEW v \in Revokers, NEW n \in Nodes, FindCert(v, n) PROVE LedgerMatches'
  BY <1>10 DEF FindCert, CertRow
<1>11. ASSUME NEW v \in Revokers, RevokeCert(v) PROVE LedgerMatches'
  BY <1>11 DEF RevokeCert, RevokeRow
<1>12. ASSUME NEW v \in Revokers, CacheSerial(v) PROVE LedgerMatches'
  BY <1>12 DEF CacheSerial
<1>13. ASSUME NEW v \in Revokers, DeregisterNode(v) PROVE LedgerMatches'
  BY <1>13 DEF DeregisterNode
<1>14. ASSUME NEW v \in Revokers, RevokeFails(v) PROVE LedgerMatches'
  BY <1>14 DEF RevokeFails
<1>15. ASSUME NEW j \in Joins, NEW n \in Nodes, Authorize(j, n) PROVE LedgerMatches'
  BY <1>15 DEF Authorize
<1>16. ASSUME NEW j \in Joins, RegisterNode(j) PROVE LedgerMatches'
  BY <1>16 DEF RegisterNode
<1>17. ASSUME NEW n \in Nodes, NEW s \in Serials, NEW time \in Stamps, Heartbeat(n, s, time) PROVE LedgerMatches'
  BY <1>17 DEF Heartbeat
<1>25. ASSUME NEW n \in Nodes, BeatAges(n) PROVE LedgerMatches'
  BY <1>25 DEF BeatAges
<1>18. ASSUME NEW n \in Nodes, PruneStaleNode(n) PROVE LedgerMatches'
  BY <1>18 DEF PruneStaleNode
<1>19. ASSUME NEW t \in Tokens, CreateToken(t) PROVE LedgerMatches'
  BY <1>19 DEF CreateToken, TokenRow
<1>20. ASSUME NEW t \in Tokens, CloseToken(t) PROVE LedgerMatches'
  BY <1>20 DEF CloseToken
<1>21. ASSUME NEW n \in Nodes, RevokeOffline(n) PROVE LedgerMatches'
  BY <1>21 DEF RevokeOffline, RevokeRow
<1>22. ASSUME NEW s \in Rotations, NEW n \in Nodes, CertIssue(s, n) PROVE LedgerMatches'
  BY <1>22 DEF CertIssue, GenerateNodeCert
<1>23. ASSUME Restart PROVE LedgerMatches'
  BY <1>23 DEF Restart, Closed
<1>24. CASE UNCHANGED vars
  BY <1>24 DEF vars
<1> QED BY <1>1, <1>2, <1>3, <1>4, <1>5, <1>6, <1>7, <1>8, <1>9, <1>10, <1>11, <1>12, <1>13, <1>14, <1>15, <1>16, <1>17, <1>25, <1>18, <1>19, <1>20, <1>21, <1>22, <1>23, <1>24 DEF Next, EnrollStep, RevokeStep, OperatorStep

LEMMA TokensStep == EnrollInv /\ [Next]_vars => TokensMatch'
<1> SUFFICES ASSUME EnrollInv, [Next]_vars PROVE TokensMatch'
  OBVIOUS
<1> USE EnrollmentAssumption DEF EnrollInv, TypeOK, HandlersNamed, TokensMatch, Serials, RequestPCs, RevokerPCs, certVars, Progress, At, Stage, Fault
<1>1. ASSUME NEW r \in Requests, NEW n \in Nodes, NEW t \in Tokens, CheckIdentity(r, n, t) PROVE TokensMatch'
  BY <1>1 DEF CheckIdentity
<1>2. ASSUME NEW r \in Requests, UseToken(r) PROVE TokensMatch'
  <2> DEFINE t == req[r].token
  <2>1. /\ t \in Tokens /\ token[t] \in TokenRow /\ token[t] # None /\ token[t].uses < MaxUses
        /\ token'[t] \in TokenRow
        /\ token'[t].uses = token[t].uses + 1 /\ token'[t].usedBy = token[t].usedBy \cup {r}
        /\ \A u \in Tokens \ {t} : token'[u] = token[u]
    BY <1>2, UseTokenRow
  <2>2. r \notin token[t].usedBy
    BY <1>2, <2>1 DEF UseToken
  <2>3. /\ IsFiniteSet(token'[t].usedBy)
        /\ token'[t].uses = Cardinality(token'[t].usedBy) /\ token'[t].uses <= MaxUses
    BY <2>1, <2>2, FS_AddElement, FS_CardinalityType, SMTT(30)
  <2>4. token'[t] # None
    BY <2>1
  <2>5. /\ req'[r].pc = "issue" /\ req'[r].token = t
        /\ \A q \in Requests \ {r} : req'[q] = req[q]
    BY <1>2 DEF UseToken
  <2>6. \A q \in Requests \ {r} : q \in token'[t].usedBy <=> q \in token[t].usedBy
    BY <2>1
  <2> HIDE DEF t
  <2>7. \A u \in Tokens : token'[u] # None =>
           /\ IsFiniteSet(token'[u].usedBy)
           /\ token'[u].uses = Cardinality(token'[u].usedBy) /\ token'[u].uses <= MaxUses
    BY <2>1, <2>3
  <2>8. ASSUME NEW q \in Requests, req'[q].pc \in {"idle", "token"}, NEW u \in Tokens, token'[u] # None
        PROVE  q \notin token'[u].usedBy
    <3>1. q # r /\ req[q].pc \in {"idle", "token"}
      BY <2>5, <2>8
    <3>2. token[u] # None => q \notin token[u].usedBy
      BY <3>1
    <3> QED BY <2>1, <2>6, <2>8, <3>1, <3>2
  <2>9. ASSUME NEW q \in Requests, req'[q].pc \in {"issue", "supersede", "uncache", "answer", "ok"}
        PROVE  token'[req'[q].token] # None /\ q \in token'[req'[q].token].usedBy
    <3>1. CASE q = r
      BY <2>1, <2>4, <2>5, <3>1
    <3>2. CASE q # r
      <4>1. req[q].token \in Tokens /\ token[req[q].token] # None /\ q \in token[req[q].token].usedBy
        BY <2>5, <2>9, <3>2
      <4> QED BY <2>1, <2>4, <2>5, <2>6, <3>2, <4>1
    <3> QED BY <3>1, <3>2
  <2> QED BY <2>7, <2>8, <2>9
<1>3. ASSUME NEW r \in Requests, TokenRefused(r) PROVE TokensMatch'
  BY <1>3 DEF TokenRefused
<1>4. ASSUME NEW r \in Requests, IssueCertIfAbsent(r) PROVE TokensMatch'
  BY <1>4 DEF IssueCertIfAbsent, SignCSR, CertRow
<1>5. ASSUME NEW r \in Requests, IdentityExists(r) PROVE TokensMatch'
  BY <1>5 DEF IdentityExists
<1>6. ASSUME NEW r \in Requests, RevokeSerial(r) PROVE TokensMatch'
  BY <1>6 DEF RevokeSerial
<1>7. ASSUME NEW r \in Requests, UncacheSerial(r) PROVE TokensMatch'
  BY <1>7 DEF UncacheSerial
<1>8. ASSUME NEW r \in Requests, Deliver(r) PROVE TokensMatch'
  BY <1>8 DEF Deliver
<1>9. ASSUME NEW r \in Requests, RequestFails(r) PROVE TokensMatch'
  BY <1>9 DEF RequestFails
<1>10. ASSUME NEW v \in Revokers, NEW n \in Nodes, FindCert(v, n) PROVE TokensMatch'
  BY <1>10 DEF FindCert, CertRow
<1>11. ASSUME NEW v \in Revokers, RevokeCert(v) PROVE TokensMatch'
  BY <1>11 DEF RevokeCert, RevokeRow
<1>12. ASSUME NEW v \in Revokers, CacheSerial(v) PROVE TokensMatch'
  BY <1>12 DEF CacheSerial
<1>13. ASSUME NEW v \in Revokers, DeregisterNode(v) PROVE TokensMatch'
  BY <1>13 DEF DeregisterNode
<1>14. ASSUME NEW v \in Revokers, RevokeFails(v) PROVE TokensMatch'
  BY <1>14 DEF RevokeFails
<1>15. ASSUME NEW j \in Joins, NEW n \in Nodes, Authorize(j, n) PROVE TokensMatch'
  BY <1>15 DEF Authorize
<1>16. ASSUME NEW j \in Joins, RegisterNode(j) PROVE TokensMatch'
  BY <1>16 DEF RegisterNode
<1>17. ASSUME NEW n \in Nodes, NEW s \in Serials, NEW time \in Stamps, Heartbeat(n, s, time) PROVE TokensMatch'
  BY <1>17 DEF Heartbeat
<1>25. ASSUME NEW n \in Nodes, BeatAges(n) PROVE TokensMatch'
  BY <1>25 DEF BeatAges
<1>18. ASSUME NEW n \in Nodes, PruneStaleNode(n) PROVE TokensMatch'
  BY <1>18 DEF PruneStaleNode
<1>19. ASSUME NEW t \in Tokens, CreateToken(t) PROVE TokensMatch'
  <2>1. /\ token'[t] \in TokenRow /\ token'[t].uses = 0 /\ token'[t].usedBy = {}
        /\ \A u \in Tokens \ {t} : token'[u] = token[u]
    BY <1>19 DEF CreateToken, TokenRow
  <2>2. IsFiniteSet({}) /\ Cardinality({}) = 0
    BY FS_EmptySet
  <2>3. token[t] = None /\ req' = req
    BY <1>19 DEF CreateToken
  <2>4. \A u \in Tokens : token'[u] # None =>
           /\ IsFiniteSet(token'[u].usedBy)
           /\ token'[u].uses = Cardinality(token'[u].usedBy) /\ token'[u].uses <= MaxUses
    <3>1. 0 <= MaxUses
      OBVIOUS
    <3>2. TokensMatch
      OBVIOUS
    <3> QED BY ONLY <2>1, <2>2, <3>1, <3>2 DEF TokensMatch
  <2>5. \A q \in Requests, u \in Tokens :
           /\ token[u] # None /\ q \in token[u].usedBy => token'[u] # None /\ q \in token'[u].usedBy
           /\ token'[u] # None /\ q \in token'[u].usedBy => token[u] # None /\ q \in token[u].usedBy
    BY <2>1, <2>3
  <2> QED BY <2>3, <2>4, <2>5
<1>20. ASSUME NEW t \in Tokens, CloseToken(t) PROVE TokensMatch'
  <2>1. req' = req
    BY <1>20 DEF CloseToken
  <2>2. \A u \in Tokens :
           /\ token'[u] # None <=> token[u] # None
           /\ token[u] # None => token'[u].uses = token[u].uses /\ token'[u].usedBy = token[u].usedBy
    BY <1>20, CloseTokenRow
  <2> QED BY <2>1, <2>2
<1>21. ASSUME NEW n \in Nodes, RevokeOffline(n) PROVE TokensMatch'
  BY <1>21 DEF RevokeOffline, RevokeRow
<1>22. ASSUME NEW s \in Rotations, NEW n \in Nodes, CertIssue(s, n) PROVE TokensMatch'
  BY <1>22 DEF CertIssue, GenerateNodeCert
<1>23. ASSUME Restart PROVE TokensMatch'
  BY <1>23 DEF Restart, Closed
<1>24. CASE UNCHANGED vars
  BY <1>24 DEF vars
<1> QED BY <1>1, <1>2, <1>3, <1>4, <1>5, <1>6, <1>7, <1>8, <1>9, <1>10, <1>11, <1>12, <1>13, <1>14, <1>15, <1>16, <1>17, <1>25, <1>18, <1>19, <1>20, <1>21, <1>22, <1>23, <1>24 DEF Next, EnrollStep, RevokeStep, OperatorStep

LEMMA EnrollInvariant == Spec => []EnrollInv
<1>1. EnrollInv /\ [Next]_vars => EnrollInv'
  BY TypesStep, RowsStep, LedgerStep, TokensStep DEF EnrollInv
<1> QED BY InitInv, <1>1, PTL DEF Spec

-----------------------------------------------------------------------------
(* The theorems.                                                           *)

\* The tables, the cache and the handlers keep their types.
THEOREM TypeCorrect == Spec => []TypeOK
<1>1. EnrollInv => TypeOK
  BY DEF EnrollInv
<1> QED BY <1>1, EnrollInvariant, PTL

\* However many requests of handleCertsEnroll race for a node id, the one
\* certificate that leaves the coordinator is the one on record, and what was
\* signed for a loser is revoked.
THEOREM IdentityUnique == Spec => []OneIdentity
<1>1. EnrollInv => OneIdentity
  <2> SUFFICES ASSUME EnrollInv PROVE OneIdentity
    OBVIOUS
  <2>1. \A r \in Requests : owner[r] # None => row[owner[r]] # None /\ row[owner[r]].serial = r
    BY DEF EnrollInv, RowsMatch
  <2>2. \A r \in Requests : At(r, "conflict") => IsCertRevoked(r)
    BY DEF EnrollInv, LedgerMatches, At, IsCertRevoked
  <2> QED BY <2>1, <2>2 DEF OneIdentity
<1> QED BY <1>1, EnrollInvariant, PTL

\* UseToken counts: no token is used more than max_uses times, and every
\* certificate that was handed out by an enrollment used one.
THEOREM TokensAccounted == Spec => []TokenAccounting
<1>1. EnrollInv => TokenAccounting
  <2> SUFFICES ASSUME EnrollInv PROVE TokenAccounting
    OBVIOUS
  <2>1. \A t \in Tokens : token[t] # None =>
            token[t].uses = Cardinality(token[t].usedBy) /\ token[t].uses <= MaxUses
    BY DEF EnrollInv, TokensMatch
  <2>2. \A r \in Requests : owner[r] # None => r \in token[req[r].token].usedBy
    BY DEF EnrollInv, RowsMatch, TokensMatch
  <2> QED BY <2>1, <2>2 DEF TokenAccounting
<1> QED BY <1>1, EnrollInvariant, PTL

\* isCertRevoked answers what the ledger says, whichever handlers are between
\* their write to the table and their write to the cache.
THEOREM LedgerDecides == Spec => []RevocationAuthoritative
<1>1. EnrollInv => RevocationAuthoritative
  BY DEF EnrollInv, LedgerMatches, RevocationAuthoritative, IsCertRevoked
<1> QED BY <1>1, EnrollInvariant, PTL
=============================================================================
