------------------------ MODULE MCTerritoryScheduler ------------------------
(* Small instances of TerritoryScheduler for TLC.                          *)
EXTENDS TerritoryScheduler

CONSTANTS a, b, c, login, api, docs

Req(repo, branch, surf, summary, priority, maxRetries, deadline) ==
    [repo |-> repo, branch |-> branch, surfaces |-> surf, summary |-> summary,
     priority |-> priority, maxRetries |-> maxRetries, deadline |-> deadline]

\* a and b want the same branch; c is on another branch and overlaps a.
MCRequest ==
    (a :> Req("repo", "main", {login}, "fix", 0, 1, TRUE)) @@
    (b :> Req("repo", "main", {}, "test", 0, 0, FALSE)) @@
    (c :> Req("repo", "dev", {login}, "lint", 150, 0, FALSE))

\* main and Main are one branch to ClashesWith and two locks.
MCFold == ("main" :> "main") @@ ("Main" :> "main") @@ ("dev" :> "dev")

MCOverlap == {<<login, login>>, <<api, api>>, <<login, api>>, <<api, login>>, <<docs, docs>>}

\* Every clash has its own kind: one branch (a, c), folded branch (a, b),
\* text (b, c); c is the most urgent.
MCRequestModes ==
    (a :> Req("repo", "main", {login}, "fix", 0, 1, TRUE)) @@
    (b :> Req("repo", "Main", {}, "test", 0, 0, FALSE)) @@
    (c :> Req("repo", "main", {}, "test", 150, 0, FALSE))

\* A peer that works on another repository.
MCUnrelatedPeer ==
    {[repo |-> "other", branch |-> "rel", surfaces |-> {login}, summary |-> "peer"]}

MCFoldModes == MCFold @@ ("rel" :> "rel")
=============================================================================
