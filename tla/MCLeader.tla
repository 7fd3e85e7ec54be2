------------------------------ MODULE MCLeader ------------------------------
(***************************************************************************)
(* What the leader keeps: its record of a worker, in its own variables;    *)
(* and, in the variables of the pool below, the record of a worker that    *)
(* says goodbye, the index of prefixes and its use, the views of what can  *)
(* be served, the keys of the auth file and those an operator manages, the *)
(* plan and policy files, the feed of events, and the leader's own starts  *)
(* and stops.  One of them runs in a behaviour.                            *)
(***************************************************************************)
EXTENDS NodeRegistry, Sequences, TLC

VARIABLES which,  \* the component that runs
          v1, v2, v3, v4, v5, v6, v7, v8, v9, v10, v11, v12, v13, v14, v15, v16
pool == <<v1, v2, v3, v4, v5, v6, v7, v8, v9, v10, v11, v12, v13, v14, v15, v16>>

\* The variables of the pool past the n-th are not used by the component that
\* runs.
Rest(n) ==
    /\ IF n < 1 THEN v1 = 0 ELSE TRUE
    /\ IF n < 2 THEN v2 = 0 ELSE TRUE
    /\ IF n < 3 THEN v3 = 0 ELSE TRUE
    /\ IF n < 4 THEN v4 = 0 ELSE TRUE
    /\ IF n < 5 THEN v5 = 0 ELSE TRUE
    /\ IF n < 6 THEN v6 = 0 ELSE TRUE
    /\ IF n < 7 THEN v7 = 0 ELSE TRUE
    /\ IF n < 8 THEN v8 = 0 ELSE TRUE
    /\ IF n < 9 THEN v9 = 0 ELSE TRUE
    /\ IF n < 10 THEN v10 = 0 ELSE TRUE
    /\ IF n < 11 THEN v11 = 0 ELSE TRUE
    /\ IF n < 12 THEN v12 = 0 ELSE TRUE
    /\ IF n < 13 THEN v13 = 0 ELSE TRUE
    /\ IF n < 14 THEN v14 = 0 ELSE TRUE
    /\ IF n < 15 THEN v15 = 0 ELSE TRUE
    /\ IF n < 16 THEN v16 = 0 ELSE TRUE
Still(n) ==
    /\ IF n < 7 THEN UNCHANGED v7 ELSE TRUE
    /\ IF n < 8 THEN UNCHANGED v8 ELSE TRUE
    /\ IF n < 9 THEN UNCHANGED v9 ELSE TRUE
    /\ IF n < 10 THEN UNCHANGED v10 ELSE TRUE
    /\ IF n < 11 THEN UNCHANGED v11 ELSE TRUE
    /\ IF n < 12 THEN UNCHANGED v12 ELSE TRUE
    /\ IF n < 13 THEN UNCHANGED v13 ELSE TRUE
    /\ IF n < 14 THEN UNCHANGED v14 ELSE TRUE
    /\ IF n < 15 THEN UNCHANGED v15 ELSE TRUE
    /\ IF n < 16 THEN UNCHANGED v16 ELSE TRUE
allVars == <<which, vars, pool>>

\* The handlers of the worker's calls are alike.
CallSymmetry == Permutations(Calls)

\* One command of an operator, and a process that ends in good order; one whose
\* engine does not answer it; and one with gangs whose rows are not deleted.
G == INSTANCE NodeRegistry WITH
    Happens <- {"drain", "goodbye"}, MaxOps <- 1
N == INSTANCE NodeRegistry WITH
    Happens <- {"drain", "undrain", "remove", "null"}, MaxBoots <- 1
U == INSTANCE NodeRegistry WITH
    Happens <- {"form", "unlisted", "undeleted"}, MaxOps <- 0

-----------------------------------------------------------------------------
(* The prefix index: a chain of two blocks, with a frame, a heartbeat or an *)
(* engine lost.                                                            *)

I == INSTANCE PrefixIndex WITH
    Blocks <- {"a", "b"}, Parent <- [a |-> "none", b |-> "a"], maxKnown <- 4, maxPending <- 3,
    prefixIndexPerWorker <- 2, Copies <- 2, MaxEvents <- 4, MaxLosses <- 1, card <- v1, ram <- v2,
    eseq <- v3, frames <- v4, tr <- v5, post <- v6, index <- v7, listed <- v8, events <- v9,
    losses <- v10, blurred <- v11

\* Its use: two workers whose blocks differ in size.
Prompt(head, tokens) == [head |-> head, tokens |-> tokens]
Prompts == {Prompt("x", <<1, 2, 3>>), Prompt("y", <<1, 2>>), Prompt("", <<>>)}
Budget(reports, asks, kinds) == [reports |-> reports, asks |-> asks, kinds |-> kinds]
LookupBudgets == {
    Budget(3, 0, {"removed", "stored", "cpu", "cpugone"}),
    Budget(2, 3, {"stored"}),
    Budget(2, 1, {"stored", "cpu"})}
P == INSTANCE PrefixLookup WITH
    Workers <- {"w1", "w2"}, BlockSize <- [w1 |-> 1, w2 |-> 2], Callers <- {"c1"},
    Requests <- Prompts, prefixTokenizeMax <- 2, prefixChainCacheSize <- 2, prefixChainTTL <- 1,
    tierGhostCap <- 2, tierGhostBuckets <- <<1, 2>>, MaxTime <- 2, Budgets <- LookupBudgets,
    Tries <- 2, blocks <- v1, alive <- v2, chains <- v3, call <- v4, now <- v5, budget <- v6,
    went <- v7

-----------------------------------------------------------------------------
(* Two workers that hold a model and a gang, with two callers *)

V == INSTANCE ServingView WITH
    Nodes <- {"n1", "n2"}, Parts <- {"n1", "n2"}, Callers <- {"c1", "c2"},
    PullDefaultModel <- FALSE, SleepsByDesign <- FALSE, Fallback <- TRUE, MaxTurns <- 2,
    engine <- v1, listed <- v2, row <- v3, coordinator <- v4, localEngine <- v5, withheld <- v6,
    flight <- v7, caller <- v8, turns <- v9

-----------------------------------------------------------------------------
(* Six snapshots of the auth file, the third garbled, the fourth with an   *)
(* expiry and an authority that cannot be read, the last one revoking the  *)
(* worker's certificate                                                    *)

Key(hash, exp) == [hash |-> hash, exp |-> exp]
Doc(keys, tomb, issued, mode, ca) ==
    [good |-> TRUE, keys |-> keys, tomb |-> tomb, issued |-> issued, mode |-> mode, ca |-> ca,
     revoked |-> FALSE]
Fifth == Doc([b |-> Key(3, 0)], {"a"}, 2, "require", "ca1")
AuthDocs == << Doc([a |-> Key(1, 0)], {"b"}, 1, "allow", "ca1"),
               Doc([a |-> Key(2, 2), b |-> Key(3, 0)], {}, 0, "require", "ca2"),
               [good |-> FALSE],
               Doc([a |-> Key(1, 99)], {}, 2, "require", "garbled"),
               Fifth, [Fifth EXCEPT !.revoked = TRUE] >>
A == INSTANCE AuthFile WITH
    Docs <- AuthDocs, Ids <- {"a", "b"}, Unreadable <- 99, MaxSnapshotAge <- 1, WorkerCA <- "ca1",
    MaxFaults <- 1, MaxClock <- 3, MaxJoins <- 3, file <- v1, seen <- v2, apply <- v3, rows <- v4,
    issued <- v5, mtls <- v6, gen <- v7, clock <- v8, faults <- v9, conn <- v10, bound <- v11,
    joins <- v12, answer <- v13, last <- v14, faulty <- v15, buried <- v16

T == INSTANCE Tokens WITH
    Ids <- {1, 2}, Callers <- {"c"}, Routes <- [chat |-> {"admin", "user"}, join |-> {"node"}],
    Ticks <- 2, Stamps <- {2}, TTLs <- {0, 1}, MaxTime <- 3, MaxEdits <- 1, rows <- v1, req <- v2,
    now <- v3, edits <- v4, meant <- v5, ended <- v6

-----------------------------------------------------------------------------
(* Three plans and two policies that replace one another *)

Plan(i, model, adapters, context, floor) ==
    [id |-> i, revision |-> i, model |-> model, adapters |-> adapters, context |-> context, floor |-> floor, max |-> 1, gangs |-> {}]
Policy(i, marks, sticky, isolation) == [id |-> i, marks |-> marks, sticky |-> sticky, isolation |-> isolation]
Named(base, adapter) == [base |-> base, adapter |-> adapter]
F == INSTANCE WatchedFiles WITH
    Plans <- {Plan(1, "m", {"a"}, 4, 0), Plan(2, "m", {}, 0, 1), Plan(3, "n", {}, 8, 0)},
    Policies <- {Policy(1, {}, 0, "none"), Policy(2, {"w"}, 2, "unknown")},
    Models <- {Named("m", ""), Named("m", "a"), Named("m", "x"), Named("n", "")}, Callers <- {"c"},
    StickyConfigured <- 1, MaxWrites <- 2, MaxTime <- 2, MaxChecks <- 1, file <- v1, watch <- v2,
    plan <- v3, policy <- v4, todo <- v5, told <- v6, call <- v7, now <- v8, writes <- v9,
    checks <- v10, blurred <- v11, turned <- v12

E == INSTANCE EventFeed WITH
    Publishers <- {"p1", "p2"}, Streams <- {"s1", "s2"}, Readers <- {"r"}, Buffer <- 1, Limit <- 1,
    Kept <- 1, MaxEvents <- 2, MaxRows <- 3, MaxOpens <- 2, MaxTrims <- 1, subs <- v1, chan <- v2,
    pub <- v3, events <- v4, log <- v5, lastId <- v6, reader <- v7, opens <- v8, trims <- v9,
    panicked <- v10, gone <- v11

-----------------------------------------------------------------------------
(* Two processes of `opod up`: one after the other, with every setting, while *)
(* keys are revoked; and one started while the other leaves, with writes that *)
(* fail                                                                       *)

Up(role, joinToken, adminToken) ==
    [role |-> role, joinToken |-> joinToken, adminToken |-> adminToken, llamacpp |-> TRUE, pull |-> TRUE,
     leaderURL |-> TRUE, listens |-> TRUE, unloadOnExit |-> FALSE]
UpSettings == <<
    {Up("leader", TRUE, FALSE),
     [Up("leader", FALSE, TRUE) EXCEPT !.llamacpp = FALSE, !.unloadOnExit = TRUE]},
    {Up("leader", TRUE, TRUE), Up("door", FALSE, FALSE), Up("gateway", FALSE, TRUE),
     [Up("leader", TRUE, FALSE) EXCEPT !.listens = FALSE], Up("brain", FALSE, FALSE)} >>
K == INSTANCE LeaderProcess WITH
    Procs <- {1, 2}, Settings <- UpSettings, Overlap <- "none", Pdeathsig <- TRUE, MaxTokens <- 1,
    MaxFaults <- 0, proc <- v1, key <- v2, placement <- v3, driver <- v4, drains <- v5,
    models <- v6, pid <- v7, port <- v8, engine <- v9, open <- v10, down <- v11, revoked <- v12,
    cut <- v13, faults <- v14

UpLeaving == <<{[Up("leader", FALSE, TRUE) EXCEPT !.unloadOnExit = TRUE]}, {Up("leader", TRUE, TRUE)}>>
L == INSTANCE LeaderProcess WITH
    Procs <- {1, 2}, Settings <- UpLeaving, Overlap <- "leaving", Pdeathsig <- TRUE, MaxTokens <- 0,
    MaxFaults <- 1, proc <- v1, key <- v2, placement <- v3, driver <- v4, drains <- v5,
    models <- v6, pid <- v7, port <- v8, engine <- v9, open <- v10, down <- v11, revoked <- v12,
    cut <- v13, faults <- v14

-----------------------------------------------------------------------------

MCInit ==
    \/ which = "nodes" /\ Init /\ Rest(0)
    \/ which = "goodbye" /\ G!Init /\ Rest(0)
    \/ which = "silent" /\ N!Init /\ Rest(0)
    \/ which = "gangs" /\ U!Init /\ Rest(0)
    \/ /\ Init
       /\ \/ which = "index" /\ I!Init /\ Rest(11)
          \/ which = "lookup" /\ P!Init /\ Rest(7)
          \/ which = "views" /\ V!Init /\ Rest(9)
          \/ which = "auth" /\ A!Init /\ Rest(16)
          \/ which = "tokens" /\ T!Init /\ Rest(6)
          \/ which = "files" /\ F!Init /\ Rest(12)
          \/ which = "feed" /\ E!Init /\ Rest(11)
          \/ which = "keys" /\ K!Init /\ Rest(14)
          \/ which = "leader" /\ L!Init /\ Rest(14)

NodeStep ==
    \/ which = "nodes" /\ Next
    \/ which = "goodbye" /\ G!Next
    \/ which = "silent" /\ N!Next
    \/ which = "gangs" /\ U!Next

PoolStep ==
    \/ which = "index" /\ I!Next /\ Still(11)
    \/ which = "lookup" /\ P!Next /\ Still(7)
    \/ which = "views" /\ V!Next /\ Still(9)
    \/ which = "auth" /\ A!Next /\ Still(16)
    \/ which = "tokens" /\ T!Next /\ Still(6)
    \/ which = "files" /\ F!Next /\ Still(12)
    \/ which = "feed" /\ E!Next /\ Still(11)
    \/ which = "keys" /\ K!Next /\ Still(14)
    \/ which = "leader" /\ L!Next /\ Still(14)

MCNext ==
    /\ UNCHANGED which
    /\ \/ NodeStep /\ UNCHANGED pool
       \/ PoolStep /\ UNCHANGED vars

MCSpec == MCInit /\ [][MCNext]_allVars

-----------------------------------------------------------------------------
(* Properties *)

\* prefixindex.go:13-18 "one that is wrong routes worse than none": when all
\* the engine said has been handed on, the leader believes of a worker only
\* blocks it holds.
IndexIsTrue == which = "index" => I!IndexIsTrue

\* The same for the blocks whose arrival and removal were not handed on
\* together; and a request is scored by its own prompt (translator, Apply,
\* resolveBlocks, prefixCacheKey).
PrefixesAreTrue ==
    /\ which = "index" => I!IndexIsTrueApart
    /\ which = "lookup" => P!ScoredByItsOwn

\* What admission, readiness, the load report and the refusals say of the
\* workers agrees, and a worker is woken once however many wait for it
\* (modelServable, slotsOf, readyz, unavailable, wakeForRequest).
ViewsAgree == which = "views" => V!ViewsAgree /\ V!NobodyWaitsInVain

\* The keys in force are those of the last snapshot of the auth file, a worker
\* is judged by the authority in force (applyAuthSnapshot, nodeCertGate), and a
\* key an operator manages lets in what the operator said (tokens.go); requests
\* are judged by a plan and a policy that were in force while they ran
\* (planfile.go, policyfile.go).
SettingsInForce ==
    /\ which = "auth" => A!KeysFollowFile /\ A!JudgedByCurrent
    /\ which = "tokens" => T!KeysObeyTheOperator
    /\ which = "files" => F!FilesSteer

\* No event is sent on a closed channel, and a reader of the log misses none
\* that is kept (the event bus, eventLogStream).
FeedIsSound == which = "feed" => E!FeedIsSound

\* A leader that serves takes over what the one before it left, its drains and
\* its PID file, but for what a failed write or a process still leaving undoes;
\* and a token an operator revoked is not brought back by a restart (server.go,
\* common.go, bootstrap.go).
LeaderTakesOver ==
    [][/\ which = "leader" => L!LeaderTakesOver'
       /\ which = "keys" => K!LeaderTakesOver' /\ K!RevokedStaysRevoked]_allVars
=============================================================================
