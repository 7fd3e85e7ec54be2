---------------------------- MODULE MCAdmission ----------------------------
(***************************************************************************)
(* The admission gate and the doors.  One of the components below runs in  *)
(* a behaviour, on a small instance of its own: the slot gate in its own   *)
(* variables, or another one in those of the pool.                         *)
(***************************************************************************)
EXTENDS SlotGate, TLC

VARIABLES which,  \* the component that runs
          v1, v2, v3, v4, v5, v6, v7, v8, v9, v10, v11, v12, v13, v14, v15
pool == <<v1, v2, v3, v4, v5, v6, v7, v8, v9, v10, v11, v12, v13, v14, v15>>

\* The variables of the pool past the n-th are not used by the component that
\* runs.
Rest(n) ==
    /\ IF n < 1 THEN v1 = 0 ELSE TRUE
    /\ IF n < 2 THEN v2 = 0 ELSE TRUE
    /\ IF n < 3 THEN v3 = 0 ELSE TRUE
    /\ IF n < 4 THEN v4 = 0 ELSE TRUE
    /\ IF n < 5 THEN v5 = 0 ELSE TRUE
    /\ IF n < 6 THEN v6 = 0 ELSE TRUE
    /\ IF n < 7 THEN v7 = 0 ELSE TRUE
    /\ IF n < 8 THEN v8 = 0 ELSE TRUE
    /\ IF n < 9 THEN v9 = 0 ELSE TRUE
    /\ IF n < 10 THEN v10 = 0 ELSE TRUE
    /\ IF n < 11 THEN v11 = 0 ELSE TRUE
    /\ IF n < 12 THEN v12 = 0 ELSE TRUE
    /\ IF n < 13 THEN v13 = 0 ELSE TRUE
    /\ IF n < 14 THEN v14 = 0 ELSE TRUE
    /\ IF n < 15 THEN v15 = 0 ELSE TRUE
Still(n) ==
    /\ IF n < 3 THEN UNCHANGED v3 ELSE TRUE
    /\ IF n < 4 THEN UNCHANGED v4 ELSE TRUE
    /\ IF n < 5 THEN UNCHANGED v5 ELSE TRUE
    /\ IF n < 6 THEN UNCHANGED v6 ELSE TRUE
    /\ IF n < 7 THEN UNCHANGED v7 ELSE TRUE
    /\ IF n < 8 THEN UNCHANGED v8 ELSE TRUE
    /\ IF n < 9 THEN UNCHANGED v9 ELSE TRUE
    /\ IF n < 10 THEN UNCHANGED v10 ELSE TRUE
    /\ IF n < 11 THEN UNCHANGED v11 ELSE TRUE
    /\ IF n < 12 THEN UNCHANGED v12 ELSE TRUE
    /\ IF n < 13 THEN UNCHANGED v13 ELSE TRUE
    /\ IF n < 14 THEN UNCHANGED v14 ELSE TRUE
    /\ IF n < 15 THEN UNCHANGED v15 ELSE TRUE
allVars == <<which, vars, pool>>

-----------------------------------------------------------------------------
(* The slot gate, and the round of a class over its flows *)

\* One worker with one slot, so that a hold of two fills up.
OneSlot == {[w1 |-> [slots |-> 1, kv |-> 0]]}

\* w1 has two slots; w2 has two as well, but its KV pool holds less than two
\* requests of the endpoint's context, so it counts one.
TwoWorkers == {[w1 |-> [slots |-> 2, kv |-> 0], w2 |-> [slots |-> 2, kv |-> 7]]}

\* One request of each class; the fourth's header lowers its key's class.
GateFlowOf == <<"fa", "fb", "fa", "fb">>
GateKeyClass == <<"critical", "standard", "sheddable", "">>
GateHeader == <<"", "critical", "", "sheddable">>

Class(name, holdMs, maxHeld, maxShare) ==
    [name |-> name, holdMs |-> holdMs, maxHeld |-> maxHeld, maxShare |-> maxShare]

\* A hold of two requests: critical may wait, the others have no budget.
Tight == [holdMs |-> 0, maxHeld |-> 2, classes |-> <<Class("critical", 50, 0, 0)>>]

\* No classes: every request is standard and may wait.
Classless == [holdMs |-> 50, maxHeld |-> 0, classes |-> <<>>]

OnlyTight == {Tight}

\* Three of the requests on two workers, and two while the policy changes.
G == INSTANCE SlotGate WITH
    Requests <- {1, 2, 3}, Workers <- {"w1", "w2"}, Reports <- TwoWorkers
P == INSTANCE SlotGate WITH
    Requests <- {1, 3}, Workers <- {"w1", "w2"}, Reports <- TwoWorkers,
    Policies <- {Tight, Classless}

-----------------------------------------------------------------------------
(* The round of a class queue over its flows: requests arrive, give up and *)
(* are served in any order the gate can produce.  v1 is the queue; v2[f][g] *)
(* counts how often flow g was served since flow f started waiting or was  *)
(* last served itself.                                                     *)

RoundFlowOf == <<"fa", "fa", "fa", "fb", "fb", "fc">>
RoundRequests == DOMAIN RoundFlowOf
NoPasses == [g \in Flows |-> 0]

RoundInit == v1 = EmptyQueue /\ v2 = [f \in Flows |-> NoPasses]

\* A request that found no slot is queued.
RoundArrive(r) ==
    LET f == RoundFlowOf[r] IN
    /\ r \notin Waiting(v1)
    /\ v1' = Push(v1, f, r)
    /\ v2' = IF v1.reqs[f] = <<>> THEN [v2 EXCEPT ![f] = NoPasses] ELSE v2

\* A freed slot goes to the next flow's oldest request.
RoundServe ==
    /\ v1.n > 0
    /\ LET g == RoundFlowOf[PopHead(v1)]
       IN  v2' = [f \in Flows |-> IF f = g \/ v1.reqs[f] = <<>> THEN NoPasses
                                  ELSE [v2[f] EXCEPT ![g] = @ + 1]]
    /\ v1' = PopRest(v1)

\* A waiting request leaves: its deadline, its client, or a shed.
RoundWithdraw(r) ==
    LET f == RoundFlowOf[r] IN
    /\ r \in Waiting(v1)
    /\ v1' = RemoveReq(v1, f, r)
    /\ v2' = IF Len(v1.reqs[f]) = 1 THEN [v2 EXCEPT ![f] = NoPasses] ELSE v2

RoundShed == v1.n > 0 /\ RoundWithdraw(NewestOfLargest(v1))

RoundNext == RoundServe \/ RoundShed \/ \E r \in RoundRequests : RoundArrive(r) \/ RoundWithdraw(r)

\* Deficit round robin starves no flow: while a flow waits, no other flow is
\* served twice ahead of it, whatever joins, leaves or comes back meanwhile
\* ("no flow waits more than one round of its class", drrQuantum).
OneRound == \A f, g \in Flows : v2[f][g] <= 1

\* The ring, its position and its counter describe the waiting requests after
\* any sequence of pushes, pops and removals (drrQueue's bookkeeping).
RingMatchesQueues == WellFormed(v1)

-----------------------------------------------------------------------------
(* The cell door, and a door's copy of the leader's registry *)

Auto(cands, pick, hops) == [auto |-> TRUE, cands |-> cands, pick |-> pick, hops |-> hops]
Name(e) == [auto |-> FALSE, cands |-> <<e>>, pick |-> "first", hops |-> 0]

\* Three endpoints behind an automatic route; the second of the files is no
\* good and the third has no named route.
ThreeEnds == <<"e1", "e2", "e3">>
ThreeFiles == << [good |-> TRUE, routes |-> ("auto" :> Auto(ThreeEnds, "first", 1) @@ "m" :> Name("e1"))],
                 [good |-> FALSE, routes |-> <<>>],
                 [good |-> TRUE, routes |-> ("auto" :> Auto(ThreeEnds, "least-loaded", 2))] >>
C == INSTANCE CellDoor WITH
    Files <- ThreeFiles, Aliases <- {"auto", "m"}, Tools <- {"e2", "e3"},
    Endpoints <- {"e1", "e2", "e3"}, doorLoadTTL <- 1, doorModelsTTL <- 2, doorModelsProbe <- 1,
    MaxTurns <- 2, MaxCalls <- 1, file <- v1, seen <- v2, reading <- v3, routes <- v4,
    endpoint <- v5, loads <- v6, request <- v7, listing <- v8, cached <- v9, gone <- v10,
    turns <- v11, calls <- v12

\* One endpoint, for a longer listing.
OneFiles == << [good |-> TRUE, routes |-> ("auto" :> Auto(<<"e1">>, "first", 0) @@ "m" :> Name("e1"))],
               [good |-> TRUE, routes |-> ("auto" :> Auto(<<"e1">>, "least-loaded", 0))] >>
C1 == INSTANCE CellDoor WITH
    Files <- OneFiles, Aliases <- {"auto", "m"}, Tools <- {}, Endpoints <- {"e1"}, doorLoadTTL <- 1,
    doorModelsTTL <- 1, doorModelsProbe <- 1, MaxTurns <- 5, MaxCalls <- 2, file <- v1, seen <- v2,
    reading <- v3, routes <- v4, endpoint <- v5, loads <- v6, request <- v7, listing <- v8,
    cached <- v9, gone <- v10, turns <- v11, calls <- v12

\* A tick is 2.5 seconds.  The leader is away for less than the workers'
\* back-off needs to outgrow the rebuild window; and for longer.
D == INSTANCE DoorMirror WITH
    Workers <- {"w1", "w2"}, Heartbeat <- 2, BackoffStop <- 6, registryRebuildWindow <- 6,
    registryRebuildCap <- 48, RegistryTTL <- 12, mirrorEvery <- 4, MaxOutage <- 3, MaxOutages <- 1,
    up <- v1, down <- v2, registry <- v3, since <- v4, firstJoin <- v5, gangs <- v6, running <- v7,
    timer <- v8, backoff <- v9, copy <- v10, copyGangs <- v11, okAge <- v12, syncIn <- v13,
    outages <- v14, good <- v15
DL == INSTANCE DoorMirror WITH
    Workers <- {"w1", "w2"}, Heartbeat <- 2, BackoffStop <- 6, registryRebuildWindow <- 6,
    registryRebuildCap <- 48, RegistryTTL <- 12, mirrorEvery <- 4, MaxOutage <- 7, MaxOutages <- 1,
    up <- v1, down <- v2, registry <- v3, since <- v4, firstJoin <- v5, gangs <- v6, running <- v7,
    timer <- v8, backoff <- v9, copy <- v10, copyGangs <- v11, okAge <- v12, syncIn <- v13,
    outages <- v14, good <- v15

-----------------------------------------------------------------------------

\* The gate while another component runs.
AtRest == Init /\ gate.cap = ZeroView

MCInit ==
    \/ which = "gate" /\ Init /\ Rest(0)
    \/ which = "workers" /\ G!Init /\ Rest(0)
    \/ which = "policy" /\ P!Init /\ Rest(0)
    \/ /\ AtRest
       /\ \/ which = "round" /\ RoundInit /\ Rest(2)
          \/ which = "cell" /\ C!Init /\ Rest(12)
          \/ which = "cell1" /\ C1!Init /\ Rest(12)
          \/ which = "mirror" /\ D!Init /\ Rest(15)

GateStep ==
    \/ which = "gate" /\ Next
    \/ which = "workers" /\ G!Next
    \/ which = "policy" /\ P!Next

\* A cell door rests once its endpoints, files and callers do.
PoolStep ==
    \/ which = "round" /\ RoundNext /\ Still(2)
    \/ which = "cell" /\ C!Next /\ Still(12)
    \/ which = "cell1" /\ C1!Next /\ Still(12)
    \/ which = "mirror" /\ D!Next /\ Still(15)
    \/ which \in {"cell", "cell1"} /\ UNCHANGED pool

MCNext ==
    /\ UNCHANGED which
    /\ \/ GateStep /\ UNCHANGED pool
       \/ PoolStep /\ UNCHANGED vars

MCSpec == MCInit /\ [][MCNext]_allVars

\* The long outage alone.
LongInit == which = "outage" /\ AtRest /\ DL!Init /\ Rest(15)
LongNext == DL!Next /\ UNCHANGED <<which, vars>>
LongSpec == LongInit /\ [][LongNext]_allVars

-----------------------------------------------------------------------------
(* Properties *)

\* The slot gate (admit, dispatch, enqueue, releaser): no slot is lost or held
\* twice, none idles beside a request that may use it, the queues and their
\* counts are those of the requests that wait, no waiter is left without a
\* completion that reaches it, and no flow of a class waits more than a round.
GateIsSound ==
    /\ which = "gate" => SlotsConserved /\ QueuesMatchWaiters /\ NoIdleSlot /\ WaitersHaveAReleaser
    /\ which = "workers" => G!SlotsConserved /\ G!QueuesMatchWaiters /\ G!NoIdleSlot /\ G!WaitersHaveAReleaser
    /\ which = "policy" => P!SlotsConserved /\ P!QueuesMatchWaiters /\ P!WaitersHaveAReleaser
    /\ which = "round" => OneRound /\ RingMatchesQueues

\* What no grant and no shed of the gate does (canGrant, dispatch, enqueue):
\* overtake a waiting request of a higher class, take the pool over its slots
\* or a class over its share, shed from any but the lowest class waiting or
\* for a request that is not above it.
GrantsInOrder ==
    [][/\ which = "gate" => StrictOrder /\ NoOvercommit /\ LowestShedFirst
       /\ which = "workers" => G!StrictOrder /\ G!NoOvercommit /\ G!LowestShedFirst]_allVars

\* The cell door (forwardAuto, doorTryNext, acceptedAliases): the first
\* candidate that can take a request answers it, nobody gets it twice, and a
\* listing names no alias whose route has been gone for longer than an answer
\* is kept.
DoorAnswers ==
    [][/\ which = "cell" => C!FirstAbleAnswers' /\ C!ListsRecent
       /\ which = "cell1" => C1!FirstAbleAnswers' /\ C1!ListsRecent]_allVars

\* A door's copy of the registry (Sync, dropUnlisted, syncShards): a restart of
\* the leader takes no worker that runs out of it, and two good syncs with a
\* leader whose list does not change make it that list.
MirrorFollows == [][which = "mirror" => D!KeepsStep /\ D!DoorFollows']_allVars

\* nodes.go:22: the list may miss workers for three heartbeats after the first
\* one came back, "so a worker whose first one was lost to the restart is back
\* too": the copy keeps every worker that runs, however long the leader was
\* away.
DoorKeepsWorkers == [][which = "outage" => DL!KeepsStep]_allVars
=============================================================================
