------------------------------ MODULE MCGangs ------------------------------
(***************************************************************************)
(* The processes of gangs: the supervisor that runs them on a worker, in   *)
(* its own variables; and, in the variables of the pool below, the leader  *)
(* that forms gangs on workers, heals and removes them, and the operators  *)
(* by which it places them and ranks workers, over bounded inputs.  One of *)
(* them runs in a behaviour.                                               *)
(***************************************************************************)
EXTENDS Supervisor, Integers, Sequences, SequencesExt, FiniteSetsExt, TLC

VARIABLES which,  \* the component that runs
          v1, v2, v3, v4, v5, v6, v7, v8, v9, v10, v11, v12
pool == <<v1, v2, v3, v4, v5, v6, v7, v8, v9, v10, v11, v12>>

\* The variables of the pool past the n-th are not used by the component that
\* runs.
Rest(n) ==
    /\ IF n < 1 THEN v1 = 0 ELSE TRUE
    /\ IF n < 2 THEN v2 = 0 ELSE TRUE
    /\ IF n < 3 THEN v3 = 0 ELSE TRUE
    /\ IF n < 4 THEN v4 = 0 ELSE TRUE
    /\ IF n < 5 THEN v5 = 0 ELSE TRUE
    /\ IF n < 6 THEN v6 = 0 ELSE TRUE
    /\ IF n < 7 THEN v7 = 0 ELSE TRUE
    /\ IF n < 8 THEN v8 = 0 ELSE TRUE
    /\ IF n < 9 THEN v9 = 0 ELSE TRUE
    /\ IF n < 10 THEN v10 = 0 ELSE TRUE
    /\ IF n < 11 THEN v11 = 0 ELSE TRUE
    /\ IF n < 12 THEN v12 = 0 ELSE TRUE
Still(n) ==
    /\ IF n < 8 THEN UNCHANGED v8 ELSE TRUE
    /\ IF n < 9 THEN UNCHANGED v9 ELSE TRUE
    /\ IF n < 10 THEN UNCHANGED v10 ELSE TRUE
    /\ IF n < 11 THEN UNCHANGED v11 ELSE TRUE
    /\ IF n < 12 THEN UNCHANGED v12 ELSE TRUE
allVars == <<which, vars, pool>>

\* A rank of a vLLM gang, which the leader starts and which is not restarted
\* alone; an engine started in process, which is.
Rank == [async |-> TRUE, restart |-> FALSE]
InProcess == [async |-> FALSE, restart |-> TRUE]
StartRanks == {Rank}
StartBoth == {Rank, InProcess}

\* Two engines that are restarted and have no port to probe; one of either kind.
S2 == INSTANCE Supervisor WITH
    Requests <- {InProcess}, HealthPort <- FALSE
S1 == INSTANCE Supervisor WITH
    Requests <- StartBoth, MaxRecords <- 1

-----------------------------------------------------------------------------
(* Two workers, each with two creates and two teardowns of gangs *)

Pod == {"a", "b"}
Cs == {"c1", "c2"}
Ts == {"t1", "t2"}
InOrder == <<"a", "b">>
Creating(g, be, ws, h) == [gang |-> g, backend |-> be, workers |-> ws, head |-> h]
Removing(w, g, n) == [what |-> w, gang |-> g, node |-> n]

\* Two creates of one gang, under an operator's removal and a lost call.
SAsk == ("c1" :> Creating("g0", "sglang", InOrder, "a")) @@ ("c2" :> Creating("g0", "sglang", InOrder, "a"))
SKind == ("t1" :> Removing("gang", "g0", "a")) @@ ("t2" :> Removing("reconcile", "g0", "b"))
F == INSTANCE Gangs WITH
    Nodes <- Pod, Creates <- Cs, Teardowns <- Ts, Ask <- SAsk, Kind <- SKind, SameAddress <- {"a"},
    MaxBoots <- 1, MaxFaults <- 1, boot <- v1, known <- v2, procs <- v3, rows <- v4, placed <- v5,
    busy <- v6, cr <- v7, td <- v8, faults <- v9, touched <- v10, late <- v11, cut <- v12

\* A worker that is replaced, with the two reactions to it.
DAsk == ("c1" :> Creating("g0", "sglang", InOrder, "a")) @@ ("c2" :> Creating("g0", "llama", <<"b">>, "b"))
DKind == ("t1" :> Removing("reconcile", "g0", "a")) @@ ("t2" :> Removing("replaced", "g0", "b"))
D == INSTANCE Gangs WITH
    Nodes <- Pod, Creates <- Cs, Teardowns <- Ts, Ask <- DAsk, Kind <- DKind, SameAddress <- {"a"},
    MaxBoots <- 2, MaxFaults <- 0, boot <- v1, known <- v2, procs <- v3, rows <- v4, placed <- v5,
    busy <- v6, cr <- v7, td <- v8, faults <- v9, touched <- v10, late <- v11, cut <- v12

\* A create of the whole model beside one of a gang, under the removal of the
\* model and of a node.
MAsk == ("c1" :> Creating("", "llama", <<"a">>, "a")) @@ ("c2" :> Creating("g1", "expert", InOrder, "b"))
MKind == ("t1" :> Removing("model", "g0", "a")) @@ ("t2" :> Removing("removed", "g0", "b"))
M == INSTANCE Gangs WITH
    Nodes <- Pod, Creates <- Cs, Teardowns <- Ts, Ask <- MAsk, Kind <- MKind, SameAddress <- {"a"},
    MaxBoots <- 1, MaxFaults <- 1, boot <- v1, known <- v2, procs <- v3, rows <- v4, placed <- v5,
    busy <- v6, cr <- v7, td <- v8, faults <- v9, touched <- v10, late <- v11, cut <- v12

\* Two creates on one worker, with three lost calls: a part of the first may be
\* there when the second starts its own.
KAsk == [c \in Cs |-> Creating("g0", "llama", <<"a">>, "a")]
K == INSTANCE Gangs WITH
    Nodes <- {"a"}, Creates <- Cs, Teardowns <- {}, Ask <- KAsk, Kind <- <<>>, SameAddress <- {},
    MaxBoots <- 1, MaxFaults <- 3, boot <- v1, known <- v2, procs <- v3, rows <- v4, placed <- v5,
    busy <- v6, cr <- v7, td <- v8, faults <- v9, touched <- v10, late <- v11, cut <- v12

\* A coordinator on the leader, with a teardown that may be late.
HAsk == [c \in Cs |-> Creating("g0", "llama", InOrder, "local")]
HKind == ("t1" :> Removing("gang", "g0", "a"))
H == INSTANCE Gangs WITH
    Nodes <- Pod \cup {"local"}, Creates <- Cs, Teardowns <- {"t1"}, Ask <- HAsk, Kind <- HKind,
    SameAddress <- {}, MaxBoots <- 1, MaxFaults <- 0, boot <- v1, known <- v2, procs <- v3,
    rows <- v4, placed <- v5, busy <- v6, cr <- v7, td <- v8, faults <- v9, touched <- v10,
    late <- v11, cut <- v12

\* A healer with three gangs in its plan and workers for all of them.
Planned == <<"g0", "g1", "g2">>
HealSize == ("g0" :> 2) @@ ("g1" :> 1) @@ ("g2" :> 2)
L == INSTANCE GangHeal WITH
    Gangs <- Planned, Size <- HealSize, Workers <- 5, Doomed <- {"g0"}, MaxPlans <- 1,
    MaxHands <- 2, shape <- v1, held <- v2, absent <- v3, failed <- v4, forming <- v5, tick <- v6,
    plans <- v7, hands <- v8

\* A healer whose only gang may leave its plan.
O == INSTANCE GangHeal WITH
    Gangs <- <<"g0">>, Size <- HealSize, Workers <- 2, Doomed <- {}, MaxPlans <- 2, MaxHands <- 1,
    shape <- v1, held <- v2, absent <- v3, failed <- v4, forming <- v5, tick <- v6, plans <- v7,
    hands <- v8

-----------------------------------------------------------------------------
(* What a gang is shaped by, over bounded inputs: workers by memory, splits *)
(* of their devices, ports that are taken                                  *)

Memory(i, card, ram) == [id |-> i, card |-> card, ram |-> ram, free |-> card]
Teams == UNION {{[i \in 1 .. n |-> Memory(i, s[i][1], s[i][2])] : s \in [1 .. n -> (0 .. 3) \X (1 .. 2)]} : n \in 0 .. 3}
Splits == [devices : 0 .. 4, tp : 0 .. 4, pp : 0 .. 3]
Shapes ==
    {[team |-> t] : t \in Teams}
    \cup {[split |-> p, parts |-> n] : p \in Splits, n \in 1 .. 4}
    \cup {[used |-> u, span |-> s] : u \in SUBSET (1 .. 6), s \in 0 .. 2}
    \cup {[gangs |-> gs, cold |-> c, replacing |-> m] :
             gs \in SUBSET {[model |-> "x", parts |-> <<"a", "b">>, coordinator |-> "a"],
                            [model |-> "y", parts |-> <<>>, coordinator |-> "b"]},
             c \in BOOLEAN, m \in {"x", "none"}}

\* PickShards: the fewest equal parts that that many workers can hold, on
\* distinct workers that hold them.
ShardsAreRight(team, need, layers) ==
    LET fit(n) == Cardinality({i \in DOMAIN team : n * team[i].free >= need}) >= n /\ (layers > 0 => n <= layers)
        plan == F!PickShards(need, layers, team) IN
    IF \A n \in 1 .. Len(team) : ~fit(n) THEN plan = F!Refused
    ELSE /\ plan.shards = Min({n \in 1 .. Len(team) : fit(n)})
         /\ Cardinality(ToSet(plan.nodes)) = plan.shards /\ plan.part * plan.shards >= need
         /\ \A i \in DOMAIN team : team[i].id \in ToSet(plan.nodes) => team[i].free >= plan.part

\* pickWorkers and pickCoordinatorHost: no worker left out is stronger.
StrongestAreRight(workers) ==
    LET team == [i \in DOMAIN workers |-> [workers[i] EXCEPT !.id = <<"a", "b", "c">>[@]]] IN
    /\ \A n \in 1 .. Len(team) + 1 :
          LET picked == F!PickWorkers(team, n) IN
          IF n > Len(team) THEN picked = F!Refused
          ELSE /\ Cardinality(ToSet(picked)) = n
               /\ \A w \in ToSet(team) \ ToSet(picked), p \in ToSet(picked) : ~F!StrongerWorker(w, p)
    /\ \A named \in {"a", "local", "gone"} :
          LET host == F!PickCoordinatorHost(team, named) IN
          IF named \in {w.id : w \in ToSet(team)} \cup {"local"} THEN host = named
          ELSE IF team = <<>> THEN host = "local"
          ELSE \E w \in ToSet(team) : host = w.id /\ \A x \in ToSet(team) : ~F!StrongerWorker(x, w)

\* Parallelism.resolve and expertSplit: every device of every part is used once,
\* what was asked is kept, and only what cannot be so is refused.
SplitIsRight(p, parts) ==
    LET k == IF p.devices > 1 THEN p.devices ELSE 1
        ways == {x \in [tp : 1 .. parts * k, pp : 1 .. parts * k, devices : {k}] :
                   /\ x.tp * x.pp = parts * k /\ x.tp % k = 0
                   /\ (p.tp > 0 => x.tp = p.tp) /\ (p.pp > 0 => x.pp = p.pp)}
        expert == F!ExpertSplit(p, parts) IN
    /\ IF ways = {} THEN F!Resolve(p, parts) = F!Refused ELSE F!Resolve(p, parts) \in ways
    /\ F!ShardCountFor(p.devices, p.tp, [i \in 1 .. p.pp |-> "a"]) \in
          IF p.pp > 0 THEN {p.pp} ELSE IF p.tp > 0 THEN {p.tp} ELSE IF p.devices > 0 THEN {p.devices} ELSE {F!Refused}
    /\ expert = F!Refused <=> p.pp > 1 \/ (p.tp > 1 /\ k % p.tp # 0)
    /\ expert # F!Refused => /\ expert.dp * expert.tp = parts * k /\ expert.dp = parts * expert.local
                             /\ p.tp > 0 => expert.tp = p.tp

\* take and takeRange: the first free port, or block of ports, from the wanted one.
PortsAreRight(used, span) ==
    LET clear(b) == b .. b + span \cap used = {} IN
    /\ F!TakeRange(used, 2, span) = Min({b \in 2 .. 9 : clear(b)})
    /\ F!Take(used, 2) = F!TakeRange(used, 2, 0)
    /\ \A n \in {"a", "b"} : F!NewPortAllocator([node : {"a"}, port : used \cup {0}], n) = IF n = "a" THEN used ELSE {}

\* WorkerMemoryFacts: a model that stays counts its need once over the workers,
\* by its gang or, without one, by its placement; what is free is never less
\* than nothing.
MemoryIsRight(gangs, cold, replacing) ==
    LET need == [x |-> 4, y |-> 3]
        placed == {[node |-> "a", model |-> m, cold |-> cold] : m \in {"x", "y"}}
        on(n) == F!ResidentBytes(n, gangs, placed, need, replacing)
        counted(m) == IF m \in {x.model : x \in gangs} THEN m # replacing ELSE ~cold IN
    /\ on("a") + on("b") = (IF counted("x") THEN 4 ELSE 0) + (IF counted("y") THEN 3 ELSE 0)
    /\ F!FreeBytes(5, on("a")) = IF on("a") > 5 THEN 0 ELSE 5 - on("a")

-----------------------------------------------------------------------------
(* What the router is built from, over bounded inputs: samples in a window *)
(* of three, chains of three models, and what a caller may ask             *)

\* Operators of Router that depend on no constant or variable of it.
R == INSTANCE Router WITH
    Nodes <- {}, Gangs <- {}, Models <- {}, Requests <- {}, Placed <- {}, LocalHas <- {}, GangsOf <-
    {}, Coordinator <- {}, Ranks <- {}, Role <- {}, Revision <- {}, Peer <- {}, Slots <- {}, Signal
    <- {}, Defaults <- {}, Weights <- {}, Chains <- {}, Cap <- {}, P95s <- {}, Threshold <- {},
    AllowedFails <- {}, HedgeReplicas <- {}, Affinity <- {}, BlockWeight <- {}, KVWeight <- {},
    KVSaturation <- {}, Call <- {}, Answers <- {}, Events <- {}, Movers <- {}, Statuses <- {},
    Changes <- {}, row <- v1, forgetting <- v1, remotes <- v1, inflight <- v1, dim <- v1, cooling <-
    v1, fails <- v1, sticky <- v1, pins <- v1, pdFailing <- v1, turn <- v1, gone <- v1, changes <-
    v1, wiped <- v1, steady <- v1, req <- v1

Samples == BoundedSeq(1 .. 3, 6)
Measured == [{"x", "y", "z"} -> 0 .. 2]
Wishes == [retries : {-1, 0, 5, 6}, backoff : {-1, 0, 1, 700, 5000, 9000}, sort : {"", "latency", "cost"}]
Figures == {[samples |-> s] : s \in Samples} \cup {[measured |-> m] : m \in Measured} \cup {[wish |-> w] : w \in Wishes}

\* The window holds the last three samples; P95 is the least sample that 95 of
\* 100 do not exceed, Throughput the upper median.
AtMost(xs, v) == Cardinality({i \in DOMAIN xs : xs[i] <= v})
SampleIsRight(xs) ==
    LET window == R!RingSnapshot(FoldLeft(R!RingPush, R!NewRing(3), xs)) IN
    /\ window = SubSeq(xs, IF Len(xs) > 3 THEN Len(xs) - 2 ELSE 1, Len(xs))
    /\ Len(xs) >= 5 =>
          /\ 100 * AtMost(xs, R!P95(xs)) >= 95 * Len(xs)
          /\ 100 * AtMost(xs, R!P95(xs) - 1) < 95 * Len(xs)
          /\ 2 * AtMost(xs, R!Throughput(xs)) > Len(xs)
          /\ 2 * AtMost(xs, R!Throughput(xs) - 1) <= Len(xs)

\* Reordering loses no model; a primary gives way only to a faster one; and in a
\* sorted chain no unmeasured or slower model comes before a faster one.
Faster(m, a, b) == m[a] > 0 /\ (m[b] = 0 \/ m[a] < m[b])
OrderIsRight(m) ==
    LET chain == <<"x", "y", "z">>
        moved == R!ReorderByLatency(chain, m, 1)
        sorted == R!SortChain(chain, "latency", m, m)
        swift == R!SortChain(chain, "throughput", m, m) IN
    /\ \A c \in {moved, sorted, swift} : Len(c) = 3 /\ ToSet(c) = ToSet(chain)
    /\ moved # chain => m[chain[1]] > 1 /\ \A a \in ToSet(chain) : ~Faster(m, a, moved[1])
    /\ \A i, j \in 1 .. 3 : i < j => ~Faster(m, sorted[j], sorted[i]) /\ m[swift[i]] >= m[swift[j]]

\* What is asked stays within the limits; delays grow up to the cap.
WishIsRight(w) ==
    LET o == R!Clamp(w)
        wait(k) == R!Backoff(k, o.backoff) IN
    /\ o.retries \in 0 .. 5 /\ o.backoff \in 0 .. 5000 /\ o.sort \in {"", "latency", "throughput"}
    /\ R!Clamp(o) = o /\ (w.retries \in 0 .. 5 => o.retries = w.retries)
    /\ \A k \in 1 .. 4 : wait(k) <= wait(k + 1) /\ wait(k + 1) <= 5000 /\ wait(k + 1) <= 2 * wait(k)

-----------------------------------------------------------------------------

MCInit ==
    /\ Init
    /\ \/ which \in {"supervisor", "engines", "engine"} /\ Rest(0)
       \/ which = "same" /\ F!Init /\ Rest(12)
       \/ which = "worker" /\ D!Init /\ Rest(12)
       \/ which = "model" /\ M!Init /\ Rest(12)
       \/ which = "lossy" /\ K!Init /\ Rest(12)
       \/ which = "hosted" /\ H!Init /\ Rest(12)
       \/ which = "alone" /\ O!Init /\ Rest(8)
       \/ which = "heal" /\ L!Init /\ Rest(8)
       \/ which = "shapes" /\ v1 \in Shapes /\ Rest(1)
       \/ which = "figures" /\ v1 \in Figures /\ Rest(1)

ProcessStep ==
    \/ which = "supervisor" /\ Next
    \/ which = "engines" /\ S2!Next
    \/ which = "engine" /\ S1!Next

GangStep ==
    \/ which = "same" /\ F!Next
    \/ which = "worker" /\ D!Next
    \/ which = "model" /\ M!Next
    \/ which = "lossy" /\ K!Next
    \/ which = "hosted" /\ H!Next
    \/ which = "alone" /\ O!Next /\ Still(8)
    \/ which = "heal" /\ L!Next /\ Still(8)

MCNext ==
    /\ UNCHANGED which
    /\ \/ ProcessStep /\ UNCHANGED pool
       \/ GangStep /\ UNCHANGED vars

MCSpec == MCInit /\ [][MCNext]_allVars

\* The fairness of each component (see there): the threads of the supervisor's
\* records, a killed child that dies, a Stop; and the leader's goroutines.
GangsGo ==
    \/ which = "same" /\ F!Running
    \/ which = "worker" /\ D!Running
    \/ which = "model" /\ M!Running
    \/ which = "lossy" /\ K!Running
    \/ which = "hosted" /\ H!Running
    \/ which = "alone" /\ O!Loop /\ Still(8)
    \/ which = "heal" /\ L!Loop /\ Still(8)
Fair ==
    /\ \A c \in 1 .. 2 : WF_allVars(
          \/ which = "supervisor" /\ ThreadStep(c) /\ UNCHANGED <<which, pool>>
          \/ which = "engines" /\ S2!ThreadStep(c) /\ UNCHANGED <<which, pool>>
          \/ which = "engine" /\ c = 1 /\ S1!ThreadStep(c) /\ UNCHANGED <<which, pool>>)
    /\ \A c \in 1 .. 2 : WF_allVars(Dies(c) /\ UNCHANGED <<which, pool>>)
    /\ WF_allVars(\/ (\E s \in Stops : StopStep(s)) /\ UNCHANGED <<which, pool>>
                  \/ GangsGo /\ UNCHANGED <<which, vars>>)
FairMC == MCSpec /\ Fair

-----------------------------------------------------------------------------
(* Properties of the leader's part; OneChildPerRecord, NewsPending and      *)
(* ThreadsSettle are the supervisor's own                                  *)

\* The figures the router decides by are what their names say, over every input
\* within the bounds (latency.go, overrides.go, waitBackoff).
FiguresAreRight ==
    which = "figures" =>
      /\ "samples" \in DOMAIN v1 => SampleIsRight(v1.samples)
      /\ "measured" \in DOMAIN v1 => OrderIsRight(v1.measured)
      /\ "wish" \in DOMAIN v1 => WishIsRight(v1.wish)

\* No gang is put together from the parts of two creates, one that was formed
\* and left alone keeps its rows and its processes, and no process of a gang is
\* left without a row (CreateSharded, rollback, the teardowns; see Gangs).
GangsAreWhole ==
    /\ which = "same" => F!OneFormation /\ F!FormedStays /\ F!NoOrphan
    /\ which = "worker" => D!OneFormation /\ D!FormedStays /\ D!NoOrphan
    /\ which = "model" => M!OneFormation /\ M!FormedStays /\ M!NoOrphan
    /\ which = "lossy" => K!OneFormation /\ K!FormedStays /\ K!NoOrphan
    /\ which = "hosted" => H!OneFormation /\ H!FormedStays /\ H!NoOrphan

\* Every create ends and gives its claim back, and the healer comes to rest with
\* no gang starved and none tried for ever (partlost.go, gangheal.go).
GangsSettle ==
    <>[](/\ which = "same" => F!AllEnded
         /\ which = "worker" => D!AllEnded
         /\ which = "model" => M!AllEnded
         /\ which = "lossy" => K!AllEnded
         /\ which = "hosted" => H!AllEnded
         /\ which = "alone" => O!Settled
         /\ which = "heal" => L!Settled)

\* A gang is shaped as it should be, over every input within the bounds: how
\* many parts, on which workers, split how, with which ports, beside what is
\* resident (placement.go, autoshard.go, sharding.go).
PlacementIsRight ==
    which = "shapes" =>
      /\ "team" \in DOMAIN v1 =>
            /\ StrongestAreRight(v1.team)
            /\ \A need \in 1 .. 7, layers \in 0 .. 2 : ShardsAreRight(v1.team, need, layers)
      /\ "split" \in DOMAIN v1 => SplitIsRight(v1.split, v1.parts)
      /\ "used" \in DOMAIN v1 => PortsAreRight(v1.used, v1.span)
      /\ "gangs" \in DOMAIN v1 => MemoryIsRight(v1.gangs, v1.cold, v1.replacing)
=============================================================================
