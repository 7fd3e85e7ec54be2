------------------------------ MODULE MCMachine ------------------------------
(***************************************************************************)
(* What runs on one machine, and what moves a model between two: the move  *)
(* of a model in its own variables; and, in the variables of the pool      *)
(* below, moves with a spare worker and moves with faults, the memory of   *)
(* the leader's engine, the engine a worker launches, the weight cache     *)
(* under pulls and a kill, under a prune and under a sweep, the KV tier    *)
(* and its pruner, a file shipped to a gang's workers, and the update of   *)
(* the binary.  One of them runs in a behaviour.                           *)
(***************************************************************************)
EXTENDS ModelMove, Sequences, TLC

VARIABLES which,  \* the component that runs
          v1, v2, v3, v4, v5, v6, v7, v8, v9, v10, v11, v12, v13, v14
pool == <<v1, v2, v3, v4, v5, v6, v7, v8, v9, v10, v11, v12, v13, v14>>

\* The variables of the pool past the n-th are not used by the component that
\* runs.
Rest(n) ==
    /\ IF n < 1 THEN v1 = 0 ELSE TRUE
    /\ IF n < 2 THEN v2 = 0 ELSE TRUE
    /\ IF n < 3 THEN v3 = 0 ELSE TRUE
    /\ IF n < 4 THEN v4 = 0 ELSE TRUE
    /\ IF n < 5 THEN v5 = 0 ELSE TRUE
    /\ IF n < 6 THEN v6 = 0 ELSE TRUE
    /\ IF n < 7 THEN v7 = 0 ELSE TRUE
    /\ IF n < 8 THEN v8 = 0 ELSE TRUE
    /\ IF n < 9 THEN v9 = 0 ELSE TRUE
    /\ IF n < 10 THEN v10 = 0 ELSE TRUE
    /\ IF n < 11 THEN v11 = 0 ELSE TRUE
    /\ IF n < 12 THEN v12 = 0 ELSE TRUE
    /\ IF n < 13 THEN v13 = 0 ELSE TRUE
    /\ IF n < 14 THEN v14 = 0 ELSE TRUE
Still(n) ==
    /\ IF n < 8 THEN UNCHANGED v8 ELSE TRUE
    /\ IF n < 9 THEN UNCHANGED v9 ELSE TRUE
    /\ IF n < 10 THEN UNCHANGED v10 ELSE TRUE
    /\ IF n < 11 THEN UNCHANGED v11 ELSE TRUE
    /\ IF n < 12 THEN UNCHANGED v12 ELSE TRUE
    /\ IF n < 13 THEN UNCHANGED v13 ELSE TRUE
    /\ IF n < 14 THEN UNCHANGED v14 ELSE TRUE
allVars == <<which, vars, pool>>

-----------------------------------------------------------------------------
(* Moves with a spare worker, a restart of the leader and a lost answer,   *)
(* as in the module's own variables; moves asked for on old reports, with  *)
(* a fault of each other kind and a restart; and two at once.              *)

Once(kinds) == [k \in FaultKinds |-> IF k \in kinds THEN 1 ELSE 0]
Steady == Once({"restart", "lost"})
S == INSTANCE ModelMove WITH
    Nodes <- {"a", "b", "c"}, Keeps <- {"b"}, Moves <- {"m1"}, Requests <- {}, Patient <- TRUE,
    MaxFaults <- Steady, engine <- v1, loading <- v2, report <- v3, row <- v4, taking <- v5,
    mv <- v6, rq <- v7, left <- v8, faults <- v9
F == INSTANCE ModelMove WITH
    Nodes <- {"a", "b"}, Keeps <- {"b"}, Moves <- {"m1"}, Requests <- {}, Patient <- FALSE,
    MaxFaults <- Once({"crash", "restart", "flap"}), engine <- v1, loading <- v2, report <- v3,
    row <- v4, taking <- v5, mv <- v6, rq <- v7, left <- v8, faults <- v9
F2 == INSTANCE ModelMove WITH
    Nodes <- {"a", "b"}, Keeps <- {"b"}, Moves <- {"m1", "m2"}, Requests <- {}, Patient <- FALSE,
    MaxFaults <- Once({}), engine <- v1, loading <- v2, report <- v3, row <- v4, taking <- v5,
    mv <- v6, rq <- v7, left <- v8, faults <- v9

-----------------------------------------------------------------------------
(* The memory of the leader's engine: three models of which two fit, with  *)
(* requests in flight, and a call; and two, over several.                  *)

Three == {"a", "b", "c"}
Bytes == [m \in Three |-> IF m = "c" THEN 10 ELSE 5]
Asked(swap, pin, pri) == [swap |-> swap, pin |-> pin, pri |-> pri, by |-> "admin"]
Loads == {Asked(TRUE, FALSE, 0), Asked(TRUE, TRUE, 1), Asked(FALSE, FALSE, 0)}
L == INSTANCE Lifecycle WITH
    Models <- Three, Weights <- Bytes, Total <- 15, ReservePercent <- 20, Exclusive <- FALSE,
    Plain <- FALSE, Options <- Loads, MaxCalls <- 1, MaxInflight <- 1, installed <- v1,
    status <- v2, desired <- v3, resident <- v4, inflight <- v5, lru <- v6, op <- v7, left <- v8,
    restoring <- v9, calls <- v10, moved <- v11, cut <- v12
L2 == INSTANCE Lifecycle WITH
    Models <- {"a", "c"}, Weights <- Bytes, Total <- 15, ReservePercent <- 20, Exclusive <- FALSE,
    Plain <- FALSE, Options <- Loads, MaxCalls <- 3, MaxInflight <- 1, installed <- v1,
    status <- v2, desired <- v3, resident <- v4, inflight <- v5, lru <- v6, op <- v7, left <- v8,
    restoring <- v9, calls <- v10, moved <- v11, cut <- v12

-----------------------------------------------------------------------------
(* The engine a worker launches *)

E == INSTANCE WorkerEngine WITH
    Models <- {"A", "B"}, Callers <- {"self", "op"}, selfLoadAttempts <- 2, Adapters <- {"x"},
    Offered <- {"y"}, Rank <- [x |-> 16, y |-> 64], ExtraRank <- 0, Sharded <- {}, SelfModel <- "A",
    MaxCalls <- 3, MaxCrashes <- 1, proc <- v1, launched <- v2, lora <- v3, gen <- v4, held <- v5,
    alias <- v6, call <- v7, loader <- v8, tries <- v9, calls <- v10, crashes <- v11, mixed <- v12
E2 == INSTANCE WorkerEngine WITH
    Models <- {"A", "B"}, Callers <- {"self", "op"}, selfLoadAttempts <- 1, Adapters <- {"x"},
    Offered <- {"y"}, Rank <- [x |-> 16, y |-> 64], ExtraRank <- 64, Sharded <- {"B"},
    SelfModel <- "A", MaxCalls <- 3, MaxCrashes <- 0, proc <- v1, launched <- v2, lora <- v3,
    gen <- v4, held <- v5, alias <- v6, call <- v7, loader <- v8, tries <- v9, calls <- v10,
    crashes <- v11, mixed <- v12

-----------------------------------------------------------------------------
(* The weight cache: two pulls of a file, one under its digest, with a     *)
(* kill, a damaged block and a lock that gets too old; three of known size *)
(* and a kill; two pulls beside a prune; two files and their manifest      *)
(* beside a prune; a pull and two prunes beside a sweep.                   *)

Doing(kind, files, pins, whole) ==
    [kind |-> kind, files |-> files, pins |-> pins, sized |-> whole, manifest |-> whole]
Pull == Doing("pull", <<"w">>, {"w"}, FALSE)
Prune == Doing("prune", <<"w">>, {}, FALSE)
Sweep == Doing("sweep", <<"w">>, {}, FALSE)
TwoPulls == [p |-> Pull, q |-> [Pull EXCEPT !.pins = {}]]
Sized == [Pull EXCEPT !.sized = TRUE]
ThreePulls == [p |-> Sized, q |-> [Sized EXCEPT !.pins = {}], r |-> Sized]
PullsPrune == [p |-> Pull, q |-> [Pull EXCEPT !.pins = {}], d |-> Prune]
Whole == Doing("pull", <<"w", "c">>, {"w"}, TRUE)
WholePrune == [p |-> Whole, q |-> Whole, d |-> [Whole EXCEPT !.kind = "prune"]]
PullSweep == [p |-> Pull, d |-> Prune, e |-> Prune, s |-> Sweep]
C1 == INSTANCE WeightCache WITH
    Files <- {"w"}, Size <- [w |-> 2], Procs <- {"p", "q"}, Job <- TwoPulls, MaxCrashes <- 1,
    MaxDamage <- 1, MaxDays <- 0, MaxAges <- 1, target <- v1, marker <- v2, fresh <- v3,
    partial <- v4, stale <- v5, lock <- v6, manifest <- v7, proc <- v8, aged <- v9,
    overtaken <- v10, crashes <- v11, damage <- v12, days <- v13, ages <- v14
C6 == INSTANCE WeightCache WITH
    Files <- {"w"}, Size <- [w |-> 1], Procs <- {"p", "q", "r"}, Job <- ThreePulls, MaxCrashes <- 1,
    MaxDamage <- 0, MaxDays <- 0, MaxAges <- 0, target <- v1, marker <- v2, fresh <- v3,
    partial <- v4, stale <- v5, lock <- v6, manifest <- v7, proc <- v8, aged <- v9,
    overtaken <- v10, crashes <- v11, damage <- v12, days <- v13, ages <- v14
C2 == INSTANCE WeightCache WITH
    Files <- {"w"}, Size <- [w |-> 2], Procs <- {"p", "q", "d"}, Job <- PullsPrune, MaxCrashes <- 1,
    MaxDamage <- 1, MaxDays <- 1, MaxAges <- 0, target <- v1, marker <- v2, fresh <- v3,
    partial <- v4, stale <- v5, lock <- v6, manifest <- v7, proc <- v8, aged <- v9,
    overtaken <- v10, crashes <- v11, damage <- v12, days <- v13, ages <- v14
C3 == INSTANCE WeightCache WITH
    Files <- {"w", "c"}, Size <- [w |-> 2, c |-> 1], Procs <- {"p", "q", "d"}, Job <- WholePrune,
    MaxCrashes <- 0, MaxDamage <- 1, MaxDays <- 1, MaxAges <- 0, target <- v1, marker <- v2,
    fresh <- v3, partial <- v4, stale <- v5, lock <- v6, manifest <- v7, proc <- v8, aged <- v9,
    overtaken <- v10, crashes <- v11, damage <- v12, days <- v13, ages <- v14
C4 == INSTANCE WeightCache WITH
    Files <- {"w"}, Size <- [w |-> 2], Procs <- {"p", "d", "e", "s"}, Job <- PullSweep,
    MaxCrashes <- 1, MaxDamage <- 0, MaxDays <- 1, MaxAges <- 0, target <- v1, marker <- v2,
    fresh <- v3, partial <- v4, stale <- v5, lock <- v6, manifest <- v7, proc <- v8, aged <- v9,
    overtaken <- v10, crashes <- v11, damage <- v12, days <- v13, ages <- v14

\* Two pulls under the file's digest and a sweep, a day apart.
TwoPinned == [p |-> Pull, q |-> Pull, s |-> [Sweep EXCEPT !.pins = {"w"}]]
C5 == INSTANCE WeightCache WITH
    Files <- {"w"}, Size <- [w |-> 2], Procs <- {"p", "q", "s"}, Job <- TwoPinned, MaxCrashes <- 0,
    MaxDamage <- 0, MaxDays <- 1, MaxAges <- 0, target <- v1, marker <- v2, fresh <- v3,
    partial <- v4, stale <- v5, lock <- v6, manifest <- v7, proc <- v8, aged <- v9,
    overtaken <- v10, crashes <- v11, damage <- v12, days <- v13, ages <- v14

-----------------------------------------------------------------------------
(* The KV tier: three blocks, one being written, and files that are not    *)
(* blocks                                                                  *)

TierOrder == <<"b1", "b2", "b3", "cfg", "kept", "note", "t1">>
TierKind == [b1 |-> "bin", b2 |-> "bin", b3 |-> "bin", cfg |-> "config", kept |-> "bin", note |-> "other", t1 |-> "tmp"]
K == INSTANCE KVTier WITH
    Order <- TierOrder, Kind <- TierKind, Into <- [t1 |-> "b1"], Keep <- {"kept"}, Caps <- {0, 2},
    KVTierStaleWrite <- 1, Every <- 2, Hot <- 1, MaxTime <- 3, MaxWrites <- 2, MaxFaults <- 1,
    req <- v1, disk <- v2, pass <- v3, left <- v4, due <- v5, now <- v6, writes <- v7, faults <- v8

-----------------------------------------------------------------------------
(* Two files shipped to two workers, and an update *)

W == INSTANCE WeightShip WITH
    Pushes <- {"p", "q"}, Source <- [p |-> "f", q |-> "g"], Workers <- <<"w1", "w2">>,
    MayBeBare <- {"w2"}, Quiet <- {"w2"}, Contents <- {<<"a", "a">>, <<"b", "b">>}, MaxFaults <- 2,
    bare <- v1, local <- v2, push <- v3, disk <- v4, parts <- v5, faults <- v6, held <- v7
Released == {[n |-> 1, pre |-> FALSE], [n |-> 2, pre |-> TRUE], [n |-> 2, pre |-> FALSE]}
U == INSTANCE SelfUpdate WITH
    Updaters <- {"u"}, Versions <- Released, Pieces <- 2, MaxRuns <- 3, MaxFaults <- 3, inode <- v1,
    target <- v2, staged <- v3, told <- v4, run <- v5, runs <- v6, faults <- v7

-----------------------------------------------------------------------------

\* The moves while another component runs.
AtRest == Init /\ engine = [n \in Nodes |-> "resident"]

MCInit ==
    \/ which = "move" /\ Init /\ Rest(0)
    \/ /\ AtRest
       /\ \/ which = "spare" /\ S!Init /\ Rest(9)
          \/ which = "faults" /\ F!Init /\ Rest(9)
          \/ which = "faults2" /\ F2!Init /\ Rest(9)
          \/ which = "memory" /\ L!Init /\ Rest(12)
          \/ which = "restart" /\ L2!Init /\ Rest(12)
          \/ which = "engine" /\ E!Init /\ Rest(12)
          \/ which = "flags" /\ E2!Init /\ Rest(12)
          \/ which = "pulls" /\ C1!Init
          \/ which = "three" /\ C6!Init
          \/ which = "killed" /\ C2!Init
          \/ which = "prune" /\ C3!Init
          \/ which = "sweep" /\ C4!Init
          \/ which = "tier" /\ K!Init /\ Rest(8)
          \/ which = "ship" /\ W!Init /\ Rest(7)
          \/ which = "update" /\ U!Init /\ Rest(7)

\* The leader, the worker, the pruner, the pushes and the update rest at their
\* bounds; the processes of the cache end.
Resting == {"memory", "restart", "engine", "flags", "tier", "ship", "update"}

PoolStep ==
    \/ which = "spare" /\ S!Next /\ Still(9)
    \/ which = "faults" /\ F!Next /\ Still(9)
    \/ which = "faults2" /\ F2!Next /\ Still(9)
    \/ which = "memory" /\ L!Next /\ Still(12)
    \/ which = "restart" /\ L2!Next /\ Still(12)
    \/ which = "engine" /\ E!Next /\ Still(12)
    \/ which = "flags" /\ E2!Next /\ Still(12)
    \/ which = "pulls" /\ C1!Next
    \/ which = "three" /\ C6!Next
    \/ which = "killed" /\ C2!Next
    \/ which = "prune" /\ C3!Next
    \/ which = "sweep" /\ C4!Next
    \/ which = "tier" /\ K!Next /\ Still(8)
    \/ which = "ship" /\ W!Next /\ Still(7)
    \/ which = "update" /\ U!Next /\ Still(7)
    \/ which \in Resting /\ UNCHANGED pool

MCNext ==
    /\ UNCHANGED which
    /\ \/ which = "move" /\ Next /\ UNCHANGED pool
       \/ PoolStep /\ UNCHANGED vars

MCSpec == MCInit /\ [][MCNext]_allVars

\* The two pulls and the sweep alone.
SweepInit == which = "pinned" /\ AtRest /\ C5!Init
SweepNext == C5!Next /\ UNCHANGED <<which, vars>>
SweepSpec == SweepInit /\ [][SweepNext]_allVars

-----------------------------------------------------------------------------
(* Properties *)

\* With a restart of the leader, a restart of an engine and a worker that comes
\* and goes, or two moves at once: a draining row has a move behind it or an answer
\* that said it stays (MoveModel, liftStaleDrains), and no report brings a
\* released row back while the model is out of memory (ReplaceForNode).  With
\* moves one after another and a spare worker, the model stays in service.
MovesUnderFaults ==
    [][/\ which = "spare" => S!ServiceStays'
       /\ which = "faults" => F!DrainHasADriver' /\ F!ReleasedStep
       /\ which = "faults2" => F2!DrainHasADriver' /\ F2!ReleasedStep]_allVars

\* A load fits beside what the engine holds when it is asked for, a placement is
\* "draining" only while a call drains it (Manager), and the engine that runs
\* serves the model and the adapters the worker says it serves (agent's load,
\* unload and adapter calls).
MemoryIsAsSaid ==
    /\ which = "memory" => L!LoadFits /\ L!DrainingIsDriven
    /\ which = "restart" => L2!LoadFits /\ L2!DrainingIsDriven
    /\ which = "engine" => E!ServesWhatItSays
    /\ which = "flags" => E2!ServesWhatItSays

\* A file handed out under a digest is the file of that digest (fetch).
PinnedStep ==
    /\ which = "pulls" => C1!PinnedStep
    /\ which = "three" => C6!PinnedStep
    /\ which = "killed" => C2!PinnedStep
    /\ which = "prune" => C3!PinnedStep
    /\ which = "sweep" => C4!PinnedStep
    /\ which = "pinned" => C5!PinnedStep
PinnedIsRight == [][PinnedStep]_allVars

\* Files on a machine: one handed out under a digest is the file of that digest,
\* one process at a time works under a file's lock (lockFile) until a waiter
\* removes the lock of one at work (takeLock), and what SnapshotPath hands to an
\* engine was verified; the pruner removes no more than
\* the oldest blocks that bring its tier under the cap (pruneKVTier); what a
\* worker is told it has is the leader's file, whole (ensureGGUF, fileCheck);
\* and the binary in place is a whole one of a release (selfupdate).
FilesStep ==
    /\ PinnedStep
    /\ which = "pulls" => C1!OneFetcher'
    /\ which = "three" => C6!OneFetcher'
    /\ which = "killed" => C2!OneFetcher'
    /\ which = "prune" => C3!OneFetcher' /\ C3!ServedIsVerified'
    /\ which = "tier" => K!TierIsTrimmed'
    /\ which = "ship" => W!ShippedIsWhole'
    /\ which = "update" => U!BinaryIsWhole'
FilesAreWhole == [][FilesStep]_allVars
=============================================================================
