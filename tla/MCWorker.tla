------------------------------ MODULE MCWorker ------------------------------
(***************************************************************************)
(* The worker: the process of `opod join` from its boot to its exit, in    *)
(* its own variables; and, in the variables of the pool below, two things  *)
(* the leader is to do in the end: its record of the worker settles, and   *)
(* the requests that wait for the worker's slot are answered.  One of them *)
(* runs in a behaviour.                                                    *)
(***************************************************************************)
EXTENDS WorkerProcess, Sequences

VARIABLES which,  \* the component that runs
          v1, v2, v3, v4, v5, v6, v7, v8, v9, v10
pool == <<v1, v2, v3, v4, v5, v6, v7, v8, v9, v10>>

\* The variables of the pool past the n-th are not used by the component that
\* runs.
Rest(n) ==
    /\ IF n < 1 THEN v1 = 0 ELSE TRUE
    /\ IF n < 2 THEN v2 = 0 ELSE TRUE
    /\ IF n < 3 THEN v3 = 0 ELSE TRUE
    /\ IF n < 4 THEN v4 = 0 ELSE TRUE
    /\ IF n < 5 THEN v5 = 0 ELSE TRUE
    /\ IF n < 6 THEN v6 = 0 ELSE TRUE
    /\ IF n < 7 THEN v7 = 0 ELSE TRUE
    /\ IF n < 8 THEN v8 = 0 ELSE TRUE
    /\ IF n < 9 THEN v9 = 0 ELSE TRUE
    /\ IF n < 10 THEN v10 = 0 ELSE TRUE
Still(n) ==
    /\ IF n < 7 THEN UNCHANGED v7 ELSE TRUE
    /\ IF n < 8 THEN UNCHANGED v8 ELSE TRUE
    /\ IF n < 9 THEN UNCHANGED v9 ELSE TRUE
    /\ IF n < 10 THEN UNCHANGED v10 ELSE TRUE
allVars == <<which, vars, pool>>

-----------------------------------------------------------------------------
(* `opod join`: a boot beside an engine, as a part of a gang; then one     *)
(* whose settings lack the token, or lack a writable directory and have a  *)
(* certificate that can be read, or not                                    *)

Joins(model, launched, gang, drain) ==
    [valid |-> TRUE, token |-> "t", certificate |-> FALSE, explicit |-> "", pod |-> "", writable |-> TRUE, readable |-> TRUE,
     load |-> model, launched |-> launched, gang |-> gang, drain |-> drain]
JoinSettings == [b \in 0 .. 1 |->
    IF b = 0 THEN {Joins("", FALSE, TRUE, 1)}
    ELSE {[Joins("", TRUE, TRUE, 1) EXCEPT !.token = ""],
          [Joins("", TRUE, FALSE, 0) EXCEPT !.readable = FALSE],
          [Joins("", TRUE, FALSE, 0) EXCEPT !.pod = "n_pod", !.writable = FALSE, !.token = "", !.certificate = TRUE]}]

\* One that loads its model itself, into an engine it launches or one beside it.
LoadSettings == [b \in {0} |-> {Joins("m", TRUE, FALSE, 0), Joins("m", FALSE, FALSE, 0)}]
K == INSTANCE WorkerProcess WITH
    Environments <- LoadSettings, MaxRefusedRegisters <- 1, selfLoadAttempts <- 2, MaxBoots <- 0,
    MaxTurns <- 0

-----------------------------------------------------------------------------
(* The leader's record of a worker that restarts once, with a gang formed  *)
(* on it: two calls of it at a time, or one and a check that is not        *)
(* answered                                                                *)

R == INSTANCE NodeRegistry WITH
    Calls <- 1 .. 2, MaxBoots <- 2, MaxTasks <- 1, MaxOps <- 0, Happens <- {"form"}, worker <- v1,
    row <- v2, placed <- v3, parts <- v4, engine <- v5, recheck <- v6, tasks <- v7, call <- v8,
    drained <- v9, ops <- v10
R1 == INSTANCE NodeRegistry WITH
    Calls <- {1}, MaxBoots <- 2, MaxTasks <- 1, MaxOps <- 0, Happens <- {"form", "unlisted"},
    worker <- v1, row <- v2, placed <- v3, parts <- v4, engine <- v5, recheck <- v6, tasks <- v7,
    call <- v8, drained <- v9, ops <- v10

-----------------------------------------------------------------------------
(* The gate: a critical and a sheddable request for one slot *)

Tight == [holdMs |-> 0, maxHeld |-> 2, classes |-> <<[name |-> "critical", holdMs |-> 50, maxHeld |-> 0, maxShare |-> 0]>>]
L == INSTANCE SlotGate WITH
    Flows <- {"fa"}, Requests <- 1 .. 2, FlowOf <- <<"fa", "fa">>,
    KeyClass <- <<"critical", "sheddable">>, Header <- <<"", "">>, Workers <- {"w1"},
    Reports <- {[w1 |-> [slots |-> 1, kv |-> 0]]}, Context <- 4, Policies <- {Tight}, gate <- v1,
    pc <- v2, node <- v3, view <- v4, cfg <- v5, rcfg <- v6

-----------------------------------------------------------------------------

MCInit ==
    \/ which = "join" /\ Init /\ Rest(0)
    \/ which = "load" /\ K!Init /\ Rest(0)
    \/ which = "two calls" /\ Init /\ R!Init /\ Rest(10)
    \/ which = "one call" /\ Init /\ R1!Init /\ Rest(10)
    \/ which = "gate" /\ Init /\ L!Init /\ Rest(6)

ProcessStep ==
    \/ which = "join" /\ Next
    \/ which = "load" /\ K!Next

LeaderStep ==
    \/ which = "two calls" /\ R!Next
    \/ which = "one call" /\ R1!Next
    \/ which = "gate" /\ L!Next /\ Still(6)

MCNext ==
    /\ UNCHANGED which
    /\ \/ ProcessStep /\ UNCHANGED pool
       \/ LeaderStep /\ UNCHANGED vars

\* The fairness of each component (see there).  One component runs in a
\* behaviour, so a conjunct can hold a condition of each.
Fair ==
    /\ \A c \in 1 .. 2 : WF_allVars(
          \/ which = "two calls" /\ R!HandlerStep(c) /\ UNCHANGED <<which, vars>>
          \/ which = "one call" /\ c = 1 /\ R1!HandlerStep(c) /\ UNCHANGED <<which, vars>>
          \/ which = "gate" /\ L!Progress(c) /\ UNCHANGED <<which, vars>> /\ Still(6)
          \/ which = "join" /\ (IF c = 1 THEN Boot ELSE MainStep) /\ UNCHANGED <<which, pool>>
          \/ which = "load" /\ (IF c = 1 THEN K!Boot ELSE K!MainStep) /\ UNCHANGED <<which, pool>>)
    /\ \A c \in 1 .. 2 : WF_allVars(
          \/ which = "join" /\ Alive /\ (IF c = 1 THEN LoopStep ELSE ServerStep) /\ UNCHANGED <<which, pool>>
          \/ which = "load" /\ K!Alive /\ (IF c = 1 THEN K!LoopStep ELSE K!ServerStep) /\ UNCHANGED <<which, pool>>)
    /\ WF_allVars(
          \/ which = "two calls" /\ R!TaskStep /\ UNCHANGED <<which, vars>>
          \/ which = "one call" /\ R1!TaskStep /\ UNCHANGED <<which, vars>>
          \/ which = "gate" /\ L!Heartbeat /\ UNCHANGED <<which, vars>> /\ Still(6))
    /\ SF_pool((which = "two calls" /\ R!CheckAnswered) \/ (which = "one call" /\ R1!CheckAnswered))
    /\ SF_pool((which = "two calls" /\ R!Reports) \/ (which = "one call" /\ R1!Reports))
FairMC == MCInit /\ [][MCNext]_allVars /\ Fair

-----------------------------------------------------------------------------
(* Properties of the leader's part; DrainBeforeStop and StopsEnd are the    *)
(* worker's own                                                            *)

\* However calls of the process before it and clean-ups overlap, the leader ends
\* up with the row and the placement of the process that runs, and with no
\* part of a gang of a process that is gone (RegisterNode, HeartbeatNode).
RecordSettles ==
    <>[](/\ which = "two calls" => R!Settled
         /\ which = "one call" => R1!Settled)

\* A request that waits at the gate is answered: it gets the slot, or is shed
\* or sent away (wait, grantOne, shedUnbudgeted).
EveryWaitEnds == \A r \in 1 .. 2 : []<>(which = "gate" => ~L!InLine(r))
=============================================================================
