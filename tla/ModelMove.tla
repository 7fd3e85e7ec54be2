----------------------------- MODULE ModelMove -----------------------------
(***************************************************************************)
(* The live move of one model between workers (scheduler/move.go), over    *)
(* the leader's placement rows (store/placements.go), the workers' reports *)
(* (leader/nodeservice.go), the router's picks and a leader that may       *)
(* restart on a store it keeps.                                            *)
(*                                                                         *)
(* A row holds what a worker last reported and the leader's own mark on    *)
(* it; the worker's engine may hold something else by now.  A move reads   *)
(* the rows to be admitted before it claims the model and its two nodes.   *)
(* Left out: engines that sleep, adapters, sharded models, memory facts    *)
(* and other models on the nodes, all of which only refuse a move.         *)
(***************************************************************************)
EXTENDS Naturals, FiniteSets

CONSTANTS Nodes,
          Keeps,      \* the nodes whose engine keeps weights it unloaded
          Moves,      \* callers of MoveModel, each one move after another
          Requests,
          Patient,    \* the next move is asked for only once every worker has
                      \* reported what the last one did
          MaxFaults   \* bound on each kind of fault

FaultKinds == {"restart",  \* the leader restarts
               "crash",    \* an engine restarts
               "lost",     \* a worker acts on a call and its answer is lost
               "flap"}     \* a worker stops taking work, or takes it again

ASSUME NodeAssumption == Keeps \subseteq Nodes /\ "" \notin Nodes
ASSUME FaultAssumption == Patient \in BOOLEAN /\ MaxFaults \in [FaultKinds -> Nat]

VARIABLES engine,   \* Nodes -> what the engine holds of the model
          loading,  \* the nodes whose worker is bringing the model in
          report,   \* Nodes -> what a heartbeat on its way says of it
          row,      \* Nodes -> the placement row
          taking,   \* the nodes that take new work
          mv,       \* Moves -> the call: where it is, and what it has read
          rq,       \* Requests -> where it is, on which node, what it tried
          left,     \* the nodes a finished move left draining
          faults    \* FaultKinds -> how many there were
vars == <<engine, loading, report, row, taking, mv, rq, left, faults>>

Held == {"none", "installed", "resident"}
NoReport == "silence"

-----------------------------------------------------------------------------
(* Placement rows *)

RowOf(status, cold) == [status |-> status, cold |-> cold]
NoRow == RowOf("none", FALSE)

\* Mutant: a heartbeat writes what the worker reports over the leader's mark.
ReplaceForNodeUnmarked(old, held) ==
    IF held = "none" THEN NoRow ELSE RowOf("ready", held = "installed")

\* ReplaceForNode: the row after a report, with the leader's mark carried: a
\* drain as long as the model is listed, a release while it is not in memory.
ReplaceForNode(old, held) ==
    LET cold == held = "installed"
    IN  IF held = "none" THEN NoRow
        ELSE CASE old.status = "draining"         -> RowOf("draining", cold)
               [] old.status = "released" /\ cold -> RowOf("released", cold)
               [] OTHER                           -> RowOf("ready", cold)

SetStatus(n, status) == row' = [row EXCEPT ![n].status = status]

\* The router's rule: GetByModel's rows on nodes that take new work.
Routable(n) == row[n].status = "ready" /\ n \in taking

\* A target that serves now, to admitMove and to awaitRoutable.
Serving(n) == row[n].status = "ready" /\ ~row[n].cold

\* Every row is what its worker would report.
Reported ==
    \A n \in Nodes : /\ row[n] = ReplaceForNode(row[n], engine[n])
                     /\ n \notin loading /\ report[n] \in {NoReport, engine[n]}

Fault(kind) ==
    /\ faults[kind] < MaxFaults[kind]
    /\ faults' = [faults EXCEPT ![kind] = @ + 1]

-----------------------------------------------------------------------------
(* Workers *)

\* What becomes of the requests on a node whose engine process stops: before
\* the first event the router asks another worker, after it the answer is cut.
Stopped(n) ==
    [r \in Requests |->
        CASE rq[r].node = n /\ rq[r].pc = "sent"      -> [pc |-> "idle", node |-> "", skip |-> rq[r].skip \cup {n}]
          [] rq[r].node = n /\ rq[r].pc = "streaming" -> [rq[r] EXCEPT !.pc = "cut"]
          [] OTHER                                    -> rq[r]]

\* A heartbeat says what the engine held when the worker asked it; one that did
\* not arrive is followed by another.
Report(n) ==
    /\ report' = [report EXCEPT ![n] = engine[n]]
    /\ UNCHANGED <<engine, loading, row, taking, mv, rq, left, faults>>

\* The leader writes what a heartbeat said, by now true or not.
Heartbeat(n) ==
    /\ report[n] # NoReport
    /\ report' = [report EXCEPT ![n] = NoReport]
    /\ row' = [row EXCEPT ![n] = ReplaceForNode(@, report[n])]
    /\ left' = IF row'[n].status = "draining" THEN left ELSE left \ {n}
    /\ UNCHANGED <<engine, loading, taking, mv, rq, faults>>

\* The model is in, whether or not anybody still waits for it; or it will not
\* come: the pull failed, the engine gave up.
FinishLoad(n) ==
    /\ n \in loading
    /\ loading' = loading \ {n}
    /\ engine' = [engine EXCEPT ![n] = "resident"]
    /\ UNCHANGED <<report, row, taking, mv, rq, left, faults>>

FailLoad(n) ==
    /\ n \in loading
    /\ loading' = loading \ {n}
    /\ UNCHANGED <<engine, report, row, taking, mv, rq, left, faults>>

\* modelLoad reaches a worker: an engine of one model per process is started
\* again, one that keeps its models goes on serving.
LoadReaches(n) ==
    /\ loading' = loading \cup {n}
    /\ engine' = IF n \in Keeps THEN engine ELSE [engine EXCEPT ![n] = "none"]
    /\ rq' = IF n \in Keeps THEN rq ELSE Stopped(n)

\* modelUnload reaches a worker: an engine started for the model is stopped,
\* loading or not; one that keeps its models drops this one from memory, and a
\* load that is still coming in comes in later.
UnloadReaches(n) ==
    IF n \in Keeps
    THEN /\ engine' = [engine EXCEPT ![n] = IF @ = "none" THEN @ ELSE "installed"]
         /\ UNCHANGED <<loading, rq>>
    ELSE /\ engine' = [engine EXCEPT ![n] = "none"]
         /\ loading' = loading \ {n}
         /\ rq' = Stopped(n)

\* The supervisor starts a failed engine again: until the model is back in,
\* the worker reports nothing.
EngineRestart(n) ==
    /\ n \notin Keeps /\ engine[n] = "resident" /\ Fault("crash")
    /\ engine' = [engine EXCEPT ![n] = "none"]
    /\ loading' = loading \cup {n}
    /\ rq' = Stopped(n)
    /\ UNCHANGED <<report, row, taking, mv, left>>

\* A worker is drained or lost, or comes back.
Flap(n) ==
    /\ Fault("flap")
    /\ taking' = IF n \in taking THEN taking \ {n} ELSE taking \cup {n}
    /\ UNCHANGED <<engine, loading, report, row, mv, rq, left>>

-----------------------------------------------------------------------------
(* A move *)

Idle == [pc |-> "idle", from |-> "", to |-> "", already |-> FALSE]
Goto(m, pc) == mv' = [mv EXCEPT ![m].pc = pc]
Ended(m) == mv' = [mv EXCEPT ![m] = Idle]

Claimed(m) == mv[m].pc \notin {"idle", "admitted"}
Flipped(m) == mv[m].pc \in {"drain", "unload", "putback", "settle"}

\* admitMove: the source holds the model, the target takes work; whether the
\* target serves the model already is read here.
Admit(m, from, to) ==
    /\ mv[m].pc = "idle"
    /\ Patient => Reported
    /\ from # to
    /\ row[from].status = "ready"
    /\ to \in taking
    /\ mv' = [mv EXCEPT ![m] = [pc |-> "admitted", from |-> from, to |-> to, already |-> Serving(to)]]
    /\ UNCHANGED <<engine, loading, report, row, taking, rq, left, faults>>

\* claim: refused while another move holds the model.
Claim(m) ==
    /\ mv[m].pc = "admitted"
    /\ IF \E o \in Moves : Claimed(o)
       THEN Ended(m)
       ELSE Goto(m, IF mv[m].already THEN "await" ELSE "load")
    /\ UNCHANGED <<engine, loading, report, row, taking, rq, left, faults>>

\* callWorkerLoad: answered, or timed out at the client with the worker still
\* busy (both go on to wait for the row), or answered with an error.
Load(m) ==
    /\ mv[m].pc = "load"
    /\ LoadReaches(mv[m].to)
    /\ \E pc \in {"await", "cleanup"} : Goto(m, pc)
    /\ UNCHANGED <<report, row, taking, left, faults>>

LoadRefused(m) ==
    /\ mv[m].pc = "load"
    /\ Goto(m, "cleanup")
    /\ UNCHANGED <<engine, loading, report, row, taking, rq, left, faults>>

\* abort(reason, loadedHere): a copy this move loaded is unloaded first.
Abort(m) == IF mv[m].already THEN Ended(m) ELSE Goto(m, "cleanup")

\* awaitRoutable: the row its own heartbeat wrote says the target serves, or
\* the wait runs out.
AwaitRoutable(m) ==
    /\ mv[m].pc = "await"
    /\ \/ mv[m].to \in taking /\ Serving(mv[m].to) /\ Goto(m, "flip")
       \/ Abort(m)
    /\ UNCHANGED <<engine, loading, report, row, taking, rq, left, faults>>

\* Step 4: the source's row is marked, or there is none any more.
Flip(m) ==
    /\ mv[m].pc = "flip"
    /\ IF row[mv[m].from].status = "none"
       THEN Abort(m) /\ UNCHANGED <<row, left>>
       ELSE /\ SetStatus(mv[m].from, "draining")
            /\ left' = left \ {mv[m].from}
            /\ Goto(m, "drain")
    /\ UNCHANGED <<engine, loading, report, taking, rq, faults>>

\* The router's count of requests in flight.
InFlight(n) == Cardinality({r \in Requests : rq[r].node = n /\ rq[r].pc \in {"sent", "streaming"}})

\* awaitIdle: nothing in flight on the source.
AwaitIdle(m) ==
    /\ mv[m].pc = "drain"
    /\ InFlight(mv[m].from) = 0
    /\ Goto(m, "unload")
    /\ UNCHANGED <<engine, loading, report, row, taking, rq, left, faults>>

\* awaitIdle at its deadline: the source is unloaded all the same.
DrainTimeout(m) ==
    /\ mv[m].pc = "drain"
    /\ InFlight(mv[m].from) > 0
    /\ Goto(m, "unload")
    /\ UNCHANGED <<engine, loading, report, row, taking, rq, left, faults>>

\* Step 6, answered; or acted on and the answer lost; or refused.
Unload(m) ==
    /\ mv[m].pc = "unload"
    /\ UnloadReaches(mv[m].from)
    /\ \/ Goto(m, "settle") /\ UNCHANGED faults
       \/ Goto(m, "putback") /\ Fault("lost")
    /\ UNCHANGED <<report, row, taking, left>>

\* Mutant: the source is left as it is.
UnloadRefusedEnds(m) ==
    /\ mv[m].pc = "unload"
    /\ Ended(m)
    /\ UNCHANGED <<engine, loading, report, row, taking, rq, left, faults>>

UnloadRefused(m) ==
    /\ mv[m].pc = "unload"
    /\ Goto(m, "putback")
    /\ UNCHANGED <<engine, loading, report, row, taking, rq, left, faults>>

\* The source goes back in rotation, if it still has a row.
PutBack(m) ==
    /\ mv[m].pc = "putback"
    /\ IF row[mv[m].from].status = "none" THEN UNCHANGED row ELSE SetStatus(mv[m].from, "ready")
    /\ left' = left \ {mv[m].from}
    /\ Ended(m)
    /\ UNCHANGED <<engine, loading, report, taking, rq, faults>>

\* settleSource: the row is gone, or its engine kept the weights and it is
\* released; at the deadline it is left draining.
SettleSource(m) ==
    /\ mv[m].pc = "settle"
    /\ LET n == mv[m].from IN
       \/ row[n].status = "none" /\ UNCHANGED <<row, left>>
       \/ row[n].status # "none" /\ row[n].cold /\ SetStatus(n, "released") /\ left' = left \ {n}
       \/ row[n].status # "none" /\ ~row[n].cold /\ left' = left \cup {n} /\ UNCHANGED row
    /\ Ended(m)
    /\ UNCHANGED <<engine, loading, report, taking, rq, faults>>

\* Mutant: the wrong one of the two nodes.
CleanupSource(m) ==
    /\ mv[m].pc = "cleanup"
    /\ UnloadReaches(mv[m].from) \/ UNCHANGED <<engine, loading, rq>>
    /\ Ended(m)
    /\ UNCHANGED <<report, row, taking, left, faults>>

\* cleanupTarget: the copy is unloaded, or the worker will not.
CleanupTarget(m) ==
    /\ mv[m].pc = "cleanup"
    /\ UnloadReaches(mv[m].to) \/ UNCHANGED <<engine, loading, rq>>
    /\ Ended(m)
    /\ UNCHANGED <<report, row, taking, left, faults>>

-----------------------------------------------------------------------------
(* Requests *)

\* pick chooses a routable worker that this request has not lost already, and
\* the request is not yet counted; without one it fails.
Pick(r) ==
    /\ rq[r].pc = "idle"
    /\ LET fit == {n \in Nodes \ rq[r].skip : Routable(n)} IN
       \/ \E n \in fit : rq' = [rq EXCEPT ![r].pc = "picked", ![r].node = n]
       \/ fit = {} /\ rq' = [rq EXCEPT ![r].pc = "failed"]
    /\ UNCHANGED <<engine, loading, report, row, taking, mv, left, faults>>

\* incInflight and the call to the worker: without an engine there the router
\* tries the next worker; one that keeps its models loads this one to answer.
Send(r) ==
    /\ rq[r].pc = "picked"
    /\ LET n == rq[r].node IN
       IF engine[n] = "none"
       THEN /\ rq' = [rq EXCEPT ![r] = [pc |-> "idle", node |-> "", skip |-> @.skip \cup {n}]]
            /\ UNCHANGED engine
       ELSE /\ rq' = [rq EXCEPT ![r].pc = "sent"]
            /\ engine' = [engine EXCEPT ![n] = "resident"]
    /\ UNCHANGED <<loading, report, row, taking, mv, left, faults>>

\* The first event of the answer reaches the client.
FirstEvent(r) ==
    /\ rq[r].pc = "sent"
    /\ rq' = [rq EXCEPT ![r].pc = "streaming"]
    /\ UNCHANGED <<engine, loading, report, row, taking, mv, left, faults>>

\* The request ended, one way or another, and another one comes.
Finish(r) ==
    /\ rq[r].pc \in {"streaming", "cut", "failed"}
    /\ rq' = [rq EXCEPT ![r] = [pc |-> "idle", node |-> "", skip |-> {}]]
    /\ UNCHANGED <<engine, loading, report, row, taking, mv, left, faults>>

-----------------------------------------------------------------------------
(* The leader restarts *)

\* Mutant: the marks of the process that died stay.
RestartKeepsDrains ==
    /\ Fault("restart")
    /\ mv' = [m \in Moves |-> Idle]
    /\ rq' = [r \in Requests |-> [pc |-> "idle", node |-> "", skip |-> {}]]
    /\ left' = {}
    /\ report' = [n \in Nodes |-> NoReport]
    /\ UNCHANGED <<engine, loading, report, row, taking>>

\* The moves and the requests die with the process; liftStaleDrains puts every
\* row that was left draining back in rotation.
Restart ==
    /\ Fault("restart")
    /\ mv' = [m \in Moves |-> Idle]
    /\ rq' = [r \in Requests |-> [pc |-> "idle", node |-> "", skip |-> {}]]
    /\ row' = [n \in Nodes |-> IF row[n].status = "draining" THEN RowOf("ready", row[n].cold) ELSE row[n]]
    /\ left' = {}
    /\ report' = [n \in Nodes |-> NoReport]
    /\ UNCHANGED <<engine, loading, taking>>

-----------------------------------------------------------------------------

\* The model serves somewhere, every row is what its worker reports.
Init ==
    /\ engine \in {e \in [Nodes -> Held] : /\ \E n \in Nodes : e[n] = "resident"
                                           /\ \A n \in Nodes \ Keeps : e[n] # "installed"}
    /\ row = [n \in Nodes |-> ReplaceForNode(NoRow, engine[n])]
    /\ report = [n \in Nodes |-> NoReport]
    /\ loading = {}
    /\ taking = Nodes
    /\ mv = [m \in Moves |-> Idle]
    /\ rq = [r \in Requests |-> [pc |-> "idle", node |-> "", skip |-> {}]]
    /\ left = {}
    /\ faults = [k \in FaultKinds |-> 0]

MoveStep(m) ==
    \/ \E from, to \in Nodes : Admit(m, from, to)
    \/ Claim(m)
    \/ Load(m)
    \/ LoadRefused(m)
    \/ AwaitRoutable(m)
    \/ Flip(m)
    \/ AwaitIdle(m)
    \/ DrainTimeout(m)
    \/ Unload(m)
    \/ UnloadRefused(m)
    \/ PutBack(m)
    \/ SettleSource(m)
    \/ CleanupTarget(m)

RequestStep(r) == Pick(r) \/ Send(r) \/ FirstEvent(r) \/ Finish(r)

WorkerStep(n) ==
    \/ Report(n)
    \/ Heartbeat(n)
    \/ FinishLoad(n)
    \/ FailLoad(n)
    \/ EngineRestart(n)
    \/ Flap(n)

Next ==
    \/ \E m \in Moves : MoveStep(m)
    \/ \E r \in Requests : RequestStep(r)
    \/ \E n \in Nodes : WorkerStep(n)
    \/ Restart

Spec == Init /\ [][Next]_vars

-----------------------------------------------------------------------------
(* Properties *)

TypeOK ==
    /\ engine \in [Nodes -> Held]
    /\ loading \subseteq Nodes
    /\ report \in [Nodes -> Held \cup {NoReport}]
    /\ row \in [Nodes -> [status : {"none", "ready", "draining", "released"}, cold : BOOLEAN]]
    /\ taking \subseteq Nodes
    /\ mv \in [Moves -> [pc : {"idle", "admitted", "load", "await", "flip", "drain", "unload", "putback", "settle", "cleanup"},
                         from : Nodes \cup {""}, to : Nodes \cup {""}, already : BOOLEAN]]
    /\ rq \in [Requests -> [pc : {"idle", "picked", "sent", "streaming", "cut", "failed"},
                            node : Nodes \cup {""}, skip : SUBSET Nodes]]
    /\ left \subseteq Nodes
    /\ faults \in [FaultKinds -> Nat]

\* Moves one after the other, succeeding or failing at any step, with late
\* heartbeats, lost answers, restarts of the leader and loads that come in after their caller gave up, never leave
\* the model in no worker's memory: MoveModel loads before it unloads, and
\* unloads only what it loaded or what it has replaced.
ResidentSomewhere == \E n \in Nodes : engine[n] = "resident"

\* While moves run, a worker is in rotation: the source leaves it only once
\* the target is in it.
RotationNeverEmpty == \E n \in Nodes : Routable(n)

\* From the flip to the end of the move no heartbeat of the source puts it
\* back in rotation: ReplaceForNode carries the mark, or the row is gone for
\* good.
SourceStaysOut ==
    \A m \in Moves : Flipped(m) => row[mv[m].from].status \in {"none", "draining", "released"}

\* A model that is moved stays in service: in memory, in rotation, and served by
\* the target once the move has flipped.  admitMove reads before MoveModel
\* claims, and it reads rows and not engines: this is so for a caller that asks
\* for a move when the last one is over and was reported (Patient, one of
\* Moves), on workers that stay, with engines that do not fail by themselves.
ServiceStays == ResidentSomewhere /\ RotationNeverEmpty /\ SourceStaysOut

\* A row that is draining has a move behind it that will take the mark off, or
\* one whose answer said that it stays: an abort, a restart, a lost answer and
\* a vanished row leave none out of rotation with nothing to bring it back.
DrainHasADriver ==
    \A n \in Nodes : row[n].status = "draining" =>
        n \in left \/ \E m \in Moves : Flipped(m) /\ mv[m].from = n

\* A source that MoveModel released leaves that mark in three ways only: a
\* report without the model takes the row away, a report of the model in memory
\* puts it back in rotation, or a move that was admitted before the release
\* flips it once more.  No other report, no end of a move and no restart of the
\* leader does it: its engine would load the weights for any request sent there.
ReleasedStep ==
    \A n \in Nodes : row[n].status = "released" /\ row'[n].status # "released" =>
        \/ row'[n].status = "none"
        \/ row'[n].status = "ready" /\ ~row'[n].cold
        \/ \E m \in Moves : mv[m].pc = "flip" /\ mv[m].from = n /\ mv'[m].pc = "drain" /\ row'[n].status = "draining"
ReleasedStaysOut == [][ReleasedStep]_vars

\* abort in MoveModel ends "a move that has not flipped: the source was never
\* touched": the source still has the model.
AbortLeavesSource ==
    [][\A m \in Moves : mv[m].pc \in {"await", "flip", "cleanup"} /\ mv'[m].pc = "idle" => engine[mv[m].from] # "none"]_vars

\* liftStaleDrains: "The model was never unloaded, so it is simply serving
\* again".
LiftedServes ==
    [][\A n \in Nodes : faults'["restart"] > faults["restart"] /\ row[n].status = "draining" => engine[n] = "resident"]_vars

\* MoveModel puts a source back because "two workers serving is a state that
\* is true and harmless".
PutBackServes ==
    [][\A m \in Moves : mv[m].pc = "putback" /\ mv'[m].pc = "idle" /\ faults' = faults /\ row[mv[m].from].status # "none"
            => engine[mv[m].from] # "none"]_vars

\* "drain - what is in flight on (source, model) runs to completion": only a
\* drain that ran into its deadline cuts an answer.
DrainCompletes ==
    [][\A r \in Requests, m \in Moves :
            mv[m].pc = "unload" /\ mv'[m].pc = "settle" /\ rq[r].node = mv[m].from => rq'[r].pc # "cut"]_vars
=============================================================================
