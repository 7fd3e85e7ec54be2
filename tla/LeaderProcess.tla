--------------------------- MODULE LeaderProcess ---------------------------
(***************************************************************************)
(* The process of `opod up` (cmd_up.go, leader/server.go) over what it     *)
(* shares with the one before it and the one beside it: the store's keys   *)
(* and placements, the PID file, the listen address and the engine on this *)
(* machine; and `opod down` (cmd_down.go), which finds it by the PID file. *)
(* die() is os.Exit: a process that ends that way runs none of its         *)
(* deferred steps.  A process may be killed at any point, and one may be   *)
(* started while the one before it is still leaving.                       *)
(***************************************************************************)
EXTENDS Naturals, FiniteSets

CONSTANTS Procs,      \* the processes of `opod up`, started in this order
          Settings,   \* Procs -> the settings each may start with
          Overlap,    \* beside whom one may be started: "none", "leaving" (its listener closed), "any"
          Pdeathsig,  \* the kernel ends a dead process's children (a Linux build)
          MaxTokens,  \* bound: keys an operator revokes
          MaxFaults   \* bound: failed writes of the store or of the PID file

VARIABLES proc,      \* Procs -> its step, settings, and what it has found
          key,       \* the store's keys: name -> "absent", "live", "revoked"
          placement, \* the store's placement: "none", "ready", "draining"
          driver,    \* the process that set it draining last, 0 for none
          drains,    \* the processes with a drain or a move under way
          models,    \* the default model is on record as installed
          pid,       \* what the PID file holds, 0 for no file
          port,      \* who listens, 0 for nobody
          engine,    \* the engine on this machine: [up, by, resident]
          open,      \* one call is followed: {}, {the process answering it}, {0} when answered
          down,      \* `opod down`: its step and the PID it read
          revoked,   \* keys revoked so far
          cut,       \* the processes whose PID file somebody else removed
          faults     \* failed writes so far
vars == <<proc, key, placement, driver, drains, models, pid, port, engine, open, down, revoked, cut, faults>>
storeVars == <<key, placement, driver, models>>
bounds == <<revoked, faults>>

\* filed: its PID file was written; lifted: its liftStaleDrains succeeded;
\* beside: the processes that still ran when it did.
Off == [at |-> "off", set |-> 0, engineOK |-> FALSE, told |-> FALSE, filed |-> FALSE, lifted |-> FALSE, beside |-> {}]
Runs(p) == proc[p].at \notin {"off", "over"}
At(p, pc) == proc[p].at = pc
Go(p, pc) == proc' = [proc EXCEPT ![p].at = pc]
Leader(p) == proc[p].set.role # "door"
\* The end of a process: what it knew is lost, its listener is closed, its
\* calls are cut and its drains are driven no more.
Ends(p) ==
  /\ proc' = [proc EXCEPT ![p] = [Off EXCEPT !.at = "over"]]
  /\ port' = (IF port = p THEN 0 ELSE port) /\ open' = open \ {p} /\ drains' = drains \ {p}
NoEngine == [up |-> FALSE, by |-> 0, resident |-> FALSE]
Faulty(ok) == (ok \/ faults < MaxFaults) /\ faults' = faults + (IF ok THEN 0 ELSE 1)

Init ==
  /\ proc = [p \in Procs |-> Off]
  /\ key = [k \in {"minted", "join", "admin"} |-> "absent"]
  /\ placement = "none" /\ driver = 0 /\ drains = {} /\ models = FALSE /\ pid = 0 /\ port = 0
  /\ engine \in [up : BOOLEAN, by : {0}, resident : {FALSE}]
  /\ open = {} /\ down = [at |-> "off", pid |-> 0] /\ revoked = 0 /\ cut = {} /\ faults = 0

-----------------------------------------------------------------------------
(* From the command line to the listener *)

\* config.Load and the role: a role nobody knows dies; a door opens no store.
Leaving(q) == Overlap = "any" \/ (Overlap = "leaving" /\ proc[q].at \in {"shutdown", "unload"})
Up(p, s) ==
  /\ At(p, "off") /\ \A q \in Procs : q < p => proc[q].at # "off" /\ (Runs(q) => Leaving(q))
  /\ proc' = [proc EXCEPT ![p] = [Off EXCEPT !.set = s,
       !.at = IF s.role \notin {"leader", "gateway", "door"} THEN "over" ELSE IF s.role = "door" THEN "listen" ELSE "seed"]]
  /\ UNCHANGED <<storeVars, drains, pid, port, engine, open, down, cut, bounds>>

\* SeedJoinToken, SeedAdminToken: a configured token is filed unless a row of
\* its hash is there; over a revoked row the insert fails and nothing changes.
Seeded(k, configured) == configured /\ k = "absent"

\* bootstrapAdminKey (standalone): the first admin key, when there is no key.
Seed(p) ==
  /\ At(p, "seed") /\ Go(p, "probe")
  /\ LET s == proc[p].set
         mint == ~s.adminToken /\ \A k \in DOMAIN key : key[k] = "absent"
     IN key' = [key EXCEPT !["minted"] = IF mint THEN "live" ELSE @,
                           !["join"] = IF Seeded(@, s.joinToken) THEN "live" ELSE @,
                           !["admin"] = IF Seeded(@, s.adminToken) THEN "live" ELSE @]
  /\ UNCHANGED <<placement, driver, drains, models, pid, port, engine, open, down, cut, bounds>>

\* The engine's health; a llama.cpp engine that is not up is started for the
\* default model when the leader serves one.
Probe(p) ==
  /\ At(p, "probe")
  /\ LET spawn == ~engine.up /\ proc[p].set.llamacpp /\ proc[p].set.pull IN
     \E ok \in {engine.up} \cup (IF spawn THEN {TRUE} ELSE {}) :
       /\ engine' = IF ok /\ ~engine.up THEN [up |-> TRUE, by |-> p, resident |-> TRUE] ELSE engine
       /\ proc' = [proc EXCEPT ![p].at = "local", ![p].engineOK = ok]
  /\ UNCHANGED <<storeVars, drains, pid, port, open, down, cut, bounds>>

\* The node "local", its placement for what the engine lists, and the default
\* model (ensureDefaultModel: resident already, pulled now, or the pull fails).
Local(p) ==
  /\ At(p, "local") /\ Go(p, "pid")
  /\ placement' = IF proc[p].engineOK /\ engine.resident THEN "ready" ELSE placement
  /\ LET ensure == proc[p].set.pull /\ proc[p].engineOK /\ proc[p].set.role = "leader" IN
     \/ engine' = engine /\ models' = (models \/ (ensure /\ engine.resident))
     \/ /\ ensure /\ ~engine.resident /\ engine.up
        /\ engine' = [engine EXCEPT !.resident = TRUE] /\ models' = TRUE
  /\ UNCHANGED <<key, driver, drains, pid, port, open, down, cut, bounds>>

\* A file that cannot be written is a warning.
WritePID(p) ==
  /\ At(p, "pid")
  /\ \E ok \in BOOLEAN : /\ Faulty(ok) /\ pid' = (IF ok THEN p ELSE pid)
                         /\ proc' = [proc EXCEPT ![p].at = "start", ![p].filed = ok]
  /\ UNCHANGED <<storeVars, drains, port, engine, open, down, cut, revoked>>

\* Mutant: a start leaves the drains it finds.
LeftDraining == placement

\* liftStaleDrains: a drain belongs to the process that started it.
LiftStaleDrains == IF placement = "draining" THEN "ready" ELSE placement

\* StartGatewayRole refuses a gateway without a leader's address or an admin
\* token, or whose first read of the leader fails; Server.Start then lifts the
\* drains (a failure is logged) and starts the watchers, before it binds.
StartServer(p) ==
  /\ At(p, "start")
  /\ \/ proc[p].set.role = "gateway" /\ Ends(p) /\ UNCHANGED <<placement, faults>>
     \/ /\ proc[p].set.role = "gateway" => proc[p].set.leaderURL /\ proc[p].set.adminToken
        /\ \E ok \in BOOLEAN :
             /\ Faulty(ok) /\ placement' = IF ok THEN LiftStaleDrains ELSE placement
             /\ proc' = [proc EXCEPT ![p].at = "listen", ![p].lifted = ok, ![p].beside = {q \in Procs \ {p} : Runs(q)}]
        /\ UNCHANGED <<port, open, drains>>
  /\ UNCHANGED <<key, driver, models, pid, engine, down, cut, revoked>>

\* The bind, the certificate and the plain listener: each failure dies.  A probe
\* listener that cannot bind is logged.
Listen(p) ==
  /\ At(p, "listen")
  /\ \/ port = 0 /\ proc[p].set.listens /\ port' = p /\ Go(p, "serving") /\ UNCHANGED <<open, drains>>
     \/ (port # 0 \/ ~proc[p].set.listens) /\ Ends(p)
  /\ UNCHANGED <<storeVars, pid, engine, down, cut, bounds>>

-----------------------------------------------------------------------------
(* Serving *)

Call(p) ==
  /\ At(p, "serving") /\ port = p /\ open = {} /\ open' = {p}
  /\ UNCHANGED <<proc, storeVars, drains, pid, port, engine, down, cut, bounds>>

Answer(p) ==
  /\ p \in open /\ open' = {0}
  /\ UNCHANGED <<proc, storeVars, drains, pid, port, engine, down, cut, bounds>>

\* An eviction or a move of a leader that serves, or that still answers a call
\* while it leaves, takes a placement out of rotation and, in the end, unloads
\* it or puts it back.
Drain(p) ==
  /\ At(p, "serving") \/ (At(p, "shutdown") /\ p \in open)
  /\ proc[p].set.role = "leader" /\ placement = "ready" /\ p \notin drains
  /\ placement' = "draining" /\ driver' = p /\ drains' = drains \cup {p}
  /\ UNCHANGED <<proc, key, models, pid, port, engine, open, down, cut, bounds>>

DrainEnds(p) ==
  /\ p \in drains /\ Runs(p)
  /\ placement' \in {"none", "ready"} /\ drains' = drains \ {p}
  /\ UNCHANGED <<proc, key, driver, models, pid, port, engine, open, down, cut, bounds>>

Revoke(k) ==
  /\ revoked < MaxTokens /\ key[k] = "live" /\ (\E p \in Procs : At(p, "serving") /\ proc[p].set.role = "leader")
  /\ revoked' = revoked + 1 /\ key' = [key EXCEPT ![k] = "revoked"]
  /\ UNCHANGED <<proc, placement, driver, drains, models, pid, port, engine, open, down, cut, faults>>

-----------------------------------------------------------------------------
(* The way out *)

\* The engine of a process that ended without StopAll: the kernel ends it, a
\* moment later, on Linux (supervisor_linux.go); elsewhere it is left running.
ChildGone ==
  /\ Pdeathsig /\ engine.by # 0 /\ ~Runs(engine.by) /\ engine' = NoEngine
  /\ UNCHANGED <<proc, storeVars, drains, pid, port, open, down, cut, bounds>>

\* Ctrl-C, or a signal of `opod down`: before the context is there it kills.
Listens(p) == proc[p].at \in {"start", "listen", "serving", "shutdown", "unload"}
Told(p) ==
  IF Listens(p) THEN proc' = [proc EXCEPT ![p].told = TRUE] /\ UNCHANGED <<port, open, drains>>
  ELSE Ends(p)
Signal(p) ==
  /\ Runs(p) /\ ~proc[p].told /\ Told(p)
  /\ UNCHANGED <<storeVars, pid, engine, down, cut, bounds>>

\* A kill; or the listener fails, which ends the process the same way.
Kill(p) ==
  /\ Runs(p) /\ Ends(p)
  /\ UNCHANGED <<storeVars, pid, engine, down, cut, bounds>>

\* Server.Shutdown closes the listener and waits for the calls; a door's Serve
\* returns as soon as its own shutdown begins, and the process with it.
Shutdown(p) ==
  /\ At(p, "serving") /\ proc[p].told
  /\ IF Leader(p) THEN Go(p, "shutdown") /\ port' = 0 /\ UNCHANGED <<open, drains>> ELSE Ends(p)
  /\ UNCHANGED <<storeVars, pid, engine, down, cut, bounds>>

\* The calls ended; or thirty seconds passed, which is an error, and dies.
ShutdownEnds(p) ==
  /\ At(p, "shutdown")
  /\ IF p \in open THEN Ends(p) ELSE Go(p, "unload") /\ UNCHANGED <<port, open, drains>>
  /\ UNCHANGED <<storeVars, pid, engine, down, cut, bounds>>

\* removePID removes the file that is there, whoever wrote it.
RemovePID(own) == pid' = 0 /\ cut' = cut \cup ({pid} \ {0, own})

\* --unload-on-exit, then the deferred removePID, StopAll and the store's Close.
Exits(p) ==
  /\ At(p, "unload") /\ Ends(p) /\ RemovePID(p)
  /\ engine' = IF engine.by = p THEN NoEngine
               ELSE [engine EXCEPT !.resident = @ /\ ~(proc[p].set.unloadOnExit /\ engine.up)]
  /\ UNCHANGED <<storeVars, down, bounds>>

\* `opod down` reads the PID file, signals that process, and
DownReads ==
  /\ down.at = "off" /\ pid # 0 /\ down' = [at |-> "read", pid |-> pid]
  /\ UNCHANGED <<proc, storeVars, drains, pid, port, engine, open, cut, bounds>>

DownSignals ==
  /\ down.at = "read"
  /\ IF Runs(down.pid) THEN down' = [down EXCEPT !.at = "wait"] /\ Told(down.pid)
     ELSE down' = [down EXCEPT !.at = "stale"] /\ UNCHANGED <<proc, port, open, drains>>
  /\ UNCHANGED <<storeVars, pid, engine, cut, bounds>>

\* removes the file of one that is gone, or
DownRemoves ==
  /\ down.at = "stale" /\ down' = [down EXCEPT !.at = "over"] /\ RemovePID(down.pid)
  /\ UNCHANGED <<proc, storeVars, drains, port, engine, open, bounds>>

\* waits ten seconds for the other to go, and unloads the models.
DownUnloads ==
  /\ down.at = "wait" /\ down' = [down EXCEPT !.at = "over"]
  /\ engine' \in {engine, [engine EXCEPT !.resident = FALSE]}
  /\ UNCHANGED <<proc, storeVars, drains, pid, port, open, cut, bounds>>

Steps(p) == Seed(p) \/ Probe(p) \/ Local(p) \/ WritePID(p) \/ StartServer(p) \/ Listen(p) \/ Shutdown(p) \/ ShutdownEnds(p)
            \/ Exits(p)
Next ==
  \/ \E p \in Procs : Steps(p) \/ (\E s \in Settings[p] : Up(p, s)) \/ Call(p) \/ Answer(p) \/ Drain(p) \/ DrainEnds(p)
                      \/ Signal(p) \/ Kill(p)
  \/ \E k \in DOMAIN key : Revoke(k)
  \/ ChildGone \/ DownReads \/ DownSignals \/ DownRemoves \/ DownUnloads

Spec == Init /\ [][Next]_vars

-----------------------------------------------------------------------------
(* Properties *)

\* What a leader that serves finds after the ones before it, however they
\* ended, is its own: a placement is kept out of rotation only by a drain whose
\* process runs (server.go:273-279), unless that process was still leaving when
\* this one lifted the drains, or the lift failed; and the PID file names this
\* process, so that `opod down` finds it, unless the file could not be written
\* or removePID of a process still leaving, or of an `opod down` that had read
\* an earlier number, removed it (common.go:371).
LeaderTakesOver ==
  \A p \in Procs : At(p, "serving") /\ Leader(p) =>
    /\ placement = "draining" /\ proc[p].lifted => Runs(driver) \/ driver \in proc[p].beside
    /\ proc[p].filed => pid = p \/ p \in cut

\* Not so in every setting: nobody's engine outlives it, and nobody's PID file
\* is removed by another.
EngineHasItsProcess == engine.by # 0 => Runs(engine.by)
FileIsItsOwners == cut = {}

\* A restart files a configured token only if the store has no row of it: a
\* token an operator revoked is not brought back (bootstrap.go:69, :96).
RevokedStaysRevoked == \A k \in DOMAIN key : key[k] = "revoked" => key'[k] = "revoked"
=============================================================================
