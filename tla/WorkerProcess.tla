--------------------------- MODULE WorkerProcess ---------------------------
(***************************************************************************)
(* The process of `opod join` (cmd_join.go): it reads its settings, takes  *)
(* its identity, and then runs three threads over one context - the        *)
(* heartbeat loop (loop.go), the worker's own HTTP server (server.go) and  *)
(* the load of the model it was started for (selfload.go).  A signal, a    *)
(* refused token or a server that cannot listen cancels the context; the   *)
(* loop then says goodbye, the server drains (drain.go), and the engine is *)
(* stopped only when both have returned.                                   *)
(***************************************************************************)
EXTENDS Naturals, FiniteSets, TLAPS

CONSTANTS Environments,        \* boot -> the settings it may find
          Requests,            \* calls the leader sends the worker
          MaxRefusedRegisters, \* loop.go:98
          selfLoadAttempts,    \* selfload.go:35
          MaxBoots,            \* bound: boots of the process
          MaxTurns             \* bound: turns of the leader

VARIABLES env,     \* the settings of this boot
          disk,    \* the id node.yaml holds, "" for none
          id,      \* the id of this boot
          main,    \* cmdJoin's own thread
          ctx,     \* the context of the signal, and of cancel()
          loop,    \* the heartbeat loop and what it asks
          refused, \* refused re-registers in a row
          join,    \* JoinState: the leader's last answer was a yes
          post,    \* the loop's open call
          late,    \* reports whose sender has gone, still on their way
          leader,  \* "up", "down", "refuses"
          view,    \* what the leader believes of the id's engine
          server,  \* the worker's HTTP server; "broken" when it returned without a drain
          left,    \* ticks left of the drain bound
          peers,   \* a gang's other parts hold a connection here
          request, \* Requests -> where the call is
          load,    \* the self-load
          engine,  \* the engine process
          boots, turns
vars == <<env, disk, id, main, ctx, loop, refused, join, post, late, leader, view, server, left, peers, request, load,
          engine, boots, turns>>
ownVars == <<env, disk, id, boots>>
loopVars == <<loop, refused, join, post>>
leaderVars == <<late, leader, view, turns>>
serverVars == <<server, left, peers, request>>

NoPost == [kind |-> "none", says |-> "none", code |-> "none"]
Sent(kind, says) == [kind |-> kind, says |-> says, code |-> "sent"]
Idle == [at |-> "none", tries |-> 0]
Fresh == "n_random"

Init ==
  /\ env \in Environments[0] /\ disk = "" /\ id = "" /\ main = "boot" /\ ctx = "live"
  /\ loop = "off" /\ refused = 0 /\ join = FALSE /\ post = NoPost /\ late = {}
  /\ leader = "up" /\ view = "unknown"
  /\ server = "off" /\ left = 0 /\ peers = FALSE /\ request = [r \in Requests |-> "none"]
  /\ load = Idle /\ engine = "none" /\ boots = 0 /\ turns = 0

-----------------------------------------------------------------------------
(* Starting *)

\* nodeIDFrom: the settings' id, the saved one, the pod's name, a new one.
nodeIDFrom(explicit, persisted, podName) ==
  IF explicit # "" THEN explicit ELSE IF persisted # "" THEN persisted ELSE IF podName # "" THEN podName ELSE Fresh

\* A setting cmdJoin dies of before it has joined anything: a bad argument,
\* drain bound, role, tier or bind address; or neither a token nor a certificate.
Refuses(e) == ~e.valid \/ (e.token = "" /\ ~e.certificate)

\* selfLoadRequest: the model OPOD_LOAD_MODEL names; SelfLoad waits for an
\* engine of its own, and starts one that its own load launches at once.
SelfLoadStarts(e) ==
  IF e.load = "" THEN Idle ELSE [at |-> IF e.launched THEN "load" ELSE "wait", tries |-> 1]

Boot ==
  /\ main = "boot" /\ ~Refuses(env) /\ env.readable
  /\ LET n == nodeIDFrom(env.explicit, disk, env.pod) IN
     /\ id' = n
     /\ disk' = IF env.writable THEN n ELSE disk
     /\ view' = IF n = id THEN view ELSE "unknown"
  /\ main' = "waiting" /\ ctx' = "live" /\ loop' = "register" /\ refused' = 0 /\ join' = FALSE /\ post' = NoPost
  /\ server' = "bind" /\ left' = env.drain /\ peers' = FALSE /\ request' = [r \in Requests |-> "none"]
  /\ load' = SelfLoadStarts(env)
  /\ engine' = IF env.launched THEN "none" ELSE engine
  /\ late' = {}  \* a restart takes longer than a call on its way
  /\ UNCHANGED <<env, leader, boots, turns>>

Die == main = "boot" /\ Refuses(env) /\ main' = "exited"
       /\ UNCHANGED <<ownVars, ctx, loopVars, leaderVars, serverVars, load, engine>>

\* The authority or the certificate for the leader cannot be read: it dies with
\* the id already saved.
DieNamed ==
  /\ main = "boot" /\ ~Refuses(env) /\ ~env.readable /\ main' = "exited"
  /\ disk' = IF env.writable THEN nodeIDFrom(env.explicit, disk, env.pod) ELSE disk
  /\ UNCHANGED <<env, id, boots, ctx, loopVars, leaderVars, serverVars, load, engine>>

Restart ==
  /\ main = "exited" /\ boots < MaxBoots
  /\ boots' = boots + 1 /\ env' \in Environments[boots'] /\ main' = "boot" /\ ctx' = "live"
  /\ UNCHANGED <<disk, id, loopVars, leaderVars, serverVars, load, engine>>

\* SIGTERM or SIGINT.
Signal ==
  /\ main = "waiting" /\ ctx' = "done"
  /\ UNCHANGED <<ownVars, main, loopVars, leaderVars, serverVars, load, engine>>

-----------------------------------------------------------------------------
(* The heartbeat loop *)

Says == IF engine = "ready" THEN "serving" ELSE "idle"

\* register and Heartbeat post; the engine is read when the report is written.
\* Under a context that is done the client sends nothing (LoopLeaves).
LoopSends ==
  /\ post = NoPost /\ ctx = "live"
  /\ \/ loop \in {"register", "again", "refound"} /\ post' = Sent("register", "none") /\ loop' = loop
     \/ loop = "wait" /\ post' = Sent("beat", Says) /\ loop' = "beat"
  /\ UNCHANGED <<ownVars, main, ctx, refused, join, leaderVars, serverVars, load, engine>>

\* The leader takes the open call and answers it: a heartbeat of an id it does
\* not know is a 404.
Takes ==
  /\ post.code = "sent" /\ leader # "down"
  /\ IF leader = "refuses" THEN post' = [post EXCEPT !.code = "unauthorized"] /\ view' = view
     ELSE IF post.kind = "register"
     THEN post' = [post EXCEPT !.code = "ok"] /\ view' = IF view = "unknown" THEN "idle" ELSE view
     ELSE /\ post' = [post EXCEPT !.code = IF view = "unknown" THEN "notfound" ELSE "ok"]
          /\ view' = IF view = "unknown" THEN view ELSE post.says
  /\ UNCHANGED <<ownVars, main, ctx, loop, refused, join, late, leader, turns, serverVars, load, engine>>

\* The call reaches nobody, or runs into the client's own timeout.
CallFails ==
  /\ post.code = "sent" /\ leader = "down" /\ post' = [post EXCEPT !.code = "failed"]
  /\ UNCHANGED <<ownVars, main, ctx, loop, refused, join, leaderVars, serverVars, load, engine>>

\* A call whose context is done comes back at once; what was sent is on its way.
Abandons ==
  /\ ctx = "done" /\ post.code = "sent" /\ post.kind # "goodbye"
  /\ post' = NoPost /\ join' = FALSE /\ loop' = "wait"
  /\ late' = IF post.kind = "beat" THEN late \cup {post.says} ELSE late
  /\ UNCHANGED <<ownVars, main, ctx, refused, leader, view, turns, serverVars, load, engine>>

\* What the loop does with an answer: a refused heartbeat re-registers with the
\* token it has, and MaxRefusedRegisters refusals in a row end the process
\* (cancel, then the deferred goodbye); a heartbeat of an unknown id registers.
Hears ==
  LET c == post.code
      count == IF loop = "again" /\ c = "unauthorized" THEN refused + 1
               ELSE IF loop \in {"again", "beat"} /\ c = "ok" THEN 0 ELSE refused
  IN
  /\ c \notin {"none", "sent"} /\ post.kind # "goodbye"
  /\ post' = NoPost /\ join' = (c = "ok") /\ refused' = count
  /\ loop' = IF loop = "beat" /\ c = "unauthorized" THEN "again"
             ELSE IF loop = "beat" /\ c = "notfound" THEN "refound"
             ELSE IF count >= MaxRefusedRegisters THEN "goodbye" ELSE "wait"
  /\ ctx' = IF count >= MaxRefusedRegisters THEN "done" ELSE ctx
  /\ UNCHANGED <<ownVars, main, leaderVars, serverVars, load, engine>>

LoopLeaves ==
  /\ ctx = "done" /\ post = NoPost /\ loop \in {"register", "wait", "again", "refound"}
  /\ loop' = "goodbye"
  /\ UNCHANGED <<ownVars, main, ctx, refused, join, post, leaderVars, serverVars, load, engine>>

\* Goodbye: the last report, with a deadline of its own.
Goodbye ==
  /\ loop = "goodbye" /\ post = NoPost /\ post' = Sent("goodbye", "stopped")
  /\ UNCHANGED <<ownVars, main, ctx, loop, refused, join, leaderVars, serverVars, load, engine>>

GoodbyeEnds ==
  /\ post.kind = "goodbye"
  /\ late' = IF post.code = "sent" /\ leader # "down" THEN late \cup {"stopped"} ELSE late
  /\ post' = NoPost /\ loop' = "over"
  /\ UNCHANGED <<ownVars, main, ctx, refused, join, leader, view, turns, serverVars, load, engine>>

\* A report whose sender has gone is taken, or is dropped with its connection.
LateTaken(s) ==
  /\ s \in late /\ late' = late \ {s}
  /\ view' \in {view, IF leader = "up" /\ view # "unknown" THEN s ELSE view}
  /\ UNCHANGED <<ownVars, main, ctx, loopVars, leader, turns, serverVars, load, engine>>

\* The leader goes and comes back, forgets the id, or stops taking the token.
LeaderTurns ==
  /\ turns < MaxTurns /\ turns' = turns + 1
  /\ leader' \in {"up", "down", "refuses"}
  /\ view' \in {view, "unknown"}
  /\ <<leader, view>> # <<leader', view'>>
  /\ UNCHANGED <<ownVars, main, ctx, loopVars, late, serverVars, load, engine>>

-----------------------------------------------------------------------------
(* The worker's HTTP server *)

\* ListenAndServe binds, or its error ends the server and cancels the rest.
Listen ==
  /\ server = "bind"
  /\ \/ server' = "serving" /\ ctx' = ctx
     \/ server' = "over" /\ ctx' = "done"
  /\ UNCHANGED <<ownVars, main, loopVars, leaderVars, left, peers, request, load, engine>>

\* Serve fails on the open listener: the server returns without a drain, and
\* leaves its calls running.
ServeFails ==
  /\ main = "waiting" /\ server = "serving" /\ server' = "broken" /\ ctx' = "done"
  /\ UNCHANGED <<ownVars, main, loopVars, leaderVars, left, peers, request, load, engine>>

\* A call arrives while the listener is open; one the engine cannot take fails.
Arrive(r) ==
  /\ main = "waiting" /\ server = "serving" /\ request[r] = "none"
  /\ request' = [request EXCEPT ![r] = IF engine = "ready" THEN "running" ELSE "failed"]
  /\ UNCHANGED <<ownVars, main, ctx, loopVars, leaderVars, server, left, peers, load, engine>>

Answer(r) ==
  /\ request[r] = "running" /\ request' = [request EXCEPT ![r] = "answered"]
  /\ UNCHANGED <<ownVars, main, ctx, loopVars, leaderVars, server, left, peers, load, engine>>

\* processStart made this worker a part of a gang: its peers are connected to
\* the part while they live.
PeersTurn ==
  /\ env.gang /\ engine = "ready" /\ peers' = ~peers
  /\ UNCHANGED <<ownVars, main, ctx, loopVars, leaderVars, server, left, request, load, engine>>

\* drain: Shutdown closes the listener and waits for the running calls.
Shutdown ==
  /\ server \in {"bind", "serving"} /\ ctx = "done" /\ server' = "shutdown"
  /\ UNCHANGED <<ownVars, main, ctx, loopVars, leaderVars, left, peers, request, load, engine>>

Tick ==
  /\ server \in {"shutdown", "peers"} /\ left > 0 /\ left' = left - 1
  /\ UNCHANGED <<ownVars, main, ctx, loopVars, leaderVars, server, peers, request, load, engine>>

Running == {r \in Requests : request[r] = "running"}

\* Mutant: the drain does not wait for the calls it serves.
DrainedAtOnce == server = "shutdown"

\* Shutdown returned: nothing runs any more, or the bound passed.
Drained == server = "shutdown" /\ (Running = {} \/ left = 0)

\* What the bound passed over is cut (Close); a gang's part then waits for its
\* peers with what is left of the bound.
DrainEnds ==
  /\ Drained
  /\ request' = [r \in Requests |-> IF r \in Running THEN "cut" ELSE request[r]]
  /\ server' = IF env.gang THEN "peers" ELSE "over"
  /\ UNCHANGED <<ownVars, main, ctx, loopVars, leaderVars, left, peers, load, engine>>

\* Mutant: the wait for the peers forgets the bound.
peersGone == ~peers

\* waitForPeers: no peer is connected, or the deadline passed.
waitForPeers == ~peers \/ left = 0

PeersDone ==
  /\ server = "peers" /\ waitForPeers /\ server' = "over"
  /\ UNCHANGED <<ownVars, main, ctx, loopVars, leaderVars, left, peers, request, load, engine>>

-----------------------------------------------------------------------------
(* The self-load and the engine *)

LoadOver == load' = Idle

\* waitForEngine: the engine answers, the wait is over (it loads anyway), or
\* the worker is stopping.
EngineWaited ==
  /\ load.at = "wait"
  /\ \/ ctx = "done" /\ LoadOver
     \/ load' = [load EXCEPT !.at = "load"]
  /\ UNCHANGED <<ownVars, main, ctx, loopVars, leaderVars, serverVars, engine>>

\* One attempt of attemptLoad: LoadModel starts an engine its load launches,
\* whether or not the context is done; an outside one has to answer.
LoadModel ==
  /\ load.at = "load" /\ LoadOver
  /\ IF env.launched THEN engine' = "starting" ELSE engine = "ready" /\ engine' = engine
  /\ UNCHANGED <<ownVars, main, ctx, loopVars, leaderVars, serverVars>>

LoadFails ==
  /\ load.at = "load"
  /\ \/ (ctx = "done" \/ load.tries = selfLoadAttempts) /\ LoadOver
     \/ ctx = "live" /\ load.tries < selfLoadAttempts /\ load' = [load EXCEPT !.at = "retry"]
  /\ UNCHANGED <<ownVars, main, ctx, loopVars, leaderVars, serverVars, engine>>

LoadRetries ==
  /\ load.at = "retry"
  /\ \/ ctx = "done" /\ LoadOver
     \/ load' = [at |-> "load", tries |-> load.tries + 1]
  /\ UNCHANGED <<ownVars, main, ctx, loopVars, leaderVars, serverVars, engine>>

\* The engine comes up; an outside one needs nobody to start it.
EngineUp ==
  /\ engine = "starting" \/ (~env.launched /\ main # "boot" /\ engine # "ready")
  /\ engine' = "ready"
  /\ UNCHANGED <<ownVars, main, ctx, loopVars, leaderVars, serverVars, load>>

\* The engine exits, and the calls it was answering fail.
EngineExits ==
  /\ engine \in {"starting", "ready"} /\ engine' = "exited" /\ peers' = FALSE
  /\ request' = [r \in Requests |-> IF r \in Running THEN "failed" ELSE request[r]]
  /\ UNCHANGED <<ownVars, main, ctx, loopVars, leaderVars, server, left, load>>

\* The supervisor starts a launched engine again until it is told to stop it.
EngineRestarts ==
  /\ env.launched /\ engine = "exited" /\ main = "waiting" /\ engine' = "starting"
  /\ UNCHANGED <<ownVars, main, ctx, loopVars, leaderVars, serverVars, load>>

-----------------------------------------------------------------------------
(* The way out *)

\* wg.Wait: the loop has said goodbye and the server has returned.
Returned == main = "waiting" /\ loop = "over" /\ server \in {"over", "broken"}

\* What still runs fails with its engine, or with the process.
RunningFail == request' = [r \in Requests |-> IF r \in Running THEN "failed" ELSE request[r]]

Leave ==
  /\ Returned /\ main' = "stopping"
  /\ UNCHANGED <<ownVars, ctx, loopVars, leaderVars, serverVars, load, engine>>

StopAll ==
  /\ main = "stopping" /\ main' = "stopped"
  /\ IF env.launched THEN engine' = "none" /\ RunningFail ELSE UNCHANGED <<engine, request>>
  /\ UNCHANGED <<ownVars, ctx, loopVars, leaderVars, server, left, peers, load>>

\* The exit takes the self-load with it, and (Pdeathsig) what it has started.
Exit ==
  /\ main = "stopped" /\ main' = "exited" /\ load' = Idle
  /\ engine' = IF env.launched THEN "none" ELSE engine
  /\ RunningFail
  /\ UNCHANGED <<ownVars, ctx, loopVars, leaderVars, server, left, peers>>

Alive == main \in {"waiting", "stopping", "stopped"}
LoopStep == LoopSends \/ Takes \/ CallFails \/ Abandons \/ Hears \/ LoopLeaves \/ Goodbye \/ GoodbyeEnds
ServerStep == Listen \/ Shutdown \/ Tick \/ DrainEnds \/ PeersDone
SelfLoad == EngineWaited \/ LoadModel \/ LoadFails \/ LoadRetries
MainStep == Leave \/ StopAll \/ Exit
World == Signal \/ ServeFails \/ LeaderTurns \/ PeersTurn \/ EngineUp \/ EngineExits \/ EngineRestarts \/ Restart
         \/ (\E r \in Requests : Arrive(r) \/ Answer(r)) \/ (\E s \in late : LateTaken(s))
Next == Boot \/ Die \/ DieNamed \/ (Alive /\ (LoopStep \/ ServerStep \/ SelfLoad)) \/ MainStep \/ World

Spec == Init /\ [][Next]_vars
\* Each of the process's threads runs while it can: a call is answered, fails
\* or times out, and a clock ticks.  Nothing is owed by a caller, a peer, the
\* engine or the leader.
Fairness == WF_vars(Boot) /\ WF_vars(Alive /\ LoopStep) /\ WF_vars(Alive /\ ServerStep) /\ WF_vars(MainStep)

-----------------------------------------------------------------------------
(* Properties *)

\* cmd_join.go:349-354 "The goodbye goes at once; the server below then drains,
\* and the engine stops only after both": once the engine is being stopped the
\* loop has said its goodbye, the server has returned and no call is running, and
\* a call was cut only when the drain bound had passed.  A listener that failed
\* while it served is the exception: nothing waits for its calls (server.go:173).
DrainBeforeStop ==
  /\ main \in {"stopping", "stopped"} => /\ loop = "over"
                                         /\ server = "broken" \/ (server = "over" /\ Running = {})
  /\ (\E r \in Requests : request[r] = "cut") => left = 0

\* A worker that is told to stop exits, whatever its callers, its gang's peers
\* and its leader do; and one whose token the leader no longer takes exits, so
\* that a restart reads the current one (loop.go:383, drain.go:83).
StopsEnd ==
  /\ []<>(ctx = "done" => main = "exited")
  /\ []<>(leader = "refuses" => main # "waiting")

-----------------------------------------------------------------------------
(* DrainBeforeStop holds for any calls, settings, boots and turns of the     *)
(* leader.  It is not inductive: that the loop stays over rests on no answer *)
(* being left for it to hear, and that nothing runs any more on the server   *)
(* having stopped taking calls before it waited for them.                    *)

DrainInv ==
  /\ request \in [Requests -> {"none", "running", "answered", "failed", "cut"}]
  /\ main \in {"stopping", "stopped"} => loop = "over" /\ server \in {"over", "broken"}
  /\ loop = "over" => post = NoPost
  /\ server \in {"off", "bind", "peers", "over"} => Running = {}
  /\ (\E r \in Requests : request[r] = "cut") => left = 0

LEMMA DrainInit == Init => DrainInv
BY Zenon DEF Init, DrainInv, Running

\* A step that leaves the server and its calls alone keeps the part about them.
ServerInv ==
  /\ request \in [Requests -> {"none", "running", "answered", "failed", "cut"}]
  /\ server \in {"off", "bind", "peers", "over"} => Running = {}
  /\ (\E r \in Requests : request[r] = "cut") => left = 0

LoopInv ==
  /\ main \in {"stopping", "stopped"} => loop = "over" /\ server \in {"over", "broken"}
  /\ loop = "over" => post = NoPost

LEMMA DrainParts == DrainInv <=> ServerInv /\ LoopInv
BY DEF DrainInv, ServerInv, LoopInv

LEMMA SameServer == ASSUME ServerInv, request' = request, server' = server, left' = left PROVE ServerInv'
BY DEF ServerInv, Running

LEMMA BootKeeps == ASSUME DrainInv, Boot \/ Die \/ DieNamed \/ Restart PROVE DrainInv'
<1>1. CASE Boot
  BY <1>1 DEF Boot, DrainInv, Running
<1>2. CASE Die \/ DieNamed \/ Restart
  <2>1. ServerInv'
    BY <1>2, DrainParts, SameServer DEF Die, DieNamed, Restart, serverVars
  <2>2. LoopInv'
    BY <1>2 DEF DrainInv, LoopInv, Die, DieNamed, Restart, loopVars, serverVars
  <2> QED BY <2>1, <2>2, DrainParts DEF DrainInv, ServerInv, LoopInv, Running
<1> QED BY <1>1, <1>2

\* A thread of the loop: it is over only once its goodbye was answered.
LEMMA LoopKeeps == ASSUME DrainInv, Alive, LoopStep PROVE DrainInv'
<1>1. server' = server /\ request' = request /\ left' = left /\ main' = main
  BY Zenon DEF LoopStep, LoopSends, Takes, CallFails, Abandons, Hears, LoopLeaves, Goodbye, GoodbyeEnds, serverVars
<1>2. ASSUME loop = "over" PROVE FALSE
  <2>1. post.code = "none" /\ post.kind = "none"
    BY <1>2 DEF DrainInv, NoPost
  <2>2. ~LoopSends /\ ~LoopLeaves /\ ~Goodbye
    BY <1>2 DEF LoopSends, LoopLeaves, Goodbye
  <2>3. ~Takes /\ ~CallFails /\ ~Abandons
    BY <2>1 DEF Takes, CallFails, Abandons
  <2>4. ~Hears /\ ~GoodbyeEnds
    BY <2>1 DEF Hears, GoodbyeEnds
  <2> QED BY <2>2, <2>3, <2>4 DEF LoopStep
<1>3. loop' = "over" => post' = NoPost
  BY Zenon, <1>2 DEF LoopStep, LoopSends, Takes, CallFails, Abandons, Hears, LoopLeaves, Goodbye, GoodbyeEnds
<1>4. ServerInv' /\ LoopInv'
  BY <1>1, <1>2, <1>3, SameServer, DrainParts DEF LoopInv
<1> QED BY <1>4 DEF DrainInv, ServerInv, LoopInv, Running

LEMMA ServerKeeps == ASSUME DrainInv, Alive, ServerStep PROVE DrainInv'
<1>1. UNCHANGED <<main, loop, post>> /\ server \notin {"over", "broken"}
  BY DEF ServerStep, Listen, Shutdown, Tick, DrainEnds, Drained, PeersDone, loopVars
<1>2. LoopInv'
  BY <1>1 DEF DrainInv, LoopInv
<1>3. CASE Listen \/ Shutdown \/ Tick \/ PeersDone
  <2>1. request' = request /\ (left' = left \/ left > 0)
    BY <1>3 DEF Listen, Shutdown, Tick, PeersDone
  <2>2. server' \in {"off", "bind", "peers", "over"} => server \in {"off", "bind", "peers", "over"}
    BY <1>3 DEF Listen, Shutdown, Tick, PeersDone
  <2>3. left' = left \/ left # 0
    BY <1>3 DEF Listen, Shutdown, Tick, PeersDone
  <2> QED BY <1>2, <2>1, <2>2, <2>3 DEF DrainInv, LoopInv, Running
<1>4. CASE DrainEnds
  <2>1. request' = [r \in Requests |-> IF r \in Running THEN "cut" ELSE request[r]] /\ left' = left
    BY <1>4 DEF DrainEnds
  <2>2. \A r \in Requests : request'[r] # "running"
    BY <2>1 DEF Running, DrainInv
  <2>3. Running = {} \/ left = 0
    BY <1>4 DEF DrainEnds, Drained
  <2>4. (\E r \in Requests : request'[r] = "cut") => left' = 0
    BY <2>1, <2>3 DEF DrainInv
  <2>5. request' \in [Requests -> {"none", "running", "answered", "failed", "cut"}]
    BY <2>1 DEF DrainInv
  <2> QED BY <1>2, <2>2, <2>4, <2>5 DEF DrainInv, LoopInv, Running
<1> QED BY <1>3, <1>4 DEF ServerStep

LEMMA MainKeeps == ASSUME DrainInv, MainStep PROVE DrainInv'
<1>1. server' = server /\ left' = left /\ loop' = loop /\ post' = post
  BY DEF MainStep, Leave, StopAll, Exit, loopVars, serverVars
<1>2. main' \in {"stopping", "stopped"} => loop = "over" /\ server \in {"over", "broken"}
  BY DEF MainStep, Leave, Returned, StopAll, Exit, DrainInv
<1>3. CASE request' = request
  BY <1>1, <1>2, <1>3 DEF DrainInv, Running
<1>4. CASE RunningFail
  BY <1>1, <1>2, <1>4 DEF DrainInv, Running, RunningFail
<1>5. request' = request \/ RunningFail
  BY DEF MainStep, Leave, StopAll, Exit, serverVars
<1> QED BY <1>3, <1>4, <1>5

LEMMA SelfLoadKeeps == ASSUME DrainInv, SelfLoad PROVE DrainInv'
<1>1. UNCHANGED <<request, server, left, loop, post, main>>
  BY DEF SelfLoad, EngineWaited, LoadModel, LoadFails, LoadRetries, loopVars, serverVars
<1> QED BY <1>1 DEF DrainInv, Running

LEMMA WorldKeeps == ASSUME DrainInv, World PROVE DrainInv'
<1>1. CASE Restart
  BY <1>1, BootKeeps
<1>2. CASE Signal \/ LeaderTurns \/ PeersTurn \/ EngineUp \/ EngineRestarts \/ (\E s \in late : LateTaken(s))
  <2>1. UNCHANGED <<request, server, left, loop, post, main>>
    BY <1>2 DEF Signal, LeaderTurns, PeersTurn, EngineUp, EngineRestarts, LateTaken, loopVars, serverVars
  <2> QED BY <2>1 DEF DrainInv, Running
<1>3. CASE EngineExits
  <2>1. /\ request' = [r \in Requests |-> IF r \in Running THEN "failed" ELSE request[r]]
        /\ UNCHANGED <<server, left, loop, post, main>>
    BY <1>3 DEF EngineExits, loopVars
  <2> QED BY <2>1 DEF DrainInv, Running
<1>4. CASE \E r \in Requests : Arrive(r) \/ Answer(r)
  <2>1. PICK r \in Requests : Arrive(r) \/ Answer(r)
    BY <1>4
  <2>2. UNCHANGED <<server, left, loop, post, main>>
    BY <2>1 DEF Arrive, Answer, loopVars
  <2>3. CASE Arrive(r)
    BY <2>2, <2>3 DEF Arrive, DrainInv, Running
  <2>4. CASE Answer(r)
    BY <2>2, <2>4 DEF Answer, DrainInv, Running
  <2> QED BY <2>1, <2>3, <2>4
<1>5. CASE ServeFails
  <2>1. UNCHANGED <<request, left, loop, post, main>> /\ server' = "broken" /\ main = "waiting"
    BY <1>5 DEF ServeFails, loopVars
  <2> QED BY <2>1 DEF DrainInv, Running
<1> QED BY <1>1, <1>2, <1>3, <1>4, <1>5 DEF World

\* A worker that stops its engine has said goodbye and drained its server, and
\* no call of its is running, unless its listener failed; a call was cut only
\* when the drain bound had passed (cmd_join.go's wait, the loop's goodbye,
\* Shutdown and its bound): for any number of calls and of boots, and whatever
\* the leader, the engine and the gang's peers do meanwhile.
THEOREM DrainAlwaysBeforeStop == Spec => []DrainBeforeStop
<1>1. DrainInv /\ [Next]_vars => DrainInv'
  <2> SUFFICES ASSUME DrainInv, [Next]_vars PROVE DrainInv'
    OBVIOUS
  <2>1. CASE UNCHANGED vars
    BY <2>1 DEF vars, DrainInv, Running
  <2> QED BY <2>1, BootKeeps, LoopKeeps, ServerKeeps, SelfLoadKeeps, MainKeeps, WorldKeeps DEF Next
<1>2. DrainInv => DrainBeforeStop
  BY DEF DrainInv, DrainBeforeStop
<1> QED BY <1>1, <1>2, DrainInit, PTL DEF Spec
=============================================================================
