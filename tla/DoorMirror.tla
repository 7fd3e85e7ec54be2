----------------------------- MODULE DoorMirror -----------------------------
(***************************************************************************)
(* A front door copies the leader's worker list every few seconds and      *)
(* routes on the copy.  A leader that keeps its registry in memory loses   *)
(* it at every restart; its workers come back as their heartbeats fail,    *)
(* with a growing delay, and until then it says that it is rebuilding.     *)
(* Time is counted in ticks; within a tick the leader comes or goes first, *)
(* the workers whose timer is up act next, the door last.                  *)
(***************************************************************************)
EXTENDS Integers, FiniteSets

CONSTANTS
  Workers,
  Heartbeat, BackoffStop,  \* the interval; the delay from which it no longer doubles
  registryRebuildWindow, registryRebuildCap,
  RegistryTTL, mirrorEvery,
  MaxOutage,    \* bound: ticks the leader is down for
  MaxOutages    \* bound: times it goes down

VARIABLES
  up, down,          \* the leader runs; ticks it has been down
  registry,          \* what it lists: "none", "listed" (registered), "holding" (with its models)
  since, firstJoin,  \* ticks since the boot and since the first join (Never: none)
  gangs,             \* its shard rows
  running, timer, backoff,   \* the workers
  copy, copyGangs,   \* what the door routes on
  okAge, syncIn,     \* ticks since the last good sync; until the next one
  outages,
  good               \* history: good syncs in a row since the leader's list last changed or was rebuilding, up to two
vars == <<up, down, registry, since, firstJoin, gangs, running, timer, backoff,
          copy, copyGangs, okAge, syncIn, outages, good>>
leader == <<up, down, registry, since, firstJoin, gangs, outages>>
workers == <<running, timer, backoff>>
mirror == <<copy, copyGangs, okAge, syncIn>>

Never == 0 - 1
Older(age, bound) == IF age = Never \/ age > bound THEN age ELSE age + 1

\* A leader that has been up for long, a door that starts.
Init ==
  /\ up = TRUE /\ down = 0 /\ outages = 0 /\ gangs = {}
  /\ registry = [w \in Workers |-> "holding"]
  /\ since = registryRebuildCap /\ firstJoin = registryRebuildWindow
  /\ running = Workers /\ timer \in [Workers -> 1..Heartbeat]
  /\ backoff = [w \in Workers |-> Heartbeat]
  /\ copy = [w \in Workers |-> "none"] /\ copyGangs = {}
  /\ okAge = Never /\ syncIn = 0 /\ good = 0

\* Mutant: rebuilding ends with the first worker back.
RebuildingUnjoined == since < registryRebuildCap /\ firstJoin = Never

\* registryRebuild.active.
Rebuilding ==
  /\ since < registryRebuildCap
  /\ firstJoin = Never \/ firstJoin < registryRebuildWindow

---------------------------------------------------------------------------
(* Time, and the leader's outages.                                         *)

Due(w) == w \in running /\ timer[w] = 0

Pass ==
  /\ \A w \in Workers : ~Due(w)
  /\ syncIn > 0
  /\ timer' = [w \in Workers |-> IF w \in running THEN timer[w] - 1 ELSE 0]
  /\ syncIn' = syncIn - 1
  /\ okAge' = Older(okAge, RegistryTTL)
  /\ UNCHANGED <<running, backoff, copy, copyGangs>>

Tick ==
  /\ up /\ Pass
  /\ since' = Older(since, registryRebuildCap)
  /\ firstJoin' = Older(firstJoin, registryRebuildWindow)
  /\ UNCHANGED <<up, down, registry, gangs, outages, good>>

\* The process ends: what it knew is gone.
GoDown ==
  /\ up /\ outages < MaxOutages /\ Pass
  /\ up' = FALSE /\ down' = 0 /\ outages' = outages + 1
  /\ registry' = [w \in Workers |-> "none"] /\ gangs' = {}
  /\ since' = Never /\ firstJoin' = Never /\ good' = 0

StayDown ==
  /\ ~up /\ down < MaxOutage /\ Pass
  /\ down' = down + 1
  /\ UNCHANGED <<up, registry, since, firstJoin, gangs, outages, good>>

\* NewServer with an empty store: newRegistryRebuild.
Boot ==
  /\ ~up /\ Pass
  /\ up' = TRUE /\ down' = 0 /\ since' = 0
  /\ UNCHANGED <<registry, firstJoin, gangs, outages, good>>

\* A gang is formed, or removed.
Form(g) ==
  /\ up /\ g # gangs
  /\ okAge # Never /\ outages < MaxOutages
  /\ gangs' = g /\ good' = 0
  /\ UNCHANGED <<up, down, registry, since, firstJoin, outages, workers, mirror>>

---------------------------------------------------------------------------
(* A worker: agent.Loop.                                                   *)

\* The leader cannot be reached: the delay doubles up to its cap.
Doubled(b) == IF b < BackoffStop THEN 2 * b ELSE b

HeartbeatFails(w) ==
  /\ Due(w) /\ ~up
  /\ backoff' = [backoff EXCEPT ![w] = Doubled(@)]
  /\ timer' = [timer EXCEPT ![w] = backoff'[w]]
  /\ UNCHANGED <<running, leader, mirror, good>>

NextBeat(w) == backoff' = [backoff EXCEPT ![w] = Heartbeat] /\ timer' = [timer EXCEPT ![w] = Heartbeat]

\* 404: the worker registers; the first join starts the clock.
Register(w) ==
  /\ Due(w) /\ up /\ registry[w] = "none"
  /\ registry' = [registry EXCEPT ![w] = "listed"]
  /\ firstJoin' = IF firstJoin = Never THEN 0 ELSE firstJoin
  /\ good' = 0
  /\ NextBeat(w)
  /\ UNCHANGED <<up, down, since, gangs, outages, running, mirror>>

\* A heartbeat says which models the worker holds.
Beat(w) ==
  /\ Due(w) /\ up /\ registry[w] # "none"
  /\ registry' = [registry EXCEPT ![w] = "holding"]
  /\ NextBeat(w)
  /\ UNCHANGED <<up, down, since, firstJoin, gangs, outages, running, mirror, good>>

Stop(w) ==
  /\ w \in running /\ outages < MaxOutages /\ Cardinality(running) > 1
  /\ running' = running \ {w}
  /\ UNCHANGED <<timer, backoff, leader, mirror, good>>

---------------------------------------------------------------------------
(* The door: Mirror.Sync.                                                  *)

Quiet == \A w \in Workers : ~Due(w)
Fresh == okAge # Never /\ okAge <= RegistryTTL
First == okAge = Never
Adopt == Fresh \/ First

\* fetch fails: the copy stays as it is.
SyncFails ==
  /\ syncIn = 0 /\ Quiet /\ ~up
  /\ syncIn' = mirrorEvery /\ good' = 0
  /\ UNCHANGED <<copy, copyGangs, okAge, leader, workers>>

\* A list of a rebuilding leader takes no models away.
WithKnownPlacements(w) == IF Rebuilding /\ copy[w] = "holding" THEN "holding" ELSE registry[w]

\* dropUnlisted, on a fresh and whole list only.
Listed(w) ==
  IF registry[w] = "none" THEN (IF Fresh /\ ~Rebuilding THEN "none" ELSE copy[w])
  ELSE IF copy[w] = "none" /\ ~Adopt THEN "none"
  ELSE WithKnownPlacements(w)

SyncShards == Adopt /\ ~(Rebuilding /\ ~First)

Sync ==
  /\ syncIn = 0 /\ Quiet /\ up
  /\ copy' = [w \in Workers |-> Listed(w)]
  /\ copyGangs' = IF SyncShards THEN gangs ELSE copyGangs
  /\ okAge' = 0 /\ syncIn' = mirrorEvery
  /\ good' = IF Rebuilding THEN 0 ELSE IF good < 2 THEN good + 1 ELSE good
  /\ UNCHANGED <<leader, workers>>

\* The second request fails: the workers are copied, the sync is not a good one.
SyncShardsFails ==
  /\ syncIn = 0 /\ Quiet /\ up /\ SyncShards
  /\ copy' = [w \in Workers |-> Listed(w)]
  /\ syncIn' = mirrorEvery /\ good' = 0
  /\ UNCHANGED <<copyGangs, okAge, leader, workers>>

Go ==
  \/ Tick \/ GoDown \/ StayDown \/ Boot
  \/ \E g \in {{}, {"g"}} : Form(g)
  \/ \E w \in Workers : HeartbeatFails(w) \/ Register(w) \/ Beat(w) \/ Stop(w)
  \/ SyncFails \/ Sync \/ SyncShardsFails
Next == Go
Spec == Init /\ [][Next]_vars

---------------------------------------------------------------------------
\* The door goes on routing to a worker that runs (Sync, active, Loop): no restart of the leader
\* takes the worker, or the models it holds, out of the copy.
KeepsStep == \A w \in running' : copy[w] = "holding" => copy'[w] = "holding"

\* Two good syncs in a row with a leader whose list is whole and does not change are enough for the door to have
\* exactly that list (Sync, dropUnlisted, syncShards), even after an outage that made its copy stale.
DoorFollows == good = 2 =>
  copyGangs = gangs /\ \A w \in Workers : (copy[w] = "none") = (registry[w] = "none")
=============================================================================
