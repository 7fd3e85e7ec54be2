---------------------------- MODULE ServingView ----------------------------
(***************************************************************************)
(* Whether a model can be served, as five parts of the leader see it:      *)
(* admission (modelServable, slotsOf), the refusal a caller gets           *)
(* (unavailable), readiness (readyz), the load report (loadz) and the wake *)
(* of a sleeping worker by a request.  All read the same rows, which       *)
(* follow the workers' engines only as heartbeats arrive.                  *)
(* "m" is a model workers hold one by one, "g" a model a gang serves.      *)
(***************************************************************************)
EXTENDS Naturals, FiniteSets

CONSTANTS
  Nodes, Parts,      \* the workers; those that hold a part of the gang
  Callers,
  PullDefaultModel,  \* the leader loads its default model by itself
  SleepsByDesign,    \* a plan whose floor is zero
  Fallback,          \* a fallback target is configured
  MaxTurns           \* bound: what engines, workers and operators do by themselves

VARIABLES
  engine,      \* the worker's engine: "serving", "asleep", "restarting", "stopped", "mute"
  row,         \* the leader's row of a worker
  coordinator, \* the gang's coordinator row: "none", "starting", "ready"
  listed,      \* the engine as the heartbeat under way listed its models
  localEngine, \* the leader's own engine: "down", "up", "holds" (up, with "m")
  withheld,    \* workers the policy forbids to resume
  flight,      \* wakes under way: "none", "calling", "resumed", "over"
  caller,      \* requests for "m"
  turns
vars == <<engine, listed, row, coordinator, localEngine, withheld, flight, caller, turns>>

Idle == [at |-> "idle"]
Init ==
  /\ engine = [n \in Nodes |-> "serving"]
  /\ row = [n \in Nodes |-> [state |-> "ready", alive |-> TRUE, silent |-> FALSE, sample |-> "serving",
                             placed |-> "ready", before |-> TRUE]]
  /\ coordinator = "none" /\ listed = engine /\ localEngine = "down" /\ withheld = {}
  /\ flight = [n \in Nodes |-> "none"] /\ caller = [c \in Callers |-> Idle] /\ turns = 0

---------------------------------------------------------------------------
(* The views.                                                              *)

TakesNewWork(n) == row[n].state = "ready" /\ row[n].alive /\ ~row[n].silent
engineGoneWhy(n) == row[n].sample = "stopped"
Routable(n) == TakesNewWork(n) /\ ~engineGoneWhy(n)

gangServable == coordinator = "ready" /\ \A n \in Parts : Routable(n)

\* Workers that hold "m" ready and can take it: slotsOf's holders.
Holders == {n \in Nodes : row[n].placed = "ready" /\ Routable(n)}

modelServable(model) ==
  IF model = "g" /\ coordinator # "none" THEN gangServable
  ELSE model = "m" /\ (Holders # {} \/ localEngine = "holds")

\* readySnapshot and readyz.
livePlacement == \E n \in Nodes : TakesNewWork(n) /\ row[n].placed = "ready"
sleepingPlacement == \E n \in Nodes : row[n].alive /\ row[n].placed = "sleeping"
hasServingCapacity == localEngine # "down" \/ livePlacement \/ gangServable
readyz == hasServingCapacity \/ sleepingPlacement \/ SleepsByDesign

servesNow(n, model) == model = "m" /\ row[n].placed = "ready"

\* Mutant: a worker whose engine is gone counts.
LoadWorkersAll(model) ==
  {n \in Nodes : TakesNewWork(n) /\ ((model = "g" /\ gangServable /\ n \in Parts) \/ servesNow(n, model))}

\* aggregateWorkerLoad: the workers that serve the model now.
LoadWorkers(model) ==
  {n \in Nodes : Routable(n) /\ ((model = "g" /\ gangServable /\ n \in Parts) \/ servesNow(n, model))}

\* holdersOf: what each worker that holds, or held, "m" is counted as.
countEngineDown(n) ==
  IF row[n].state = "draining" \/ ~row[n].alive \/ ~row[n].before THEN "none"
  ELSE IF row[n].sample \in {"restarting", "stopped"} THEN row[n].sample ELSE "none"
CountedAs(n) ==
  IF row[n].placed \in {"none", "released"} THEN countEngineDown(n)
  ELSE IF row[n].state = "draining" THEN "draining"
  ELSE IF ~row[n].alive THEN "lost"
  ELSE IF row[n].silent THEN "silent"
  ELSE CASE row[n].placed = "ready" -> "serving" [] row[n].placed = "sleeping" -> "asleep" [] OTHER -> "draining"
Counted == {CountedAs(n) : n \in Nodes} \ {"none"}

\* gangReason: what the parts of the gang wait for.
PartAs(n) ==
  IF ~row[n].alive THEN (IF row[n].state = "draining" THEN "draining" ELSE "lost")
  ELSE IF row[n].state = "draining" THEN "draining"
  ELSE IF row[n].silent THEN "silent" ELSE "serving"
gangReason ==
  LET causes == {PartAs(n) : n \in Parts} \ {"serving"} IN
  IF causes = {} THEN {"not ready"} ELSE IF \A n \in Parts : PartAs(n) # "serving" THEN {"waking"} ELSE causes

\* unavailable: the causes a caller is told, none when the request may go on.
unavailable(model) ==
  IF modelServable(model) THEN {}
  ELSE IF model = "m" /\ Counted # {} THEN (IF Counted \subseteq {"asleep", "serving"} /\ "asleep" \in Counted THEN {"waking"} ELSE Counted)
  ELSE IF model = "g" /\ coordinator # "none" THEN gangReason
  ELSE IF ~PullDefaultModel /\ ~hasServingCapacity THEN {"waking"}
  ELSE {}

---------------------------------------------------------------------------
(* Engines, heartbeats, operators.                                         *)

Turn == turns < MaxTurns /\ turns' = turns + 1

EngineTurns(n, to) ==
  /\ Turn /\ engine[n] # to
  /\ engine' = [engine EXCEPT ![n] = to]
  /\ UNCHANGED <<listed, row, coordinator, localEngine, withheld, flight, caller>>

\* The worker asks its engine which models it holds; what its process does, it reads afterwards.
ListModels(n) ==
  /\ listed' = [listed EXCEPT ![n] = engine[n]]
  /\ listed' # listed
  /\ UNCHANGED <<engine, row, coordinator, localEngine, withheld, flight, caller, turns>>

\* HeartbeatNode with ReplaceForNode: the rows follow the listing and keep the leader's marks (a
\* released one while the engine holds the model cold); an engine that does not answer leaves them.
Reported(n, r, cold) ==
  LET sample == IF engine[n] \in {"restarting", "stopped"} THEN engine[n] ELSE "serving"
      placed == IF listed[n] \notin {"serving", "asleep"} THEN "none"
                ELSE IF r.placed = "draining" \/ (r.placed = "released" /\ cold) THEN r.placed
                ELSE IF listed[n] = "asleep" THEN "sleeping" ELSE "ready" IN
  IF listed[n] = "mute" THEN [r EXCEPT !.alive = TRUE, !.sample = sample]
  ELSE [r EXCEPT !.alive = TRUE, !.silent = FALSE, !.sample = sample, !.placed = placed,
                 !.before = @ \/ placed # "none"]

Heartbeat(n, cold) ==
  /\ row' = [row EXCEPT ![n] = Reported(n, @, cold)]
  /\ row' # row
  /\ UNCHANGED <<engine, listed, coordinator, localEngine, withheld, flight, caller, turns>>

\* Time: heartbeats stop; an engine has not answered its worker for as long; a sample is too old.
Ages(n) ==
  /\ Turn
  /\ \/ row[n].alive /\ row' = [row EXCEPT ![n].alive = FALSE]
     \/ row[n].sample # "none" /\ row' = [row EXCEPT ![n].sample = "none"]
     \/ row[n].alive /\ listed[n] = "mute" /\ ~row[n].silent /\ row' = [row EXCEPT ![n].silent = TRUE]
  /\ UNCHANGED <<engine, listed, coordinator, localEngine, withheld, flight, caller>>

\* An operator drains or undrains a worker, a move marks its placement, the gang or the leader's engine changes.
Operator ==
  /\ Turn
  /\ \/ \E n \in Nodes, s \in {"ready", "draining"} :
          /\ row' = [row EXCEPT ![n].state = s] /\ UNCHANGED <<coordinator, localEngine, withheld>>
     \/ \E n \in Nodes, s \in {"draining", "released"} :
          /\ row[n].placed = "ready" /\ row' = [row EXCEPT ![n].placed = s] /\ UNCHANGED <<coordinator, localEngine, withheld>>
     \/ \E s \in {"none", "starting", "ready"} : coordinator' = s /\ UNCHANGED <<row, localEngine, withheld>>
     \/ (\E s \in {"down", "up", "holds"} : localEngine' = s) /\ UNCHANGED <<row, coordinator, withheld>>
     \/ \E n \in Nodes : withheld' = {n} /\ UNCHANGED <<row, coordinator, localEngine>>
  /\ UNCHANGED <<engine, listed, flight, caller>>

---------------------------------------------------------------------------
(* A request for "m": routeOneOpenAI, wakeForRequest.                      *)

sleepingHolder(n) == TakesNewWork(n) /\ row[n].placed = "sleeping" /\ n \notin withheld
At(c, to) == caller' = [caller EXCEPT ![c] = to]

\* Servable, or nobody to wake: admission decides at once.
Request(c) ==
  /\ caller[c] = Idle
  /\ modelServable("m") \/ ~\E n \in Nodes : sleepingHolder(n)
  /\ At(c, [at |-> "admit"])
  /\ UNCHANGED <<engine, listed, row, coordinator, localEngine, withheld, flight, turns>>

\* LoadOrStore: the first caller starts the wake, the others wait for it.
Starts(n) == flight[n] = "none"

Wake(c, n) ==
  /\ caller[c] = Idle /\ ~modelServable("m") /\ sleepingHolder(n)
  /\ flight' = [flight EXCEPT ![n] = IF Starts(n) THEN "calling" ELSE @]
  /\ At(c, [at |-> "waiting", node |-> n])
  /\ UNCHANGED <<engine, listed, row, coordinator, localEngine, withheld, turns>>

\* resumeNode: the worker resumes its engine, or does not.
Resumes(n, ok) ==
  /\ flight[n] = "calling"
  /\ ok => engine[n] \in {"asleep", "serving"}
  /\ engine' = IF ok THEN [engine EXCEPT ![n] = "serving"] ELSE engine
  /\ flight' = [flight EXCEPT ![n] = IF ok THEN "resumed" ELSE "over"]
  /\ UNCHANGED <<listed, row, coordinator, localEngine, withheld, caller, turns>>

\* The sleeping rows are marked ready.
Marks(n) ==
  /\ flight[n] = "resumed"
  /\ row' = IF row[n].placed = "sleeping" THEN [row EXCEPT ![n].placed = "ready"] ELSE row
  /\ flight' = [flight EXCEPT ![n] = "over"]
  /\ UNCHANGED <<engine, listed, coordinator, localEngine, withheld, caller, turns>>

\* The entry is deleted, then everyone who waits is let go.
Lands(n) ==
  /\ flight[n] = "over"
  /\ flight' = [flight EXCEPT ![n] = "none"]
  /\ caller' = [c \in Callers |-> IF caller[c] = [at |-> "waiting", node |-> n] THEN [at |-> "admit"] ELSE caller[c]]
  /\ UNCHANGED <<engine, listed, row, coordinator, localEngine, withheld, turns>>

\* The budget runs out: the caller goes on, the wake does too.
OutOfBudget(c) ==
  /\ caller[c].at = "waiting"
  /\ At(c, [at |-> "admit"])
  /\ UNCHANGED <<engine, listed, row, coordinator, localEngine, withheld, flight, turns>>

\* admit and forwardToFallback: served, forwarded, or told why not.
Admit(c) ==
  /\ caller[c].at = "admit"
  /\ \/ unavailable("m") = {} /\ At(c, [at |-> "served"])
     \/ unavailable("m") # {} /\ Fallback /\ At(c, [at |-> "forwarded"])
     \/ unavailable("m") # {} /\ At(c, [at |-> "refused", why |-> unavailable("m")])
  /\ UNCHANGED <<engine, listed, row, coordinator, localEngine, withheld, flight, turns>>

Next ==
  \/ \E n \in Nodes, to \in {"serving", "asleep", "restarting", "stopped", "mute"} : EngineTurns(n, to)
  \/ \E n \in Nodes : ListModels(n) \/ Heartbeat(n, TRUE) \/ Heartbeat(n, FALSE) \/ Ages(n) \/ Resumes(n, TRUE) \/ Resumes(n, FALSE) \/ Marks(n) \/ Lands(n)
  \/ Operator
  \/ \E c \in Callers : Request(c) \/ OutOfBudget(c) \/ Admit(c) \/ \E n \in Nodes : Wake(c, n)
Spec == Init /\ [][Next]_vars

---------------------------------------------------------------------------
\* The views agree (modelServable, slotsOf, readyz, aggregateWorkerLoad, unavailable): what can be
\* served makes the leader ready; the workers the load report counts are the ones admission counts;
\* while a worker that may be woken is all that is missing, callers are told of it; and a caller is
\* refused for no cause only in the instant a stopped engine's model is still listed.
ViewsAgree ==
  /\ (modelServable("m") \/ modelServable("g")) => readyz
  /\ LoadWorkers("m") = Holders
  /\ (LoadWorkers("g") # {}) = (gangServable /\ Parts # {})
  /\ (\E n \in Nodes : sleepingHolder(n)) /\ ~modelServable("m") => unavailable("m") \cap {"waking", "asleep"} # {}
  /\ unavailable("m") = {"serving"} => \E n \in Nodes : row[n].placed = "ready" /\ engineGoneWhy(n)

\* However many requests share a wake, none waits for one that is over: whoever joined it in time is
\* let go with the others, and who came late started the next (wakeForRequest).
NobodyWaitsInVain == \A c \in Callers : caller[c].at = "waiting" => flight[caller[c].node] # "none"
=============================================================================
