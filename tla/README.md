# Verification of opod-core in TLA+

opod-core runs large language models on a set of machines. A *leader* accepts requests, keeps the
registry of workers and placements in SQLite, decides who serves what, and moves or shards models. A
*worker* (the agent) runs engine processes under a supervisor, loads and unloads models and tells the
leader so with heartbeats. A *door* (gateway) stands in front of a leader and routes on a copy of its
registry. This directory holds TLA+ models of the parts where goroutines, processes or machines act on
shared state, TLC configurations that check them on small instances, and TLAPS proofs of what matters
most for instances of every size.

`PROJECT.json` lists the components, the runs with their properties, the source lines every definition
stands for (`map`), the hazards and the theorems. This file explains how to read them.

1. The system and its modules · 2. How a module is written · 3. The runs · 4. Bounds and fairness ·
5. What is proved · 6. What is only model-checked · 7. Where the code and its comments disagree ·
8. What is left out

## 1. The system and its modules

A request arrives at a door or at the leader. The **admission gate** gives it a worker's slot or makes it
wait; the gate's capacity is a cached view of the registry. The **router** picks a target (a worker, a
gang of workers that share one model, or the leader's own engine), and goes on to the next when that one
fails. The **worker** passes the call to the engine it launched, and the answer travels back over five
goroutines. A **usage row** records it. Meanwhile heartbeats carry what engines serve to the **node
registry**, operators drain nodes, **move** models and form **gangs**, files steer the leader, and
everybody may restart.

The way in:

| module | what it models | source |
|---|---|---|
| `SlotGate` | the pool of one model: class queues with deficit round robin, class policy, slots, holds, shedding, completions | `leader/admission*.go` |
| `CapacityView` | how a pool learns what it can serve: two reads outside the lock, generations, announcements | `leader/admission.go`, `store/nodelive.go` |
| `ServingView` | admission, refusals, readiness, load report and wake-ups read the same rows and must agree | `leader/capacity.go`, `liveness.go`, `loadstats.go`, `health.go`, `wakeonrequest.go` |
| `CellDoor` | one URL for many endpoints: routes file, automatic routes, listings | `leader/doorrole.go`, `doorauto.go` |
| `DoorMirror` | a door's copy of a registry whose leader restarts | `gateway/mirror.go`, `leader/nodes.go` |

A request on its way:

| module | what it models | source |
|---|---|---|
| `Failover` | the abstract promise of the router to its callers | (promise) |
| `Router` | attempts, retries, next worker, fallbacks, cooldowns, pins, hedges, prefill hand-off, in-flight counts | `router/` |
| `RequestErrors` | the meaning of a failure over every hop it is written and read on, and over the places asked after it | `api/`, `agent/`, `engines/openaicompat`, `router/chat.go`, `router/embed.go` |
| `StreamPath` | a streamed answer through all goroutines of its path, in both dialects | `engines/`, `agent/`, `router/`, `api/` |
| `AnthropicTurns` | an Anthropic conversation over an engine that speaks OpenAI's chat | `api/anthropic.go` |
| `ResponseCache` | the cache of embedding answers, both drivers, under overlapping requests and flushes | `cache/`, `store/cache.go`, `api/embeddings.go` |
| `Accounting` | usage rows from a door over the leader to a collector, with lost answers and restarts | `gateway/push.go`, `usage/`, `leader/gatewayspend.go` |
| `Batch` | a batch over all its runs: the work directory as the record that a run resumes from | `batch/`, `cmd/opod/cmd_batch.go` |

The fleet, as the leader sees it:

| module | what it models | source |
|---|---|---|
| `NodeRegistry` | register, heartbeat, goodbye, drain, remove and clean-ups for one node id, store call by store call | `leader/nodeservice.go`, `store/nodes.go`, `agent/loop.go` |
| `ModelMove` | the live move of a model, with heartbeats that arrive late, requests and a leader that restarts | `scheduler/move.go` |
| `Gangs` | creates and teardowns of gangs that overlap; which workers, splits and ports a gang gets | `scheduler/sharding.go`, `gangs.go`, `partlost.go`, `placement.go` |
| `GangHeal` | the loop that forms planned gangs again | `leader/planheal.go` |
| `PrefixIndex`, `PrefixLookup` | what the leader believes of workers' prefix caches; how a request asks it | `kvevents/`, `leader/prefixindex.go` |
| `EventFeed` | the event bus, its streams, the trimmed event log | `events/bus.go`, `store/eventlog.go`, `leader/eventlog.go` |
| `AuthFile`, `Tokens` | the watched auth snapshot; keys an operator manages | `leader/authfile.go`, `tokens.go`, `store/keys.go`, `auth/` |
| `WatchedFiles` | the plan and the policy file, put in force while requests are judged by them | `leader/planfile.go`, `policyfile.go` |
| `LeaderProcess` | `opod up` and `opod down`, step by step, over what a leader shares with the one before it, gone or still leaving | `cmd/opod/cmd_up.go`, `cmd_down.go`, `leader/server.go`, `control/bootstrap.go` |

A machine:

| module | what it models | source |
|---|---|---|
| `WorkerProcess` | `opod join` from boot to exit: registration, heartbeats, a listener that fails, drain, goodbye, stop | `cmd/opod/cmd_join.go`, `agent/loop.go`, `drain.go`, `selfload.go` |
| `Supervisor` | the processes of one id: launch, probe, exit, restart, Stop | `agent/supervisor.go` |
| `WorkerEngine` | load, unload and adapters of an engine a worker launches, under overlapping calls | `agent/server.go`, `unload.go`, `adapters.go` |
| `LaunchLine` | the engine's command line, what the worker remembers of it, how the engine reads it | `agent/engineflags.go`, `launchers.go` |
| `EngineStats` | what a heartbeat says of an engine that only publishes totals | `engines/`, `agent/loop.go` |
| `Lifecycle` | the memory of the leader's own engine: loads, evictions, drains, restore | `lifecycle/` |
| `WeightCache`, `KVTier` | the shared directory of weights under pulls, prunes and sweeps; the pruner of the KV tier | `fetch/` |
| `WeightShip` | a file brought to every worker of a gang | `scheduler/gguf_distribute.go`, `agent/server.go` |
| `SelfUpdate` | the swap of the binary under kills | `update/`, `cmd/opod/cmd_update.go` |

`BatchProofs`, `ModelMoveProofs`, `SupervisorProofs`, `RouterProofs` and `FailoverProofs` hold theorems
about the module they extend; the theorems of `CapacityView`, `NodeRegistry` and `WorkerProcess` stand at
the end of those modules.

## 2. How a module is written

A module has the state of its component as variables, one action per step that others can see, and the
properties at its end. A step is what the code does between two points where another goroutine, process
or machine can act: a critical section, a store call, a call over the network, a file operation. What a
goroutine read earlier and still carries is in its own record (`req[q]`, `call[c]`, `mv[m]`, ...), and may
be stale by the time it is used. Data is reduced to what the properties tell apart: a digest is the
content it is the digest of, a hash is the prefix it names, an engine's answer is its class.

Events that the code does not decide (a kill, a lost answer, a client that leaves, a clock that passes a
deadline) are actions of their own. Constants say how often they happen; time is counted in the ticks
that the code's intervals are multiples of, or left out where a timer may fire at any moment.

Operators whose comment begins with "Mutant" are wrong versions of the definition after them: a dropped
guard, a lost reset, a swapped order. Replacing the definition by one makes the property fail that
`PROJECT.json` lists it with.

In `map`, a helper used by one operation only is given with the lines of that operation. A definition
marked external models what the code relies on and does not contain: the engine, the file system, the
operating system's processes, HTTP.

**MC modules.** A run checks several components side by side, one in each behaviour. The variable `which`
names the scenario; it is chosen in the first state and never changes. The module extends one component
in its own variables and takes the others, or further instances of the same, with `INSTANCE`, over a
pool of variables `v1`, `v2`, ... that a scenario uses as many of as it needs (`Rest` and `Still` fix the
others). A property of the extended component is checked as it stands there, and is the definition the
theorems of section 5 are about: further instances of it share its variables, and keep to its constants
where a property mentions them (the scenario `engine` uses one of the two records). A property of the others
is the conjunction of what is promised in each scenario: `MCGangs!GangsAreWhole` is that of `Gangs` in each of
five.

## 3. The runs

| run | scenarios | properties |
|---|---|---|
| `admission` (`MCAdmission`) | `gate`: four requests of three classes for one slot; `workers`: three on two workers; `policy`: two while the policy changes; `round`: one class queue over three flows; `cell`, `cell1`: a cell door with three endpoints or one, whose routes change; `mirror`: a door's copy over short outages of its leader | `GateIsSound`: slots are conserved, none idles beside a request that may use it, queues and counts match the waiters, every waiter has a completion that reaches it, no flow waits more than a round. `GrantsInOrder`: no grant overtakes a higher class or exceeds slots or shares; only the lowest class is shed. `DoorAnswers`, `MirrorFollows` |
| `requests` (`MCRequests`) | `view`: two requests, two writers of the registry; `stream`: one request on each route; `errors`: ten statuses at every place, and a second place asked after a failure; `turns`: a conversation of four turns; `cache`: two requests at once, both drivers; `usage`: four rows, two faults; `line`: every engine's launch line with up to two extra tokens; `sample`: an engine that is relaunched | `ViewIsCurrent`, `AnswerIsWhole`, `ErrorsKeepTheirMeaning`, `ConversationKept`, `CacheIsTrue`, `RowsChargedOnce`, `EngineIsAsSaid` |
| `batch` (`Batch`) | three lines, one of which cannot be sent, two workers, any two faults other than a mark cut short | `LinesOnce`, `BatchIsTrue`, `EventuallyOver` |
| `machine` (`MCMachine`) | `move`, `spare`: two or three workers, one move after another, a restart of the leader and a lost answer, with a request or without; `faults`, `faults2`: moves asked for on old reports, with a restart of the leader, of an engine and a worker that comes and goes, or two at once; `memory`, `restart`: three models of which two fit, and one call; two models, three calls and restarts of the leader; `engine`: overlapping loads and unloads; `flags`: an operator's own LoRA flags, a part of a gang on the same worker; `pulls`, `three`, `killed`, `prune`, `sweep`: the weight cache, with a pull that lasts longer than `LockWait` in the first; `tier`, `ship`, `update` | `DrainHasADriver`, `ServiceStays`, `ReleasedStaysOut`, `MovesUnderFaults`, `MemoryIsAsSaid`, `FilesAreWhole` |
| `leader` (`MCLeader`) | `nodes`, `goodbye`, `silent`, `gangs`: two overlapping handlers of a node's calls, two worker processes, an operator; `index`, `lookup`: the prefix index and its use; `views`; `auth`, `tokens`, `files`: what is in force while it changes; `feed`; `keys`: two processes of `opod up` in turn; `leader`: the second starts while the first is still leaving | `DrainStands`, `PrefixesAreTrue`, `ViewsAgree`, `SettingsInForce`, `FeedIsSound`, `LeaderTakesOver` |
| `worker` (`MCWorker`) | `join`, `load`: a worker process from boot to exit; `two calls`, `one call`: the leader's record of a worker that restarts; `gate`: two requests for one slot | `DrainBeforeStop`; and, under fairness, `StopsEnd`, `RecordSettles`, `EveryWaitEnds` |
| `router` (`MCRouter`) | two requests over five fleets: `workers` (removals, cooldowns, retries), `roles` (prefill and decode, plan revisions, pins), `split` (two prefill workers for one decoder), `gangs` (two gangs, a unary operation), `hedge` | `CountsOpenCalls`, `NoWorkerPassedOver`, `ImplementsFailover` |
| `gangs` (`MCGangs`) | `supervisor`, `engines`, `engine`: two Starts, a Stop at any moment, one restart; `same`, `worker`, `model`, `lossy`, `hosted`: two creates and up to two teardowns that overlap, with a coordinator on the leader in the last; `alone`, `heal`: the healer; `shapes`, `figures`: the pure operators of placement and ranking over bounded inputs | `OneChildPerRecord`, `NewsPending`, `GangsAreWhole`, `PlacementIsRight`, `FiguresAreRight`; and, under fairness, `ThreadsSettle`, `GangsSettle` |
| `door`, `cache_sweep`, `prefix_index`, `supervisor_twins` | section 7 | *violated*: `DoorKeepsWorkers`, `PinnedIsRight`, `IndexIsTrue`, `OneChildPerId` |

**Refinement.** `Failover` has four variables per request: whom it asks, who gave it nothing, how far along
its alternatives it is, how it ended. `Router` implements it under the mapping in `MCRouter!Promise` (and
`FailoverProofs!Promise`): a hedged request asks several workers for what its caller sees as one, a
prefill hand-off is part of asking the decoder. TLC checks the whole specification, with its liveness,
on the five fleets; its safety part is proved (section 5).

**Reference definitions.** `PlacementIsRight` and `FiguresAreRight` compare what the code computes step by
step (the greedy choice of shards, the first free block of ports, the ring of samples, the percentile,
the reordering of a chain) with what it is meant to be (the least number of equal parts that fit, the
least free block, the last three samples, the least value that 95 of 100 do not exceed).

## 4. Bounds and fairness

**Bounds.** Two handlers, callers or pulls are what it takes for one to act between another's read and
write; a third repeats the pattern. Where three matter (two that find the same dead holder of a lock) a
scenario has three, and section 7 says what it shows (`AlwaysOneFetcher`). Two worker
processes are an old and a new one. Two records of an id are a Start that replaces another. Two faults put
a second kill, stop or failed write into the run that resumes after the first. Four requests fill the
slots and the hold, so that a higher class has somebody to displace. One restart is the first and the
last, so both sides of the bound are reached. Two requests on a fleet of three or four targets share
counts, cooldowns and pins and still exhaust their targets. Every bound is a constant of its module
(`MaxBoots`, `MaxOps`, `MaxTasks`, `MaxWrites`, `MaxFaults`, `MaxRecords`, `MaxRestarts`, `MaxTurns`, ...).
Where `CHECK_DEADLOCK FALSE` stands, a scenario really stops: the bounded Starts, commands or boots are
used up and nothing is due. Symmetry is used for handlers and writers that are alike, and only in runs
without liveness.

**Fairness.** A goroutine that can go on does: weak fairness of the steps of handlers, threads, tasks,
creates, the heal loop and the router's requests. Timers fire: hold deadlines, the drain bound, the timeout
of a batch's request. A killed child dies, heartbeats keep coming, a Job starts its run again. Strong
fairness is used for the leader's record only: a worker that keeps heartbeating comes back to a heartbeat
with a report, and one of its process lists is answered, though calls of the process before it may get in
between any number of times. Nobody need start, stop, drain or remove anything, a child need not exit, a
client need not leave.

**One policy.** `NoIdleSlot`, `NoOvercommit` and `LowestShedFirst` hold while one policy is in force. Across
a reload they do not: requests keep the class they arrived with, and the new shares apply to them at once.

## 5. What is proved

The theorems hold for every value of the constants that satisfies the assumptions named. The assumptions on
constants in the modules say of what kind they are (a bound is a natural number, a worker that keeps weights
is a worker). Hypotheses beyond that stand in the theorem and are given here.

**`CapacityView!ViewAlwaysCurrent`** (`ViewIsCurrent`): a cached view that carries the current
generation is true up to changes nobody announced, and an announced change reaches the pools in which
requests waited. The invariant has to speak of reads in progress: a computation that began under the current
generation has read only what is true (`ReadsTrue`), and a waiter older than the last announcement has a view
of the current generation or a writer that is about to install one (`Covered`).

**`BatchProofs!LinesOnceAlways`** (`LinesOnce`) and **`BatchAlwaysTrue`** (`BatchIsTrue`), assuming
`WholeMarks`: no write of a mark fails half way in a run that goes on. Section 7 shows that the code needs
it. The first invariant says who answers for a line: what is still to be handed out has neither mark nor
result (`LineSound`), a worker is alone with its line and marked it before the request (`WorkerSound`,
`Alone`), the write under way belongs to one of them (`LockSound`), and a running process appends behind
whole marks (`RunSound`). For the second, `AnswersInv` says what an answer may claim of what the server got,
`LoopInv` how the loop comes to its end and how little a stop lets through, `CoverInv` that every line is
answered, held or still to come while a run goes on (so that a count equal to the number of lines means all of
them), and `EndInv` what an ended batch has published.

**`ModelMoveProofs!DrainAlwaysHasADriver`** (`DrainHasADriver`) and **`ReleasedAlwaysStaysOut`**
(`ReleasedStaysOut`), for any faults. The first needs only that a move past its admission knows its nodes. The
second says how a released worker can lose its mark: by a report without the model, by a report of the model in
memory, or by the flip of a move admitted before the release. It needs that one move at a time holds a claim and
that the source of a flipped move is not yet released (`ClaimInv`). **`ServiceAlwaysStays`** (`ServiceStays`),
assuming `Undisturbed`: one move at a time, each asked for once every worker has reported what the last one did,
no engine that fails by itself and no worker that leaves the rotation by itself. Restarts of the leader, lost
answers, late heartbeats and failed loads, unloads and waits may come at any step. `ServiceInv` says for each
place of a move which worker serves (`Stand`), what a heartbeat on its way from the target or the source would
write (`TargetInv`, `SourceInv`), and when an engine of one model per process can be out of rotation (`NodeInv`).
One caller and its patience are both needed: two rows of section 7 show the model out of service without them.

**`NodeRegistry!DrainAlwaysStands`** (`DrainStands`), for any number of overlapping handlers and worker
processes. A registration that has read the row may be about to write it, so the invariant (`DrainInv`) adds
that while a drain stands every such registration carries it (`CarriesDrain`).

**`SupervisorProofs!OneChildAlways`** (`OneChildPerRecord`), **`RelaunchesAlwaysCounted`**
(`RelaunchesCounted`) and **`NewsAlwaysPending`** (`NewsPending`). The second says that each relaunch of a record
counts one of its `MaxRestarts`, and that the count goes back only when `superviseExit` judges a child that was
reaped while no Stop stood. `Sound` says at which places of its thread a record can have a child
nobody knows of, at which it has no living one, and at which a restart is still below the bound. That no
running process is missed rests on the order in one place: only the thread of a record makes it running, and
it signals before it watches its child.

**`WorkerProcess!DrainAlwaysBeforeStop`** (`DrainBeforeStop`), for any settings, calls, boots and answers of the
leader: a worker that stops its engine has said goodbye and drained its server, runs no call, and cut a
call only when the drain bound had passed, unless its listener failed while it served. `DrainInv` adds why this stays so: a loop that is over has no
answer left to hear, and a server that waits or is over has no call running, because it stopped taking calls
before it waited for them.

**`RouterProofs!CountsAlwaysOpenCalls`** (`CountsOpenCalls`), for a finite set of requests: whatever answers,
failures, retries, hedged legs, hand-offs and departures of callers, each in-flight count, of a target and of
a target and model, is the number of calls open there; after a removal has wiped the counts under open calls
it is at most that. `CountInv` adds the shape of the requests' records (`ReqsInv`: a request that is not hedged
has no legs). The counting itself is in four lemmas about a step of one request, `StepSame`, `StepUp`,
`StepDown` and `StepMove`, from which each action follows by showing which calls it opens and closes.

**`FailoverProofs!RouterKeepsPromise`**: every behaviour of the router is one of `Failover`, safety part: a
request asks one target at a time, none again that gave it nothing, goes along its alternatives only
forwards, and ends served by the target it asked, or failed. **`NobodyPassedOver`** (`NoWorkerPassedOver`): a request
is not told that no worker is left, nor sent to the leader's own engine, for a model placed on a worker that
took requests ever since the request began. Both assume `Configured`, what the store, the catalogue and the
callers' requests are made of; its one substantial part is that a model is sharded or placed on single
workers, not both, which is what `pick` relies on when it answers for a sharded model without a look at
placements. `Enough` says that `Alternatives` bounds the lengths of the chains. `MCRouter` assumes `Configured` of each
of its five fleets, so TLC evaluates it. The invariant `WalkInv` says where a request has a target and where it
has none, that its chain consists of models and is short until a failure has named its class, and that what
it skipped is never the leader's own engine. Each action is shown to keep it and to be a step of `Failover` or a
stutter (`Goes`). `SteadyInv` adds that a worker that took requests all along has not been skipped; the reason
is that a request skips a worker only by putting it into the penalty box (the last line of `Goes`).

## 6. What is only model-checked

- Everything temporal (`EventuallyOver`, `ThreadsSettle`, `StopsEnd`, `RecordSettles`, `EveryWaitEnds`,
  `GangsSettle`, and that every request of the router ends): fairness and `ENABLED` are beyond the prover.
- What is defined by recursion or by folds over data, since it would take induction over the data: the
  queues of `SlotGate` (pushes and pops by iteration over a ring), the evictions of `Lifecycle`, the
  deduplication of `Accounting`, the pages of `EventFeed`, the operators of `PlacementIsRight` and
  `FiguresAreRight`, the readers of `LaunchLine`, the conversions of `AnthropicTurns` and `StreamPath`.
- The invariants of the other components. TLC checks them on the instances of section 3; they involve several
  processes over files or rows (`WeightCache`, `Gangs`, `WorkerEngine`, `PrefixIndex`), and no inductive
  strengthening of them has been worked out.

## 7. Where the code and its comments disagree

Four disagreements are kept as runs that TLC refutes, and are described in `PROJECT.json`: `DoorKeepsWorkers`
(the rebuild window is shorter than the workers' back-off), `PinnedIsRight` (a sweep between the hashing of a
partial and its opening), `IndexIsTrue` (a report's removals are applied before its additions) and
`OneChildPerId` (a Start during a restart back-off).

The following are stated as properties in their modules, and TLC refutes each on the instance given. Constants
that are not named are those of the passing run that has the module; the specification is `Spec` unless said
otherwise.

| property | instance | what happens | the comment |
|---|---|---|---|
| `SlotGate!ZeroBudgetNeverWaits` | three requests on two workers | `admit` tests `servable()` on a view read before the lock: a request with no hold budget queues in a pool nothing can serve | `admission.go:289`: "a budget of 0 never waits for a worker" |
| `SlotGate!EveryWaitEnds` | `FairSpec`, two requests, one worker, two policies | a waiter's deadline comes from the policy at arrival and the shedding from the one in force: neither covers it | `ARCHITECTURE.md:1738`: "`holdMs` bounds every wait" |
| `CapacityView!NoLostWakeup` | as in `MCRequests.cfg` | a request that computes its view while a change is announced queues on the old view, and the announcer saw nobody waiting | `admission.go:534`: "re-reads the pools that have requests waiting, granting what the change freed" |
| `ModelMove!ResidentSomewhere` | two nodes, one move, no request, `Patient = FALSE` | a move takes the row of a copy that an aborted move has just unloaded for a serving one | `ARCHITECTURE.md:939`: "the source keeps serving until the target is proven ready" |
| `ModelMove!AbortLeavesSource` | two nodes, two moves, `Patient = FALSE` | a move admitted before another claimed runs on what it read then | `move.go:153`: "the source was never touched" |
| `ModelMove!LiftedServes` | two nodes, one move, one restart of the leader | a leader that restarts after the unload puts an empty source back | `server.go:277`: "The model was never unloaded, so it is simply serving again" |
| `ModelMove!PutBackServes` | two nodes, one move, one lost answer | an unload whose answer was lost puts the source back without the model | `move.go:213`: "two workers serving is a state that is true and harmless" |
| `ModelMove!DrainCompletes` | two nodes, one move, one request, `Patient = FALSE` | a request picked before the flip and counted after it is cut | `move.go:200`: "what is in flight on (source, model) runs to completion" |
| `ModelMove!ServiceStays` | two nodes, two moves, no request, no faults | two moves admitted on the same rows: the load of the second restarts the target that the first has just filled | `ARCHITECTURE.md:939`, as above |
| `ModelMove!ServiceStays` | two nodes, one move, no request, no faults, `Patient = FALSE` | the next move is admitted on rows older than what the last one did | `ARCHITECTURE.md:939`, as above |
| `NodeRegistry!DrainSurvives` | `Happens = {"drain"}`, `MaxBoots = 1`, `MaxOps = 1` | a drain that lands between a registration's read of the row and its upsert is written over | `nodeservice.go:423`: "The state survives heartbeats and a re-register" |
| `NodeRegistry!OwedCheckMade` | `FairSpec`, `Happens = {"form", "remove", "unlisted"}`, `MaxOps = 1` | `forgetNode` drops a check still owed | `nodeservice.go:483`: "forgetting cannot lose anything" |
| `NodeRegistry!Settled`, in the end | `FairSpec`, `Happens = {"form", "undeleted"}`, `MaxOps = 0` | a gang whose rows could not be deleted is skipped and nothing tries again | `nodeservice.go:200`: "every shard group with a part on it" |
| `NodeRegistry!LiveGangKept` | `Happens = {"form"}`, `MaxOps = 0` | the clean-up lists the node's gangs when it runs and removes new ones too | `nodeservice.go:202`: "the part's process died with the old incarnation" |
| `NodeRegistry!GoodbyeStands` | `Happens = {"goodbye"}`, `MaxOps = 0` | a heartbeat still in its handler puts the engine back to running | `loop.go:233`: "out of rotation NOW" |
| `Supervisor!RecordKept` | as in `MCGangs.cfg` | Start and Stop delete by id a record filed since | `supervisor.go:208`: "the record is KEPT so a poller can read it" |
| `Supervisor!StoppedIsFinal` | as in `MCGangs.cfg` | between the exit and the mark of a restart to come a heartbeat reads "stopped" | `loop.go:501`: "stopped means it will not come back" |
| `Batch!AtMostOnce` | `Faults = {"kill", "shortMark"}` | `markSent` fails half way (a full disk), the run goes on, and the next mark is appended to the part: after a kill no scan reads it and its line is sent again | `batch.go:579`: "a kill at any later instant leaves the line marked as possibly sent, and it is never sent again" |
| `Batch!AbortIsNamed` | `Faults = {"stop"}` | an abort that comes while the answer is read is written as `request_failed`, and does not make the batch a cancelled one | `batch.go:566`: "not a transport failure" |
| `Gangs!BareCreateExcludes` | a create of the whole model beside one of `g0` | the create of the whole model claims "g0" only | `sharding.go:86`: "a bare create excludes every create of the model, and is excluded by any" |
| `Gangs!FormedAlwaysStays` | scenario `same` | the check of the row and the stop are two calls: the gang formed between them loses its part | `gangs.go:98`: "formed again under the same id while this teardown runs is not touched" |
| `Gangs!CoordinatorStays` | scenario `hosted` | the stop of a coordinator on the leader is made without the checks | `gangs.go:161`: "Each stop reaches only the incarnation the caller READ" |
| `WorkerEngine!RecordIsTheProcess` | scenario `engine` | overlapping loads and unloads leave `launched` naming another model than the process serves | `unload.go:68`: "launchedEngine is the engine process this worker started for a model" |
| `Lifecycle!RestoreKeepsPriority` | two models, loads with swap of priorities 0 and 1, none pinned, `MaxCalls = 4`, a restart of the leader | Restore loads by priority with Swap, so a lower-priority model evicts a higher one | `manager.go:555`: "in priority order", "so reboots come back with the same models resident" |
| `WeightCache!AlwaysOneFetcher` | scenario `pulls`: a lock older than `LockWait` | a waiter replaces the lock of a pull that still runs, and both write the partial | `fetch.go:288`: only a lock "written without a flock (an older opod)" is replaced for its age |
| `WeightCache!AlwaysOneFetcher` | scenario `three`: three pulls of known size, one kill | two waiters that take over a dead holder's lock both hold it | `lockfile.go:21`: "a waiter that can take it knows the holder is gone — exactly, not by age" |
| `WeightCache!DigestRefusalIsTrue` | two pulls, one kill | after a kill with a partial of full length the next pinned pull reports a digest mismatch that is none | `fetch.go:355`: "with a digest a bad partial is CAUGHT"; here a good one is |
| `PrefixIndex!IndexIsTrueApart` | `maxKnown = 2`, `MaxEvents = 5`, `MaxLosses = 2` | the tracker's order keeps the names of removed blocks, so its cap forgets blocks too early | `prefixindex.go:13-18`: "one that is wrong routes worse than none" |
| `SelfUpdate!TargetIsWhole` | two updaters | two updates at once share the file ".opod.new" | `update.go:64`: "A binary that cannot be verified is never installed" |
| `LeaderProcess!LeaderTakesOver` | `Overlap = "any"` | a second `opod up` overwrites the PID file and lifts the live drains of the running leader before it finds the address taken, and leaves without removing the file | `server.go:273`: "A placement drain belongs to the leader process that started it" |
| `LeaderProcess!FileIsItsOwners` | scenario `leader` | a process still leaving, or an `opod down` that read an earlier number, removes the PID file of the next leader | `common.go:371`: `removePID` does not look at whose file it is |
| `LeaderProcess!EngineHasItsProcess` | scenario `keys` | a process that ends without `StopAll` leaves its engine until the kernel ends it, and for good without the parent-death signal | `supervisor_linux.go:13`: "the last line of defence" |

Further disagreements and surprises, met while modelling. The modules do what the code does here, and the
properties are stated so that they hold.

Router (`router/`):
- `pick` can cache a connection to a worker's *old* address when a registration comes between its read of the
  row and its dial (`pick.go:484`).
- With `NumRetries > 0` a refusal that is followed by an unreachable retry is replayed on another worker;
  `nextworker.go` says "An answer from an engine, a refusal included, is never replayed elsewhere".
- A request gives up with "no worker left" although an untried worker is only cooling down
  (`nextworker.go:107`), and a client that leaves before the headers counts against the worker.
- After `InvalidateNode` during an open call the count of a worker that comes back is too low.

Gangs (`scheduler/`, `leader/planheal.go`):
- `RemoveSharded` deletes the rows of a gang formed meanwhile; removals during a create leave a partial gang that
  is reported ready; `RemoveShardsOn` lists before it cancels.
- The creation times that tell two formations apart are whole seconds.
- The healer keeps the absence clock of a gang that left the plan, and may tear down a gang that was formed
  by hand between its read and its create.

Answers and errors (`api/`, `engines/`, `agent/`):
- A stream that ends without an error and without a finish is passed on as finished, with usage "ok"
  (`StreamPath` with `SilentEnd = TRUE`; `openai.go:540-543`).
- Streamed tool calls with reason "stop" keep it; the same answer gathered says "tool_calls".
- An engine's 400 to an embedding becomes 502, unlike chat; through a worker a 404 or 429 becomes 502 while that
  of the leader's own engine passes; an unreachable engine behind a rerank is 502 instead of 503.
- An Anthropic user turn with an empty block list vanishes; arguments that are no object come back wrapped.
- A namespace of the response cache that contains "/" is never removed by its name with sqlite (`cache.go:31`);
  a request that missed before a flush stores its older answer after it.

Usage (`gateway/push.go:118`): `Flush` removes as many rows as it sent even if `Add` trimmed the queue meanwhile, so
rows that were not sent vanish uncounted; "Rows are removed only once the leader has taken them". The
deduplication window is shared by all doors.

Worker (`agent/`):
- A listener that fails while it serves ends the server without a drain (`server.go:172`), and the engine is then
  stopped under its calls; `cmd_join.go:353` says that "the engine stops only after both".
- A replacing load keeps the adapters it held, so that a later unload of the old id answers 409 (`unload.go:19`:
  idempotent).
- `LaunchSlots` and its like read the extra arguments before the filter on tokens; an extra `--n-gpu-layers` is
  overridden by the 999 appended after it; a fitted `--max-model-len` overrides a given one.
- Drivers keep slots, context and pool of an engine that can be relaunched on another line (`load.go`: "an engine
  fixes it at start — so a driver may read it once and keep it").
- A heartbeat abandoned in flight at the stop can be taken after the goodbye (`WorkerProcess!LateTaken`).
- Two models whose files share a base name overwrite one another on a worker (`WeightShip`).

Leader:
- A placement still ready with a freshly "stopped" engine gives a refusal without a cause, and readiness says
  ready (`ServingView`).
- `forward` of the cell door reads the automatic and the named routes separately: an alias that changes kind
  between the reads is answered 404 although both files route it (`doorrole.go:208`: "swaps it in whole, or not
  at all"). A listing begun under old routes is cached after the new ones cleared the cache.
- `mirror.go:152` says of a rebuilding list that it "adds and removes nothing"; a fresh door adds from it.
- The auth file's time is noted before its content is applied, so a failure of the store is not tried again
  until the file changes; a hash moved to another id in one snapshot fails on the unique index.
- An edit of a token whose only field is `"expires_at": null` is refused (`tokens.go:101`: "null for never"); a
  moment at or before the epoch reads back as no expiry.
- `planAllowsModel` reads the plan twice and can let through a model that neither plan allows; while a policy is
  applied, readers see settings of two; a file replaced within one tick of its clock is not read again.
- `die()` skips everything deferred, so a shutdown past 30 s leaves the PID file; `opod down` unloads models after
  10 s while the leader may still be answering; a door process returns as soon as its shutdown begins.
- A caller of the lifecycle manager that leaves during a drain leaves the placement "draining";
  `FreeBytes` clamps at zero, so a node over its budget can take another load.

Files (`fetch/`, `update/`): a kill between the rename and the marker leaves the old digest in it; a prune looks at
recency only when it lists; a block rewritten between listing and removal is removed all the same (a miss).

## 8. What is left out

Inside the modelled parts: gauges, logs and wordings; which key owns a node; workers from before boot ids;
sleeping engines in the registry; the `Adapt` hook and the log ring of the supervisor; the download of a batch's
input, and two batch runs on one directory; the commands of a gang's parts; hardware probes; the hub protocol;
hashing, HMAC and certificates; sums and averages of load samples; Vertex and gRPC, whose wire formats are
conversions of the same calls. Not modelled at all: the store's schema and migrations, the reading of the
configuration, the one-shot calls to a control plane, metrics and tracing. Every part is listed in
`PROJECT.json` with its reason.
