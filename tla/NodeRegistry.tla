---------------------------- MODULE NodeRegistry ----------------------------
(***************************************************************************)
(* One node id in the leader (leader/nodeservice.go, store/nodes.go) and   *)
(* the worker processes that act as it one after another                   *)
(* (agent/loop.go).                                                        *)
(*                                                                         *)
(* The node's row, its placements, its gang parts and what the leader      *)
(* holds in memory are written one after another by handlers that share no *)
(* lock: calls of one worker process overlap with those of the next, with  *)
(* an operator's drain and removal and with the leader's own clean-up.     *)
(* A boot id names the process; 0 is none.  Left out: the key that owns    *)
(* the node, workers from before boot ids, sleeping engines, load samples. *)
(***************************************************************************)
EXTENDS Naturals, FiniteSets, TLAPS

CONSTANTS Calls,      \* handlers that may run at the same time
          MaxBoots,   \* bound on the worker processes
          MaxTasks,   \* bound on the clean-ups of a kind that wait to run
          Happens,    \* which of the events of Events an instance has
          MaxOps      \* bound on what operators do to the node

ASSUME BoundAssumption == MaxBoots \in Nat \ {0} /\ MaxTasks \in Nat \ {0} /\ MaxOps \in Nat

Events == {"drain", "undrain", "remove",   \* an operator's commands
           "form",      \* gangs with a part on the worker
           "goodbye",   \* the worker process ends in good order
           "null",      \* the engine does not answer a heartbeat's question
           "unlisted",  \* the store does not list the gangs of a clean-up
           "undeleted"} \* the store does not delete the rows of a gang
ASSUME EventAssumption == Happens \subseteq Events

Boots == 1 .. MaxBoots

VARIABLES worker,   \* the worker: its process, whether it runs, what it knows
          row,      \* the node's row
          placed,   \* the process whose report wrote the model's placement
          parts,    \* the processes a gang part is recorded for
          engine,   \* what the leader was last told of the engine process
          recheck,  \* reconcileNodes holds the node
          tasks,    \* the clean-ups that wait to run, of either kind
          call,     \* Calls -> where a handler is and what it has read
          drained,  \* an operator's drain that stands
          ops
vars == <<worker, row, placed, parts, engine, recheck, tasks, call, drained, ops>>

NoRow == [present |-> FALSE, state |-> "ready", boot |-> 0, silent |-> FALSE]
Free == [kind |-> "none", pc |-> "free", boot |-> 0, report |-> "null", read |-> NoRow, down |-> FALSE]

\* On to pc; only whether the engine was silent is still needed of what was read.
Goto(c, pc) == call' = [call EXCEPT ![c].pc = pc, ![c].read = [NoRow EXCEPT !.silent = call[c].read.silent], ![c].down = FALSE]
Done(c) == call' = [call EXCEPT ![c] = Free]
Begin(c, kind, pc, boot, report) ==
    /\ call[c] = Free
    /\ call' = [call EXCEPT ![c] = [kind |-> kind, pc |-> pc, boot |-> boot, report |-> report, read |-> NoRow, down |-> FALSE]]

\* The process that made the call is gone, and the call's context with it: from
\* here on the store may refuse the handler's reads and writes.
Gone(c) == call[c].kind # "remove" /\ (call[c].boot # worker.boot \/ ~worker.up)

\* incarnationNew: the row was written by another process.
Reincarnated(read, boot) == read.present /\ read.boot # boot

-----------------------------------------------------------------------------
(* The worker *)

\* The process starts again: a new boot id, nothing loaded, not joined.
Boot ==
    /\ worker.boot < MaxBoots
    /\ worker' = [boot |-> worker.boot + 1, up |-> TRUE, joined |-> FALSE, serves |-> FALSE]
    /\ UNCHANGED <<row, placed, parts, engine, recheck, tasks, call, drained, ops>>

\* Its engine has the model.
ServeModel ==
    /\ worker.up /\ ~worker.serves
    /\ worker' = [worker EXCEPT !.serves = TRUE]
    /\ UNCHANGED <<row, placed, parts, engine, recheck, tasks, call, drained, ops>>

\* Loop begins with a registration and makes another one after a heartbeat
\* that the leader did not know the node of.
SendRegister(c) ==
    /\ worker.up /\ ~worker.joined
    /\ Begin(c, "register", "get", worker.boot, "null")
    /\ worker' = [worker EXCEPT !.joined = TRUE]
    /\ UNCHANGED <<row, placed, parts, engine, recheck, tasks, drained, ops>>

\* A heartbeat says what the engine lists, or that it did not answer.
SendHeartbeat(c) ==
    /\ worker.up /\ worker.joined
    /\ \E report \in ({"null"} \cap Happens) \cup {IF worker.serves THEN "model" ELSE "empty"} : Begin(c, "heartbeat", "get", worker.boot, report)
    /\ UNCHANGED <<worker, row, placed, parts, engine, recheck, tasks, drained, ops>>

\* The process ends: its last heartbeat says the engine stopped.
SendGoodbye(c) ==
    /\ "goodbye" \in Happens /\ worker.up /\ worker.joined
    /\ Begin(c, "goodbye", "get", worker.boot, "empty")
    /\ worker' = [worker EXCEPT !.up = FALSE, !.serves = FALSE]
    /\ UNCHANGED <<row, placed, parts, engine, recheck, tasks, drained, ops>>

-----------------------------------------------------------------------------
(* RegisterNode *)

RegisterGet(c) ==
    /\ call[c].kind = "register" /\ call[c].pc = "get"
    /\ call' = [call EXCEPT ![c].pc = "put", ![c].read = row]
    /\ UNCHANGED <<worker, row, placed, parts, engine, recheck, tasks, drained, ops>>

\* Upsert writes the whole row, with the drain that the row read above had.
RegisterPut(c) ==
    /\ call[c].kind = "register" /\ call[c].pc = "put"
    /\ row' = [present |-> TRUE, boot |-> call[c].boot, silent |-> FALSE,
               state |-> IF call[c].read.present THEN call[c].read.state ELSE "ready"]
    /\ IF Reincarnated(call[c].read, call[c].boot) THEN Goto(c, "clear") ELSE Done(c)
    /\ UNCHANGED <<worker, placed, parts, engine, recheck, tasks, drained, ops>>

\* A task of its own, off the request's path.
Spawn(kind) ==
    /\ tasks[kind] < MaxTasks
    /\ tasks' = [tasks EXCEPT ![kind] = @ + 1]

\* reincarnated: the placements of the previous process go now, unless the store
\* refuses, its gangs by a task that no caller can cancel.  A registration is
\* over then; a heartbeat goes on.
Clear(c) ==
    /\ call[c].pc = "clear"
    /\ placed' = 0 \/ (Gone(c) /\ UNCHANGED placed)
    /\ Spawn("sweep")
    /\ IF call[c].kind = "register" THEN Done(c) ELSE call' = [call EXCEPT ![c].pc = "beat"]
    /\ UNCHANGED <<worker, row, parts, engine, recheck, drained, ops>>

Run(kind) ==
    /\ tasks[kind] > 0
    /\ tasks' = [tasks EXCEPT ![kind] = @ - 1]

\* RemoveShardsOn: every gang with a part on the node goes.  When the gangs
\* cannot be listed, the next heartbeat asks for a check; when the rows of one
\* cannot be deleted, it is skipped and the call still succeeds.
RemoveShardsOn ==
    /\ Run("sweep")
    /\ \/ parts' = {} /\ UNCHANGED recheck
       \/ "unlisted" \in Happens /\ recheck' = TRUE /\ UNCHANGED parts
       \/ "undeleted" \in Happens /\ UNCHANGED <<parts, recheck>>
    /\ UNCHANGED <<worker, row, placed, engine, call, drained, ops>>

\* reconcileShardsOn: the gangs whose part the worker does not run go; or it
\* did not answer, and the next heartbeat asks again; or their rows were not
\* deleted, which is skipped as above.
ReconcileShards ==
    /\ Run("check")
    /\ \/ worker.up /\ parts' = parts \cap {worker.boot} /\ UNCHANGED recheck
       \/ recheck' = TRUE /\ UNCHANGED parts
       \/ "undeleted" \in Happens /\ worker.up /\ UNCHANGED <<parts, recheck>>
    /\ UNCHANGED <<worker, row, placed, engine, call, drained, ops>>

\* A gang is formed with a part on the worker.
FormGang ==
    /\ "form" \in Happens
    /\ worker.up /\ row.present /\ row.state = "ready"
    /\ parts' = parts \cup {worker.boot}
    /\ UNCHANGED <<worker, row, placed, engine, recheck, tasks, call, drained, ops>>

-----------------------------------------------------------------------------
(* HeartbeatNode, of a heartbeat or a goodbye *)

Beating(c) == call[c].kind \in {"heartbeat", "goodbye"}

\* An unknown node is answered so, and a worker that hears it registers.
HeartbeatGet(c) ==
    /\ Beating(c) /\ call[c].pc = "get"
    /\ IF row.present
       THEN call' = [call EXCEPT ![c].pc = "note", ![c].read = row] /\ UNCHANGED worker
       ELSE Done(c) /\ worker' = [worker EXCEPT !.joined = @ /\ call[c].boot # worker.boot]
    /\ UNCHANGED <<row, placed, parts, engine, recheck, tasks, drained, ops>>

\* The engine's state is kept, if the heartbeat says one (a worker without
\* processes does not); an engine that has just gone down asks for a check.
HeartbeatNote(c) ==
    /\ call[c].pc = "note"
    /\ engine' \in IF call[c].kind = "goodbye" THEN {"stopped"} ELSE {"running", engine}
    /\ call' = [call EXCEPT ![c].down = engine' # engine /\ engine' = "stopped",
                            ![c].pc = IF Reincarnated(call[c].read, call[c].boot) THEN "clear" ELSE "beat"]
    /\ UNCHANGED <<worker, row, placed, parts, recheck, tasks, drained, ops>>

\* Mutant: the row read at the start is written back.
HeartbeatBeatWhole(c) ==
    /\ call[c].pc = "beat"
    /\ recheck' = FALSE
    /\ IF recheck \/ call[c].down THEN Spawn("check") ELSE UNCHANGED tasks
    /\ row' = IF row.present THEN [call[c].read EXCEPT !.boot = call[c].boot] ELSE row
    /\ Goto(c, "report")
    /\ UNCHANGED <<worker, placed, parts, engine, drained, ops>>

\* Mutant: the heartbeat is noted, the process it came from is not.
HeartbeatBeatNoBoot(c) ==
    /\ call[c].pc = "beat"
    /\ recheck' = FALSE
    /\ IF recheck \/ call[c].down THEN Spawn("check") ELSE UNCHANGED tasks
    /\ Goto(c, "report")
    /\ UNCHANGED <<worker, row, placed, parts, engine, drained, ops>>

\* A check that was asked for is started, then a targeted write of the boot id;
\* the handler ends if the store refuses it.
HeartbeatBeat(c) ==
    /\ call[c].pc = "beat"
    /\ recheck' = FALSE
    /\ IF recheck \/ call[c].down THEN Spawn("check") ELSE UNCHANGED tasks
    /\ \/ row' = (IF row.present THEN [row EXCEPT !.boot = call[c].boot] ELSE row) /\ Goto(c, "report")
       \/ Gone(c) /\ Done(c) /\ UNCHANGED row
    /\ UNCHANGED <<worker, placed, parts, engine, drained, ops>>

\* NoteEngineReport, when this heartbeat changes what the row read above says;
\* without a report the handler is done.
HeartbeatReport(c) ==
    /\ call[c].pc = "report"
    /\ LET silent == call[c].report = "null" IN
       /\ row' = IF row.present /\ silent # call[c].read.silent THEN [row EXCEPT !.silent = silent] ELSE row
       /\ IF silent THEN Done(c) ELSE Goto(c, "place")
    /\ UNCHANGED <<worker, placed, parts, engine, recheck, tasks, drained, ops>>

\* ReplaceForNode writes placements whether or not the node has a row.
HeartbeatPlace(c) ==
    /\ call[c].pc = "place"
    /\ placed' = IF call[c].report = "model" THEN call[c].boot ELSE 0
    /\ Done(c)
    /\ UNCHANGED <<worker, row, parts, engine, recheck, tasks, drained, ops>>

\* The store refuses the read or write that a handler is at, and the handler has
\* nothing else left to do.
Fail(c) ==
    /\ call[c].pc \in {"get", "put", "report", "place"} /\ Gone(c)
    /\ Done(c)
    /\ UNCHANGED <<worker, row, placed, parts, engine, recheck, tasks, drained, ops>>

-----------------------------------------------------------------------------
(* The operator, and the leader's minute tick *)

Ask(command) == command \in Happens /\ ops < MaxOps /\ ops' = ops + 1

Registering(c) == call[c].kind = "register" /\ call[c].pc = "put"

\* A drain counts as standing if no registration is between its read and its
\* write of the row.
DrainNode ==
    /\ row.present /\ Ask("drain")
    /\ row' = [row EXCEPT !.state = "draining"]
    /\ drained' = \A c \in Calls : ~Registering(c)
    /\ UNCHANGED <<worker, placed, parts, engine, recheck, tasks, call>>

UndrainNode ==
    /\ row.present /\ Ask("undrain")
    /\ row' = [row EXCEPT !.state = "ready"]
    /\ drained' = FALSE
    /\ UNCHANGED <<worker, placed, parts, engine, recheck, tasks, call>>

\* removeNode, for an operator and for forgetDeadNodes: the row, then the
\* placements, then forgetNode.
RemoveNode(c) ==
    /\ Ask("remove")
    /\ Begin(c, "remove", "unplace", 0, "null")
    /\ row' = NoRow
    /\ drained' = FALSE
    /\ UNCHANGED <<worker, placed, parts, engine, recheck, tasks>>

RemovePlacements(c) ==
    /\ call[c].pc = "unplace"
    /\ placed' = 0
    /\ Goto(c, "forget")
    /\ UNCHANGED <<worker, row, parts, engine, recheck, tasks, drained, ops>>

ForgetNode(c) ==
    /\ call[c].pc = "forget"
    /\ engine' = "none"
    /\ recheck' = FALSE
    /\ Done(c)
    /\ UNCHANGED <<worker, row, placed, parts, tasks, drained, ops>>

-----------------------------------------------------------------------------

Init ==
    /\ worker = [boot |-> 1, up |-> TRUE, joined |-> FALSE, serves |-> FALSE]
    /\ row = NoRow
    /\ placed = 0
    /\ parts = {}
    /\ engine = "none"
    /\ recheck = FALSE
    /\ tasks = [sweep |-> 0, check |-> 0]
    /\ call = [c \in Calls |-> Free]
    /\ drained = FALSE
    /\ ops = 0

WorkerStep ==
    \/ Boot
    \/ ServeModel
    \/ \E c \in Calls : SendRegister(c) \/ SendHeartbeat(c) \/ SendGoodbye(c)

HandlerStep(c) ==
    \/ RegisterGet(c)
    \/ RegisterPut(c)
    \/ Clear(c)
    \/ HeartbeatGet(c)
    \/ HeartbeatNote(c)
    \/ HeartbeatBeat(c)
    \/ HeartbeatReport(c)
    \/ HeartbeatPlace(c)
    \/ RemovePlacements(c)
    \/ ForgetNode(c)

TaskStep == RemoveShardsOn \/ ReconcileShards

OperatorStep ==
    \/ DrainNode
    \/ UndrainNode
    \/ FormGang
    \/ \E c \in Calls : RemoveNode(c)

Next ==
    \/ WorkerStep
    \/ \E c \in Calls : HandlerStep(c) \/ Fail(c)
    \/ TaskStep
    \/ OperatorStep

Spec == Init /\ [][Next]_vars

\* The worker's loop makes a call that tells the leader something: it registers,
\* or sends a heartbeat with the engine's report.
Reports == \E c \in Calls : SendRegister(c) \/ (SendHeartbeat(c) /\ call'[c].report # "null")

\* A process-list check that the worker answers.
CheckAnswered == ReconcileShards /\ recheck' = recheck

\* Handlers and tasks go on, the worker sometimes answers a check; its loop
\* comes back to a call that reports.
Fairness ==
    /\ \A c \in Calls : WF_vars(HandlerStep(c))
    /\ WF_vars(TaskStep) /\ SF_vars(CheckAnswered)
    /\ SF_vars(Reports)

FairSpec == Spec /\ Fairness

-----------------------------------------------------------------------------
(* Properties *)

TypeOK ==
    /\ worker \in [boot : Boots, up : BOOLEAN, joined : BOOLEAN, serves : BOOLEAN]
    /\ row \in [present : BOOLEAN, state : {"ready", "draining"}, boot : Boots \cup {0}, silent : BOOLEAN]
    /\ placed \in Boots \cup {0}
    /\ parts \subseteq Boots
    /\ engine \in {"none", "running", "stopped"}
    /\ recheck \in BOOLEAN /\ drained \in BOOLEAN
    /\ tasks \in [sweep : 0 .. MaxTasks, check : 0 .. MaxTasks]
    /\ ops \in 0 .. MaxOps
    /\ \A c \in Calls :
          /\ call[c].kind \in {"none", "register", "heartbeat", "goodbye", "remove"}
          /\ call[c].boot \in Boots \cup {0}

\* A drain that landed between no registration's read and write stands until an
\* undrain or a removal, whatever heartbeats, goodbyes and registrations of
\* old and new worker processes are on their way: Heartbeat and
\* NoteEngineReport are targeted writes, Upsert carries the drain it read.
DrainStands == drained => row.present /\ row.state = "draining"

\* Every drain stands: DrainNode says the state "survives heartbeats and a
\* re-register; UndrainNode is the only way back".
DrainSurvives ==
    [][row.present /\ row.state = "draining" /\ row'.present /\ row'.state = "ready" => call' = call]_vars

\* The leader has the row and the placement of the process that runs, and no
\* part of a gang of a process that is gone.
Settled ==
    worker.up => /\ row.present /\ row.boot = worker.boot
                 /\ placed = IF worker.serves THEN worker.boot ELSE 0
                 /\ parts \subseteq {worker.boot}

\* However calls of the process before it, removals and clean-ups overlap, the
\* leader ends up so.
Converges == <>[]Settled

\* A check the leader owes is made: forgetNode says of what it drops, the owed
\* check included, that it is "a cache of a fact the store held, so forgetting
\* cannot lose anything", and of the node that it "simply repopulates".
OwedCheckMade ==
    recheck /\ worker.up /\ ~(parts \subseteq {worker.boot}) ~> (worker.up => parts \subseteq {worker.boot})

\* reincarnated removes gangs because "the part's process died with the old
\* incarnation": none whose part runs is removed.
LiveGangKept == [][worker.up /\ worker.boot \in parts => worker.boot \in parts']_vars

\* Goodbye takes the worker out of rotation "NOW rather than after the
\* heartbeat bound": nothing the same process sent before puts it back.
GoodbyeStands == [][engine = "stopped" /\ ~worker.up => engine' # "running"]_vars

-----------------------------------------------------------------------------
(* A drain stands, for any number of overlapping handlers and of worker      *)
(* processes.  DrainStands is not inductive: a registration that has read    *)
(* the row may be about to write it.  The strengthening says that while a    *)
(* drain stands, every such registration carries it.                         *)

RowType == [present : BOOLEAN, state : {"ready", "draining"}, boot : Nat, silent : BOOLEAN]
CallType == [kind : {"none", "register", "heartbeat", "goodbye", "remove"},
         pc : {"free", "get", "put", "clear", "note", "beat", "report", "place", "unplace", "forget"},
         boot : Nat, report : {"null", "empty", "model"}, read : RowType, down : BOOLEAN]

RegistryType ==
    /\ row \in RowType
    /\ call \in [Calls -> CallType]
    /\ drained \in BOOLEAN
    /\ worker \in [boot : Nat, up : BOOLEAN, joined : BOOLEAN, serves : BOOLEAN]

CarriesDrain ==
    drained => \A c \in Calls : Registering(c) => call[c].read.present /\ call[c].read.state = "draining"

DrainInv == RegistryType /\ DrainStands /\ CarriesDrain

\* The empty row and the free handler have their types.
LEMMA EmptyTypes == NoRow \in RowType /\ Free \in CallType
  BY DEF NoRow, Free, RowType, CallType

\* A handler's step that leaves the row, the drain and the worker's type alone
\* and does not bring a registration to its write keeps the invariant.
LEMMA HandlerKeeps ==
    ASSUME DrainInv, NEW c \in Calls, NEW r \in CallType,
           call' = [call EXCEPT ![c] = r],
           ~(r.kind = "register" /\ r.pc = "put"),
           worker' \in [boot : Nat, up : BOOLEAN, joined : BOOLEAN, serves : BOOLEAN],
           UNCHANGED drained,
           row' \in RowType, row'.present = row.present, row'.state = row.state
    PROVE  DrainInv'
<1>1. RegistryType'
  BY DEF DrainInv, RegistryType
<1>2. DrainStands'
  BY DEF DrainInv, DrainStands
<1>3. CarriesDrain'
  <2> SUFFICES ASSUME drained', NEW d \in Calls, Registering(d)'
               PROVE  call'[d].read.present /\ call'[d].read.state = "draining"
    BY DEF CarriesDrain
  <2>1. d # c
    BY DEF Registering, DrainInv, RegistryType
  <2>2. call'[d] = call[d]
    BY <2>1 DEF DrainInv, RegistryType
  <2> QED BY <2>2 DEF Registering, DrainInv, CarriesDrain
<1> QED BY <1>1, <1>2, <1>3 DEF DrainInv

\* The same for a handler that moves on or ends.
LEMMA GotoKeeps ==
    ASSUME DrainInv, NEW c \in Calls, NEW pc \in {"clear", "report", "place", "forget"}, Goto(c, pc) \/ Done(c),
           worker' \in [boot : Nat, up : BOOLEAN, joined : BOOLEAN, serves : BOOLEAN],
           UNCHANGED drained,
           row' \in RowType, row'.present = row.present, row'.state = row.state
    PROVE  DrainInv'
<1>1. CASE Done(c)
  <2>1. ~(Free.kind = "register" /\ Free.pc = "put")
    BY DEF Free
  <2> QED BY Zenon, <1>1, <2>1, EmptyTypes, HandlerKeeps DEF Done
<1>2. CASE Goto(c, pc)
  <2> DEFINE r == [call[c] EXCEPT !.pc = pc, !.read = [NoRow EXCEPT !.silent = call[c].read.silent], !.down = FALSE]
  <2>1. call[c] \in CallType
    BY DEF DrainInv, RegistryType
  <2>2. [NoRow EXCEPT !.silent = call[c].read.silent] \in RowType
    BY Zenon, <2>1 DEF NoRow, RowType, CallType
  <2>3. r \in CallType
    BY Zenon, <2>1, <2>2 DEF CallType
  <2>4. r.pc = pc
    BY <2>1 DEF CallType
  <2>5. call' = [call EXCEPT ![c] = r]
    BY Zenon, <1>2 DEF Goto, DrainInv, RegistryType
  <2> HIDE DEF r
  <2> QED BY Zenon, <2>3, <2>4, <2>5, HandlerKeeps
<1> QED BY <1>1, <1>2

\* A handler that begins.
LEMMA BeginKeeps ==
    ASSUME DrainInv, NEW c \in Calls, NEW kind \in {"register", "heartbeat", "goodbye"}, NEW boot \in Nat,
           NEW report \in {"null", "empty", "model"}, Begin(c, kind, "get", boot, report),
           worker' \in [boot : Nat, up : BOOLEAN, joined : BOOLEAN, serves : BOOLEAN],
           UNCHANGED <<row, drained>>
    PROVE  DrainInv'
<1> DEFINE r == [kind |-> kind, pc |-> "get", boot |-> boot, report |-> report, read |-> NoRow, down |-> FALSE]
<1>1. r \in CallType /\ r.pc = "get"
  BY EmptyTypes DEF CallType
<1>2. call' = [call EXCEPT ![c] = r]
  BY DEF Begin
<1>3. row' \in RowType /\ row' = row
  BY DEF DrainInv, RegistryType
<1> HIDE DEF r
<1> QED BY Zenon, <1>1, <1>2, <1>3, HandlerKeeps

\* A handler of which only the step it is at and whether an engine went down
\* change.
LEMMA StepKeeps ==
    ASSUME DrainInv, NEW c \in Calls, NEW pc \in {"beat", "clear"}, NEW down \in BOOLEAN,
           call' = [call EXCEPT ![c].pc = pc, ![c].down = down],
           UNCHANGED <<worker, row, drained>>
    PROVE  DrainInv'
<1> DEFINE r == [call[c] EXCEPT !.pc = pc, !.down = down]
<1>1. call[c] \in CallType
  BY DEF DrainInv, RegistryType
<1>2. r \in CallType /\ r.pc = pc
  BY Zenon, <1>1 DEF CallType
<1>3. call' = [call EXCEPT ![c] = r]
  BY Zenon DEF DrainInv, RegistryType
<1>4. row' \in RowType /\ row' = row /\ worker' \in [boot : Nat, up : BOOLEAN, joined : BOOLEAN, serves : BOOLEAN]
  BY DEF DrainInv, RegistryType
<1> HIDE DEF r
<1> QED BY Zenon, <1>2, <1>3, <1>4, HandlerKeeps

\* The invariant holds before anything has registered.
LEMMA InitHolds == Init => DrainInv
<1> SUFFICES ASSUME Init PROVE DrainInv
  OBVIOUS
<1>1. RegistryType
  BY Zenon, EmptyTypes DEF Init, RegistryType
<1>2. DrainStands /\ CarriesDrain
  BY DEF Init, DrainStands, CarriesDrain
<1> QED BY <1>1, <1>2 DEF DrainInv

\* The worker's own steps: a call it begins is at its first read.
LEMMA WorkerStepKeeps == DrainInv /\ WorkerStep => DrainInv'
<1> SUFFICES ASSUME DrainInv, WorkerStep PROVE DrainInv'
  OBVIOUS
<1> DEFINE W == [boot : Nat, up : BOOLEAN, joined : BOOLEAN, serves : BOOLEAN]
<1>0. worker \in W
  BY DEF DrainInv, RegistryType
<1>1. CASE Boot \/ ServeModel
  <2>a. Boot => worker' \in W
    BY <1>0 DEF Boot
  <2>b. ServeModel => worker' \in W
    BY Zenon, <1>0 DEF ServeModel
  <2>1. worker' \in W
    BY <1>1, <2>a, <2>b
  <2>2. UNCHANGED <<row, call, drained>>
    BY <1>1 DEF Boot, ServeModel
  <2> QED BY <2>1, <2>2 DEF DrainInv, RegistryType, DrainStands, CarriesDrain, Registering
<1>2. ASSUME NEW c \in Calls, SendRegister(c) PROVE DrainInv'
  <2>1. worker' \in W /\ worker.boot \in Nat
    BY Zenon, <1>0, <1>2 DEF SendRegister
  <2> QED BY Zenon, <1>2, <2>1, BeginKeeps DEF SendRegister
<1>3. ASSUME NEW c \in Calls, SendHeartbeat(c) PROVE DrainInv'
  <2>1. PICK report \in {"null", "empty", "model"} : Begin(c, "heartbeat", "get", worker.boot, report)
    BY <1>3 DEF SendHeartbeat
  <2>2. worker' \in W /\ worker.boot \in Nat
    BY <1>0, <1>3 DEF SendHeartbeat
  <2> QED BY <1>3, <2>1, <2>2, BeginKeeps DEF SendHeartbeat
<1>4. ASSUME NEW c \in Calls, SendGoodbye(c) PROVE DrainInv'
  <2>1. worker' \in W /\ worker.boot \in Nat
    BY Zenon, <1>0, <1>4 DEF SendGoodbye
  <2> QED BY <1>4, <2>1, BeginKeeps DEF SendGoodbye
<1> QED BY <1>1, <1>2, <1>3, <1>4 DEF WorkerStep

\* RegisterNode reads the row: with a drain that stands, it reads the drain.
LEMMA RegisterGetKeeps == ASSUME DrainInv, NEW c \in Calls, RegisterGet(c) PROVE DrainInv'
<1> DEFINE r == [call[c] EXCEPT !.pc = "put", !.read = row]
<1>1. call[c] \in CallType /\ row \in RowType
  BY DEF DrainInv, RegistryType
<1>2. r \in CallType /\ r.read = row
  BY Zenon, <1>1 DEF CallType
<1>3. call' = [call EXCEPT ![c] = r]
  BY Zenon DEF RegisterGet, DrainInv, RegistryType
<1> HIDE DEF r
<1>4. RegistryType'
  BY ZenonT(30), <1>2, <1>3 DEF RegisterGet, DrainInv, RegistryType
<1>5. DrainStands'
  BY DEF RegisterGet, DrainInv, DrainStands
<1>6. CarriesDrain'
  <2> SUFFICES ASSUME drained', NEW d \in Calls, Registering(d)'
               PROVE  call'[d].read.present /\ call'[d].read.state = "draining"
    BY DEF CarriesDrain
  <2>1. drained
    BY DEF RegisterGet
  <2>2. CASE d = c
    BY <1>2, <1>3, <2>1, <2>2 DEF DrainInv, RegistryType, DrainStands
  <2>3. CASE d # c
    <3>1. call'[d] = call[d]
      BY <1>3, <2>3 DEF DrainInv, RegistryType
    <3> QED BY <2>1, <3>1 DEF DrainInv, CarriesDrain, Registering
  <2> QED BY <2>2, <2>3
<1> QED BY <1>4, <1>5, <1>6 DEF DrainInv

\* RegisterNode writes the row, with the drain it carries.
LEMMA RegisterPutKeeps == ASSUME DrainInv, NEW c \in Calls, RegisterPut(c) PROVE DrainInv'
<1>1. call[c] \in CallType
  BY DEF DrainInv, RegistryType
<1>2. row' \in RowType /\ row'.present /\ row'.state = IF call[c].read.present THEN call[c].read.state ELSE "ready"
  BY <1>1 DEF RegisterPut, RowType, CallType
<1>3. drained => row'.state = "draining"
  BY <1>2 DEF RegisterPut, Registering, DrainInv, CarriesDrain
<1>4. PICK r \in CallType : call' = [call EXCEPT ![c] = r] /\ r.pc # "put"
  <2>1. CASE Done(c)
    BY Zenon, <2>1, EmptyTypes DEF Done, Free
  <2>2. CASE Goto(c, "clear")
    <3> DEFINE q == [call[c] EXCEPT !.pc = "clear", !.read = [NoRow EXCEPT !.silent = call[c].read.silent], !.down = FALSE]
    <3>1. [NoRow EXCEPT !.silent = call[c].read.silent] \in RowType
      BY Zenon, <1>1 DEF NoRow, RowType, CallType
    <3>2. q \in CallType /\ q.pc = "clear"
      BY Zenon, <1>1, <3>1 DEF CallType
    <3>3. call' = [call EXCEPT ![c] = q]
      BY Zenon, <2>2 DEF Goto, DrainInv, RegistryType
    <3> HIDE DEF q
    <3> QED BY Zenon, <3>2, <3>3
  <2> QED BY <2>1, <2>2 DEF RegisterPut
<1>5. RegistryType'
  BY <1>2, <1>4 DEF RegisterPut, DrainInv, RegistryType
<1>6. DrainStands'
  BY <1>2, <1>3 DEF RegisterPut, DrainStands
<1>7. CarriesDrain'
  <2> SUFFICES ASSUME drained', NEW d \in Calls, Registering(d)'
               PROVE  call'[d].read.present /\ call'[d].read.state = "draining"
    BY DEF CarriesDrain
  <2>1. drained
    BY DEF RegisterPut
  <2>2. d # c
    BY <1>4 DEF Registering, DrainInv, RegistryType
  <2>3. call'[d] = call[d]
    BY <1>4, <2>2 DEF DrainInv, RegistryType
  <2> QED BY <2>1, <2>3 DEF DrainInv, CarriesDrain, Registering
<1> QED BY <1>5, <1>6, <1>7 DEF DrainInv

\* The other steps of the handlers: the heartbeat's writes are targeted, so none
\* changes the state in the row.
LEMMA HandlerStepKeeps == ASSUME DrainInv, NEW c \in Calls, HandlerStep(c) \/ Fail(c) PROVE DrainInv'
<1> DEFINE W == [boot : Nat, up : BOOLEAN, joined : BOOLEAN, serves : BOOLEAN]
<1>0. worker \in W /\ row \in RowType /\ call[c] \in CallType
  BY DEF DrainInv, RegistryType
<1>1. CASE Clear(c)
  <2>1. CASE call[c].kind = "register"
    BY <1>0, <1>1, <2>1, GotoKeeps DEF Clear
  <2>2. CASE call[c].kind # "register"
    <3>1. call[c].down \in BOOLEAN
      BY <1>0 DEF CallType
    <3>2. call' = [call EXCEPT ![c].pc = "beat", ![c].down = call[c].down]
      BY <1>0, <1>1, <2>2 DEF Clear, CallType, DrainInv, RegistryType
    <3> QED BY Zenon, <1>1, <3>1, <3>2, StepKeeps DEF Clear
  <2> QED BY <2>1, <2>2
<1>2. CASE HeartbeatGet(c)
  <2>1. CASE row.present
    <3> DEFINE r == [call[c] EXCEPT !.pc = "note", !.read = row]
    <3>1. r \in CallType /\ r.pc = "note"
      BY Zenon, <1>0 DEF CallType
    <3>2. call' = [call EXCEPT ![c] = r]
      BY Zenon, <1>2, <2>1 DEF HeartbeatGet, DrainInv, RegistryType
    <3> HIDE DEF r
    <3> QED BY Zenon, <1>0, <1>2, <2>1, <3>1, <3>2, HandlerKeeps DEF HeartbeatGet
  <2>2. CASE ~row.present
    <3>1. worker' \in W
      <4>1. (worker.joined /\ call[c].boot # worker.boot) \in BOOLEAN
        OBVIOUS
      <4>2. worker' = [worker EXCEPT !.joined = worker.joined /\ call[c].boot # worker.boot]
        BY <1>2, <2>2 DEF HeartbeatGet
      <4> QED BY Zenon, <1>0, <4>1, <4>2
    <3> QED BY <1>0, <1>2, <2>2, <3>1, GotoKeeps DEF HeartbeatGet
  <2> QED BY <2>1, <2>2
<1>3. CASE HeartbeatNote(c)
  <2> DEFINE pc == IF Reincarnated(call[c].read, call[c].boot) THEN "clear" ELSE "beat"
             down == engine' # engine /\ engine' = "stopped"
  <2>1. call' = [call EXCEPT ![c].pc = pc, ![c].down = down]
    BY <1>0, <1>3 DEF HeartbeatNote, CallType, DrainInv, RegistryType
  <2>2. pc \in {"beat", "clear"} /\ down \in BOOLEAN
    OBVIOUS
  <2> HIDE DEF pc, down
  <2> QED BY Zenon, <1>3, <2>1, <2>2, StepKeeps DEF HeartbeatNote
<1>4. CASE HeartbeatBeat(c)
  <2>1. call[c].boot \in Nat
    BY <1>0 DEF CallType
  <2>2. row' \in RowType /\ row'.present = row.present /\ row'.state = row.state
    BY <1>0, <1>4, <2>1 DEF HeartbeatBeat, RowType
  <2> QED BY <1>0, <1>4, <2>2, GotoKeeps DEF HeartbeatBeat
<1>5. CASE HeartbeatReport(c)
  <2> DEFINE silent == call[c].report = "null"
  <2>1. row' \in RowType /\ row'.present = row.present /\ row'.state = row.state
    <3>1. silent \in BOOLEAN
      OBVIOUS
    <3>2. row' = [row EXCEPT !.silent = silent] \/ row' = row
      BY <1>5 DEF HeartbeatReport
    <3> HIDE DEF silent
    <3> QED BY <1>0, <3>1, <3>2 DEF RowType
  <2> QED BY <1>0, <1>5, <2>1, GotoKeeps DEF HeartbeatReport
<1>6. CASE HeartbeatPlace(c) \/ ForgetNode(c) \/ Fail(c)
  BY <1>0, <1>6, GotoKeeps DEF HeartbeatPlace, ForgetNode, Fail
<1>7. CASE RemovePlacements(c)
  BY <1>0, <1>7, GotoKeeps DEF RemovePlacements
<1> QED BY <1>1, <1>2, <1>3, <1>4, <1>5, <1>6, <1>7, RegisterGetKeeps, RegisterPutKeeps DEF HandlerStep

\* What operators do: a drain counts when no registration is at its write.
LEMMA OperatorStepKeeps == DrainInv /\ OperatorStep => DrainInv'
<1> SUFFICES ASSUME DrainInv, OperatorStep PROVE DrainInv'
  OBVIOUS
<1>0. row \in RowType
  BY DEF DrainInv, RegistryType
<1>1. CASE DrainNode
  <2>1. row' \in RowType /\ row'.present /\ row'.state = "draining"
    BY <1>0, <1>1 DEF DrainNode, RowType
  <2>2. drained' \in BOOLEAN /\ (drained' => \A c \in Calls : ~Registering(c))
    BY <1>1 DEF DrainNode
  <2>3. UNCHANGED <<worker, call>>
    BY <1>1 DEF DrainNode
  <2>4. RegistryType'
    BY <2>1, <2>2, <2>3 DEF DrainInv, RegistryType
  <2>5. DrainStands'
    BY <2>1 DEF DrainStands
  <2>6. CarriesDrain'
    BY <2>2, <2>3 DEF CarriesDrain, Registering
  <2> QED BY <2>4, <2>5, <2>6 DEF DrainInv
<1>2. CASE UndrainNode
  <2>1. row' \in RowType
    BY <1>0, <1>2 DEF UndrainNode, RowType
  <2>2. drained' = FALSE /\ UNCHANGED <<worker, call>>
    BY <1>2 DEF UndrainNode
  <2> QED BY Zenon, <2>1, <2>2 DEF DrainInv, RegistryType, DrainStands, CarriesDrain
<1>3. CASE FormGang
  <2>1. UNCHANGED <<worker, row, call, drained>>
    BY <1>3 DEF FormGang
  <2> QED BY <2>1 DEF DrainInv, RegistryType, DrainStands, CarriesDrain, Registering
<1>4. ASSUME NEW c \in Calls, RemoveNode(c) PROVE DrainInv'
  <2> DEFINE r == [kind |-> "remove", pc |-> "unplace", boot |-> 0, report |-> "null", read |-> NoRow, down |-> FALSE]
  <2>1. r \in CallType
    BY EmptyTypes DEF CallType
  <2>2. call' = [call EXCEPT ![c] = r] /\ row' \in RowType /\ drained' = FALSE /\ UNCHANGED worker
    BY <1>4, EmptyTypes DEF RemoveNode, Begin
  <2> HIDE DEF r
  <2> QED BY Zenon, <2>1, <2>2 DEF DrainInv, RegistryType, DrainStands, CarriesDrain
<1> QED BY <1>1, <1>2, <1>3, <1>4 DEF OperatorStep

\* A drain that landed between no registration's read and its write stands
\* until an undrain or a removal (DrainNode, RegisterNode, HeartbeatNode),
\* whatever the number of handlers that overlap.
THEOREM DrainAlwaysStands == Spec => []DrainStands
<1>1. DrainInv /\ [Next]_vars => DrainInv'
  <2> SUFFICES ASSUME DrainInv, [Next]_vars PROVE DrainInv'
    OBVIOUS
  <2>1. CASE TaskStep
    <3>1. UNCHANGED <<worker, row, call, drained>>
      BY <2>1 DEF TaskStep, RemoveShardsOn, ReconcileShards
    <3> QED BY <3>1 DEF DrainInv, RegistryType, DrainStands, CarriesDrain, Registering
  <2>2. CASE UNCHANGED vars
    BY <2>2 DEF vars, DrainInv, RegistryType, DrainStands, CarriesDrain, Registering
  <2> QED BY <2>1, <2>2, WorkerStepKeeps, HandlerStepKeeps, OperatorStepKeeps DEF Next
<1>2. DrainInv => DrainStands
  BY DEF DrainInv
<1> QED BY InitHolds, <1>1, <1>2, PTL DEF Spec
=============================================================================
