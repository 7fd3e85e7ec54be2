---------------------------- MODULE WorkerEngine ----------------------------
(***************************************************************************)
(* A worker that launches its engine itself (agent/server.go LoadModel,    *)
(* launchers.go, unload.go, adapters.go, selfload.go): one engine process  *)
(* under one supervisor id, the record of what was launched, the adapters  *)
(* the engine holds, and the goroutine that loads the configured adapters  *)
(* once the engine is up.  Calls come from the leader, from the worker's   *)
(* own start, and overlap: nothing serialises them.                        *)
(***************************************************************************)
EXTENDS Integers, FiniteSets, FiniteSetsExt

CONSTANTS
  Models, Callers,
  Adapters,      \* the configured adapters: OPOD_ADAPTERS
  Offered,       \* adapters an operator may load by call
  Rank,          \* Rank[a]: an adapter's rank
  ExtraRank,     \* the rank that the operator's own flags give the engine; 0 when they name no LoRA
  Sharded,       \* models of which a part runs here, in processes of their own
  SelfModel,     \* the model this worker loads at its start, or None
  selfLoadAttempts,
  MaxCalls,      \* bound: calls
  MaxCrashes     \* bound: exits of the engine process

None == "none"
Self == "self"    \* the worker's own load, among the callers

VARIABLES
  proc,       \* the process under the launcher's id, or NoProc
  launched,   \* Server.launched: the model and the launch, or NoLaunch
  lora,       \* Server.loraLaunched: slots and rank, or NoLora
  gen,        \* Server.launchGen
  held,       \* adapterState.held: pairs <<base, adapter>>
  alias,      \* Aliases: engine name -> id, for the models and the adapters
  call,       \* the calls under way
  loader,     \* loadAdaptersWhenReady: the running ones
  tries,      \* attemptLoad: attempts the worker's own load has left
  calls, crashes,
  mixed       \* history: two calls overlapped or one named another base than the engine's, an exit
              \* took the adapters, or a load replaced a model that held some

vars == <<proc, launched, lora, gen, held, alias, call, loader, tries, calls, crashes, mixed>>

NoProc   == [m |-> None, n |-> 0, up |-> FALSE, loras |-> {}]
NoLaunch == [m |-> None, n |-> 0]
NoLora   == [slots |-> FALSE, maxRank |-> -1]
Rest     == [kind |-> "rest"]

AllAdapters == Adapters \cup Offered
Configured == Adapters # {}

Init ==
  /\ proc = NoProc /\ launched = NoLaunch /\ lora = NoLora /\ gen = 0 /\ held = {}
  /\ alias = [x \in Models \cup AllAdapters |-> None]
  /\ call = [c \in Callers |-> Rest]
  /\ loader = {} /\ tries = (IF SelfModel = None THEN 0 ELSE selfLoadAttempts) /\ calls = 0 /\ crashes = 0 /\ mixed = FALSE

vllmDefaultLoRARank == 16

\* vLLM takes a rank of its own list only.
LoRARankFor(r) ==
  IF r <= vllmDefaultLoRARank THEN 0
  ELSE LET fits == {k \in {32, 64, 128, 256} : r <= k} IN IF fits = {} THEN 256 ELSE Min(fits)

MaxAdapterRank(as) == IF as = {} THEN 0 ELSE Max({Rank[a] : a \in as} \cup {0})

\* Only the engine knows the size of slots that the operator's flags made.
NoteLoRALaunch ==
  LET r == LoRARankFor(MaxAdapterRank(Adapters))
  IN  IF ExtraRank > 0 THEN NoLora
      ELSE [slots |-> Configured, maxRank |-> IF r = 0 THEN vllmDefaultLoRARank ELSE r]

LoraFits(a) == lora = NoLora \/ (lora.slots /\ Rank[a] <= lora.maxRank)

Others(c) == \E d \in Callers \ {c} : call[d] # Rest
Begins(c) == call[c] = Rest /\ calls < MaxCalls /\ calls' = calls + 1
Busy == \E l \in loader : l.phase = "posted"

Returns(c) == call' = [call EXCEPT ![c] = Rest]

---------------------------------------------------------------------------
(* LoadModel and the launchers.                                            *)

\* The name is noted first; a pull that fails leaves it noted.
LoadBegin(c, m) ==
  /\ alias' = [alias EXCEPT ![m] = m]
  /\ \/ call' = [call EXCEPT ![c] = [kind |-> "load", m |-> m, phase |-> "prepare"]]
     \/ UNCHANGED call
  /\ mixed' = (mixed \/ Others(c) \/ Busy \/ \E h \in held : h[1] # m)
  /\ UNCHANGED <<proc, launched, lora, gen, held, loader, crashes>>

ModelLoad(c, m) == c # Self /\ Begins(c) /\ LoadBegin(c, m) /\ UNCHANGED tries

\* The command line: a revision that is no revision, a device llama-server does not
\* reach, a fetch or an options file that fails end the load before it touches
\* the running engine.
LaunchPrepare(c) ==
  /\ call[c].kind = "load" /\ call[c].phase = "prepare"
  /\ Returns(c) \/ call' = [call EXCEPT ![c].phase = "stop"]
  /\ UNCHANGED <<proc, launched, lora, gen, held, alias, loader, tries, calls, crashes, mixed>>

\* Exclusive: one model per worker.
LaunchStop(c) ==
  /\ call[c].kind = "load" /\ call[c].phase = "stop"
  /\ proc' = NoProc
  /\ call' = [call EXCEPT ![c].phase = "start"]
  /\ mixed' = (mixed \/ held # {})
  /\ UNCHANGED <<launched, lora, gen, held, alias, loader, calls, crashes, tries>>

\* Supervisor.Start: an id that is running is refused.
LaunchStart(c) ==
  /\ call[c].kind = "load" /\ call[c].phase = "start"
  /\ \/ /\ proc = NoProc
        /\ proc' = [m |-> call[c].m, n |-> calls, up |-> FALSE, loras |-> {}]
        /\ lora' = NoteLoRALaunch
        /\ call' = [call EXCEPT ![c].phase = "note"]
     \/ /\ Returns(c)    \* it is, or the launch failed
        /\ UNCHANGED <<proc, lora>>
  /\ UNCHANGED <<launched, gen, held, alias, loader, calls, crashes, mixed, tries>>

\* noteLaunch, and the goroutine for the configured adapters.
LaunchNote(c) ==
  /\ call[c].kind = "load" /\ call[c].phase = "note"
  /\ launched' = [m |-> call[c].m, n |-> calls]
  /\ gen' = IF Configured THEN gen + 1 ELSE gen
  /\ loader' = IF ~Configured THEN loader
               ELSE loader \cup {[base |-> call[c].m, gen |-> gen + 1, pending |-> Adapters, todo |-> {},
                                  phase |-> "poll", a |-> None, n |-> 0]}
  /\ Returns(c)
  /\ tries' = IF c = Self THEN 0 ELSE tries
  /\ UNCHANGED <<proc, lora, held, alias, calls, crashes, mixed>>

\* attemptLoad: the worker's own load, and again when it failed.
SelfLoad ==
  /\ tries > 0 /\ tries' = tries - 1
  /\ Begins(Self) /\ LoadBegin(Self, SelfModel)

---------------------------------------------------------------------------
(* modelUnload of a launched engine.                                       *)

\* Refused for a model of which a part runs here, and while the model holds
\* adapters; no launch, or another model's: a no-op.
UnloadBegin(c, m) ==
  /\ c # Self /\ Begins(c)
  /\ m \notin Sharded
  /\ ~\E h \in held : h[1] = m
  /\ launched.m = m
  /\ call' = [call EXCEPT ![c] = [kind |-> "unload", m |-> m, phase |-> "stop", l |-> launched]]
  /\ mixed' = (mixed \/ Others(c) \/ Busy)
  /\ UNCHANGED <<proc, launched, lora, gen, held, alias, loader, crashes, tries>>

UnloadStop(c) ==
  /\ call[c].kind = "unload" /\ call[c].phase = "stop"
  /\ proc' = NoProc
  /\ call' = [call EXCEPT ![c].phase = "clear"]
  /\ mixed' = (mixed \/ Busy)
  /\ UNCHANGED <<launched, lora, gen, held, alias, loader, calls, crashes, tries>>

\* CompareAndSwap, then everything that was the launch's.
UnloadClear(c) ==
  /\ call[c].kind = "unload" /\ call[c].phase = "clear"
  /\ launched' = IF launched = call[c].l THEN NoLaunch ELSE launched
  /\ gen' = gen + 1
  /\ alias' = [x \in DOMAIN alias |-> IF x = call[c].m \/ <<call[c].m, x>> \in held THEN None ELSE alias[x]]
  /\ held' = {h \in held : h[1] # call[c].m}
  /\ lora' = NoLora
  /\ Returns(c)
  /\ UNCHANGED <<proc, loader, calls, crashes, mixed, tries>>

---------------------------------------------------------------------------
(* Adapters.                                                               *)

\* The rank the engine was launched for: of a flag given twice the later one
\* holds, and the worker's come after the operator's.
EngineRank ==
  LET r == LoRARankFor(MaxAdapterRank(Adapters))
  IN  IF r > 0 THEN r ELSE IF ExtraRank > 0 THEN ExtraRank ELSE vllmDefaultLoRARank

\* The engine's answer to load_lora_adapter, a route it has when adapters are
\* configured: it knows names, no bases.
Takes(a) == proc.up /\ Configured /\ Rank[a] <= EngineRank

AdaptersLoad(c, m, a) ==
  /\ c # Self /\ Begins(c) /\ LoraFits(a) /\ Takes(a)
  /\ proc' = [proc EXCEPT !.loras = @ \cup {a}]
  /\ call' = [call EXCEPT ![c] = [kind |-> "adapter", m |-> m, a |-> a]]
  /\ mixed' = (mixed \/ Others(c) \/ proc.m # m)
  /\ UNCHANGED <<launched, lora, gen, held, alias, loader, crashes, tries>>

Record(base, a) ==
  /\ alias' = [alias EXCEPT ![a] = base]
  /\ held' = held \cup {<<base, a>>}

AdapterRecord(c) ==
  /\ call[c].kind = "adapter"
  /\ Record(call[c].m, call[c].a)
  /\ Returns(c)
  /\ UNCHANGED <<proc, launched, lora, gen, loader, calls, crashes, mixed, tries>>

\* The engine forgets the adapter first, then the worker does.
AdaptersUnload(c, m, a) ==
  /\ c # Self /\ Begins(c) /\ proc.up /\ a \in proc.loras
  /\ proc' = [proc EXCEPT !.loras = @ \ {a}]
  /\ call' = [call EXCEPT ![c] = [kind |-> "forget", m |-> m, a |-> a]]
  /\ mixed' = (mixed \/ Others(c) \/ Busy \/ proc.m # m)
  /\ UNCHANGED <<launched, lora, gen, held, alias, loader, crashes, tries>>

AdapterForget(c) ==
  /\ call[c].kind = "forget"
  /\ alias' = [alias EXCEPT ![call[c].a] = None]
  /\ held' = held \ {<<call[c].m, call[c].a>>}
  /\ Returns(c)
  /\ UNCHANGED <<proc, launched, lora, gen, loader, calls, crashes, mixed, tries>>

---------------------------------------------------------------------------
(* loadAdaptersWhenReady.                                                  *)

Becomes(l, k) == loader' = (loader \ {l}) \cup {k}

\* The model is listed under its id or its alias; a new launch ends the loop, and
\* so does the deadline.
LoaderPoll(l) ==
  /\ l.phase = "poll"
  /\ \/ /\ gen = l.gen /\ proc.up /\ proc.m = l.base
        /\ Becomes(l, [l EXCEPT !.phase = "load", !.todo = l.pending, !.pending = {}])
     \/ /\ gen # l.gen
        /\ loader' = loader \ {l}
  /\ UNCHANGED <<proc, launched, lora, gen, held, alias, call, calls, crashes, mixed, tries>>

\* Mutant: only the first look asks for the generation.
LoaderPostBlindly(l) ==
  /\ l.phase = "load" /\ l.todo # {}
  /\ \E a \in l.todo :
       /\ LoraFits(a) /\ Takes(a)
       /\ proc' = [proc EXCEPT !.loras = @ \cup {a}]
       /\ Becomes(l, [l EXCEPT !.phase = "posted", !.a = a, !.todo = @ \ {a}])
       /\ mixed' = (mixed \/ \E c \in Callers : call[c] # Rest)
  /\ UNCHANGED <<launched, lora, gen, held, alias, call, calls, crashes, tries>>

\* The generation is asked again before each adapter.
LoaderPost(l) ==
  /\ l.phase = "load" /\ l.todo # {}
  /\ \E a \in l.todo :
       IF gen # l.gen THEN loader' = loader \ {l} /\ UNCHANGED <<proc, mixed>>
       ELSE \/ /\ LoraFits(a) /\ Takes(a)
               /\ proc' = [proc EXCEPT !.loras = @ \cup {a}]
               /\ Becomes(l, [l EXCEPT !.phase = "posted", !.a = a, !.todo = @ \ {a}])
               /\ mixed' = (mixed \/ \E c \in Callers : call[c] # Rest)
            \/ /\ Becomes(l, [l EXCEPT !.pending = @ \cup {a}, !.todo = @ \ {a}])
               /\ UNCHANGED <<proc, mixed>>
  /\ UNCHANGED <<launched, lora, gen, held, alias, call, calls, crashes, tries>>

LoaderRecord(l) ==
  /\ l.phase = "posted"
  /\ Record(l.base, l.a)
  /\ Becomes(l, [l EXCEPT !.phase = "load", !.a = None])
  /\ UNCHANGED <<proc, launched, lora, gen, call, calls, crashes, mixed, tries>>

\* What failed is tried again after a pause.
LoaderNext(l) ==
  /\ l.phase = "load" /\ l.todo = {}
  /\ IF l.pending = {} THEN loader' = loader \ {l} ELSE Becomes(l, [l EXCEPT !.phase = "poll"])
  /\ UNCHANGED <<proc, launched, lora, gen, held, alias, call, calls, crashes, mixed, tries>>

---------------------------------------------------------------------------
(* The engine process (external).                                          *)

EngineUp ==
  /\ proc # NoProc /\ ~proc.up
  /\ proc' = [proc EXCEPT !.up = TRUE]
  /\ UNCHANGED <<launched, lora, gen, held, alias, call, loader, tries, calls, crashes, mixed>>

\* It exits; the supervisor starts it again, without its adapters.
EngineExits ==
  /\ proc # NoProc /\ crashes < MaxCrashes
  /\ proc' = [proc EXCEPT !.up = FALSE, !.loras = {}]
  /\ crashes' = crashes + 1 /\ mixed' = (mixed \/ proc.loras # {})
  /\ UNCHANGED <<launched, lora, gen, held, alias, call, loader, tries, calls>>

CallNext(c) ==
  \/ \E m \in Models : ModelLoad(c, m) \/ UnloadBegin(c, m)
  \/ \E m \in Models, a \in AllAdapters : AdaptersLoad(c, m, a) \/ AdaptersUnload(c, m, a)

CallStep(c) == LaunchPrepare(c) \/ LaunchStop(c) \/ LaunchStart(c) \/ LaunchNote(c) \/ UnloadStop(c) \/ UnloadClear(c) \/ AdapterRecord(c) \/ AdapterForget(c)
LoaderStep == \E l \in loader : LoaderPoll(l) \/ LoaderPost(l) \/ LoaderRecord(l) \/ LoaderNext(l)

Next == SelfLoad \/ (\E c \in Callers : CallNext(c) \/ CallStep(c)) \/ LoaderStep \/ EngineUp \/ EngineExits

Spec == Init /\ [][Next]_vars

---------------------------------------------------------------------------
(* Properties.                                                             *)

Quiet == \A c \in Callers : call[c] = Rest

\* Between calls that did not overlap, what the worker says of itself is what
\* runs: the launch on record is the process's model, the names and the adapters
\* on record are the process's, and a loader of an older launch has loaded
\* nothing into it (LoadModel, unloadLaunched, loadAdaptersWhenReady).
ServesWhatItSays ==
  Quiet /\ ~mixed /\ ~Busy =>
    /\ proc # NoProc => launched.m = proc.m
    /\ held = {<<proc.m, a>> : a \in proc.loras}
    /\ \A a \in AllAdapters : alias[a] = IF a \in proc.loras THEN proc.m ELSE None
    /\ proc = NoProc => lora = NoLora \/ launched # NoLaunch

\* Not so once launches and unloads have overlapped: "launchedEngine is the
\* engine process this worker started for a model" (unload.go).
RecordIsTheProcess == Quiet /\ proc # NoProc => launched.m = proc.m
=============================================================================
