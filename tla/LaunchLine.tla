------------------------------ MODULE LaunchLine ------------------------------
(***************************************************************************)
(* The launch line a worker writes for its engine from the plan's flags    *)
(* (agent/engineflags.go, agent/launchers.go, the launchers and command    *)
(* lines of agent/server.go, toolparser.go, kvblocks.go, memfraction.go,   *)
(* llamadevices.go), what the worker remembers having launched (its slots, *)
(* the KV layout, whether tools can be served), and the engine that reads  *)
(* the line.  The worker never asks the engine back: what it remembers is  *)
(* worth something only if the engine reads the line the same way.         *)
(*                                                                         *)
(* A token of the line is a record [name, val, clean]: a flag alone (val = *)
(* NoVal), a flag with "=value", or a value alone (name = None).  Names    *)
(* are those of the idea, so that -np, --parallel, --max-num-seqs,         *)
(* --max-running-requests and --max_batch_size are all "slots".  A token   *)
(* is clean when isToken accepts its characters.  NoNumber is a value that *)
(* is not a number.                                                        *)
(***************************************************************************)
EXTENDS Integers, FiniteSets, Sequences, SequencesExt

CONSTANTS
  Plans,       \* the engine flags a plan may carry, with the engine
  Workers,     \* what the worker has: card, adapters, parser, options
  Hints,       \* the lengths an engine that ran out of memory may name
  MaxRefits    \* bound: restarts with a hint

VARIABLES
  plan,     \* Server.EngineFlags, and the engine that is launched
  worker,   \* the rest of the Server
  line,     \* the arguments of the process that is to run
  base,     \* the command line the launch wrote
  said,     \* what the worker remembers: launchedSlots, the KV layout, toolsRefused
  engine,   \* "none", "starting", "running", "refused" (it exits at once)
  refits

vars == <<plan, worker, line, base, said, engine, refits>>

None     == "none"
NoVal    == -2
NoNumber == -1

Flag(name)     == [name |-> name, val |-> NoVal, clean |-> TRUE]
Val(n)         == [name |-> None, val |-> n, clean |-> TRUE]
With(name, n)  == <<Flag(name), Val(n)>>
If(c, s)       == IF c THEN s ELSE <<>>

---------------------------------------------------------------------------
(* EngineFlags.  A numeric flag of the plan is 0 when absent; ngl, which   *)
(* is 0 for a run on the CPU, is NoVal.                                    *)

splitExtra(extra) == SelectSeq(extra, LAMBDA t : t.clean)

posInt(n, lo, hi) == n \in lo .. hi

\* hasFlag and extraHasPrefix: does the plan's own text name the flag?
hasFlag(extra, name) == \E i \in DOMAIN extra : extra[i].name = name

\* What the token at i says for name: "--flag=N", or the token after it.
ValueAt(extra, i) ==
  IF extra[i].val # NoVal THEN extra[i].val
  ELSE IF i < Len(extra) /\ extra[i + 1].name = None THEN extra[i + 1].val ELSE NoNumber

\* Mutant: the first number counts.
ExtraIntFirst(extra, name) ==
  LET at == {i \in DOMAIN extra : extra[i].name = name /\ ValueAt(extra, i) > 0}
  IN  IF at = {} THEN 0 ELSE ValueAt(extra, CHOOSE i \in at : \A j \in at : i <= j)

\* The last number the flag is given; 0 when it is given none.
extraInt(extra, name) ==
  LET at == {i \in DOMAIN extra : extra[i].name = name /\ ValueAt(extra, i) > 0}
  IN  IF at = {} THEN 0 ELSE ValueAt(extra, CHOOSE i \in at : \A j \in at : j <= i)

DefaultVLLMMaxNumSeqs == 256
DefaultTRTLLMMaxBatch == 64
Slots(p) == IF posInt(p.slots, 1, IF p.engine = "llamacpp" THEN 256 ELSE 4096) THEN p.slots ELSE 0
vllmMaxNumSeqs(p)  == IF Slots(p) > 0 THEN Slots(p) ELSE DefaultVLLMMaxNumSeqs
trtllmMaxBatch(p)  == IF Slots(p) > 0 THEN Slots(p) ELSE DefaultTRTLLMMaxBatch

\* How many requests at once the line tells the engine to serve; 0 when only
\* the engine can say.
LaunchSlots(p) ==
  IF hasFlag(p.extra, "slots") THEN extraInt(p.extra, "slots")
  ELSE CASE p.engine = "vllm"   -> vllmMaxNumSeqs(p)
         [] p.engine = "trtllm" -> trtllmMaxBatch(p)
         [] OTHER               -> Slots(p)

\* The last value the flag is given, of the tokens that reach the line; NoVal
\* when it is given none.
extraValue(extra, name) ==
  LET toks == splitExtra(extra)
      at   == {i \in DOMAIN toks : toks[i].name = name /\ (toks[i].val # NoVal \/ i < Len(toks))}
  IN  IF at = {} THEN NoVal ELSE ValueAt(toks, CHOOSE i \in at : \A j \in at : j <= i)

\* A KV tier on disk needs a CPU tier before it, on vLLM's own backend, and no
\* connector of the plan's.
Native == 1
vllmKVTierFS(p) ==
  /\ p.tier /\ extraInt(p.extra, "offload") > 0
  /\ extraValue(p.extra, "backend") \in {NoVal, Native}
  /\ ~hasFlag(splitExtra(p.extra), "transfer")

Pinned(p) == posInt(p.len, 512, 4194304)

vllmShellOverrides(p) ==
  If(Pinned(p), With("len", p.len)) \o
  If(~hasFlag(p.extra, "slots"), With("slots", vllmMaxNumSeqs(p))) \o
  If(~hasFlag(splitExtra(p.extra), "details"), <<Flag("details")>>) \o
  splitExtra(p.extra) \o
  If(vllmKVTierFS(p), <<Flag("transfer"), Val(1)>>)

sglangShellOverrides(p) ==
  If(Pinned(p), With("len", p.len)) \o
  If(Slots(p) > 0, With("slots", p.slots)) \o
  If(~hasFlag(splitExtra(p.extra), "details"), <<Flag("details")>>) \o
  splitExtra(p.extra)

\* The flags that name a file of options are taken out of extra with their
\* value: the worker writes one file of its own.
WithoutConfig(s) ==
  LET goes(i) == \/ s[i].name = "config"
                 \/ i > 1 /\ s[i - 1].name = "config" /\ s[i - 1].val = NoVal
  IN  FoldLeft(LAMBDA acc, i : IF goes(i) THEN acc ELSE Append(acc, s[i]), <<>>,
               [i \in DOMAIN s |-> i])

trtllmShellOverrides(p) ==
  If(~hasFlag(p.extra, "slots"), With("slots", trtllmMaxBatch(p))) \o
  If(Pinned(p), With("len", p.len)) \o
  WithoutConfig(splitExtra(p.extra)) \o <<Flag("config"), Val(1)>>

llamaOffloadArgs(p, accelerated) ==
  If(p.ngl = NoVal /\ accelerated, With("ngl", 999))

\* The type of the KV cache and the split over devices, which no other flag
\* touches, are left out.
llamaArgs(p) ==
  If(Pinned(p), With("len", p.len)) \o
  If(posInt(p.ngl, 0, 1000), With("ngl", p.ngl)) \o
  If(Slots(p) > 0, With("slots", p.slots)) \o
  If(p.unified = "true", <<Flag("kvu")>>) \o If(p.unified = "false", <<Flag("nokvu")>>) \o
  splitExtra(p.extra)

\* The KV layout the line gives llama-server; "unknown" when each slot is capped.
llamaKVUnified(p) ==
  LET says == {i \in DOMAIN p.extra : p.extra[i].name \in {"kvu", "nokvu"}}
      last == CHOOSE i \in says : \A j \in says : j <= i
  IN  CASE hasFlag(p.extra, "perslot") -> "unknown"
        [] ~hasFlag(p.extra, "perslot") /\ LaunchSlots(p) = 0 -> "shared"
        [] ~hasFlag(p.extra, "perslot") /\ LaunchSlots(p) # 0 /\ says # {} ->
             IF p.extra[last].name = "kvu" THEN "shared" ELSE "split"
        [] OTHER -> IF p.unified = "true" THEN "shared" ELSE "split"

---------------------------------------------------------------------------
(* The command lines.                                                      *)

ToolParserArgs(p, w) ==
  IF ~w.parser \/ hasFlag(p.extra, "parser") THEN <<>>
  ELSE If(p.engine = "vllm" /\ ~hasFlag(p.extra, "autotool"), <<Flag("autotool")>>)
       \o With("parser", 1)

vllmLoRAArgs(n) == If(n > 0, With("loras", IF n < 4 THEN 4 ELSE n))

\* A connector for the offloaded blocks' events, unless the line has one.
vllmKVEventsArgs(flagArgs, w) ==
  If(w.events, <<Flag("events")>> \o
               If(hasFlag(flagArgs, "offload") /\ ~hasFlag(flagArgs, "transfer"), With("transfer", 2)))

sglangKVEventsArgs(flagArgs, w) ==
  If(w.events, <<Flag("events")>> \o If(~hasFlag(flagArgs, "page"), With("page", 16)))

vllmCmdline(p, w) ==
  LET flagArgs == vllmShellOverrides(p) \o vllmLoRAArgs(w.adapters) \o ToolParserArgs(p, w)
  IN  flagArgs \o If(w.sleep, <<Flag("sleep")>>) \o vllmKVEventsArgs(flagArgs, w)

sglangCmdline(p, w) ==
  LET flagArgs == sglangShellOverrides(p) \o ToolParserArgs(p, w)
  IN  flagArgs \o sglangKVEventsArgs(flagArgs, w)

trtllmCmdline(p, w) == trtllmShellOverrides(p) \o ToolParserArgs(p, w)

llamaCmdline(p, w) == llamaArgs(p) \o llamaOffloadArgs(p, w.accelerated)

Cmdline(p, w) ==
  CASE p.engine = "vllm"     -> vllmCmdline(p, w)
    [] p.engine = "sglang"   -> sglangCmdline(p, w)
    [] p.engine = "trtllm"   -> trtllmCmdline(p, w)
    [] p.engine = "llamacpp" -> llamaCmdline(p, w)

\* toolsRefused: the worker started the engine with no tool-call parser.
noteToolParser(p, w) ==
  p.engine # "llamacpp" /\ ~hasFlag(p.extra, "parser") /\ ToolParserArgs(p, w) = <<>>

\* pinnedSource: weights already here need no revision; one that is no
\* revision is refused.
pinnedSource(w) == w.snapshot \/ w.revision # "bad"

\* A worker that holds a card asks llama.cpp whether it reaches one: it fails
\* the load when it reaches none, and goes on when it gets no list.
checkLlamaReachesDevice(p, w) ==
  p.engine = "llamacpp" /\ p.ngl = NoVal /\ w.accelerated => w.devices # 0

\* trtllmConfig: an options file the plan names must be readable.
trtllmConfig(p, w) ==
  p.engine = "trtllm" /\ hasFlag(splitExtra(p.extra), "config") => w.configReadable

Launchable(p, w) ==
  /\ p.engine # "llamacpp" => pinnedSource(w)
  /\ checkLlamaReachesDevice(p, w)
  /\ trtllmConfig(p, w)

---------------------------------------------------------------------------
(* The share of a card's memory, in hundredths (memfraction.go): from the  *)
(* worker's budget (GiB), the card and the engine's overhead (MiB).        *)

MemFractionShell(b, t, o) ==
  LET u == IF b * 1024 < o THEN 0 ELSE ((b * 1024 - o) * 100) \div t
  IN  IF u > 95 THEN 95 ELSE IF u < 5 THEN 5 ELSE u

---------------------------------------------------------------------------
(* The engine's reading of its line: the last word of a flag wins, and a   *)
(* number that is none is refused (external).                              *)

Refuses(s) ==
  \E i \in DOMAIN s : s[i].name \in {"slots", "len", "ngl", "offload"} /\ ValueAt(s, i) = NoNumber

Reads(s, name) ==
  LET at == {i \in DOMAIN s : s[i].name = name}
  IN  IF at = {} THEN 0 ELSE ValueAt(s, CHOOSE i \in at : \A j \in at : j <= i)

\* llama-server: a slot count left automatic shares one pool.
Layout(s) ==
  LET says == {i \in DOMAIN s : s[i].name \in {"kvu", "nokvu"}}
      last == CHOOSE i \in says : \A j \in says : j <= i
  IN  IF Reads(s, "slots") = 0 THEN "shared"
      ELSE IF says # {} /\ s[last].name = "kvu" THEN "shared" ELSE "split"

---------------------------------------------------------------------------

Init ==
  /\ plan \in Plans /\ worker \in Workers
  /\ line = <<>> /\ base = <<>>
  /\ said = [slots |-> 0, layout |-> "unknown", refused |-> FALSE]
  /\ engine = "none" /\ refits = 0

\* launchVLLM, launchSGLang, launchTRTLLM, launchLlamaServer.
Launch ==
  /\ engine = "none" /\ Launchable(plan, worker)
  /\ base' = Cmdline(plan, worker) /\ line' = base'
  /\ said' = [slots   |-> LaunchSlots(plan),
              layout  |-> IF plan.engine = "llamacpp" THEN llamaKVUnified(plan) ELSE "unknown",
              refused |-> noteToolParser(plan, worker)]
  /\ engine' = "starting"
  /\ UNCHANGED <<plan, worker, refits>>

LaunchFails ==
  /\ engine = "none" /\ ~Launchable(plan, worker)
  /\ engine' = "failed"
  /\ UNCHANGED <<plan, worker, line, base, said, refits>>

Starts ==
  /\ engine = "starting"
  /\ engine' = IF Refuses(line) THEN "refused" ELSE "running"
  /\ UNCHANGED <<plan, worker, line, base, said, refits>>

\* vllmFittedLen: nine tenths of the named length, in blocks of 256.
vllmFittedLen(hint) == (((hint * 9) \div 10) \div 256) * 256

\* vLLM exits naming the length that would fit.  The supervisor restarts it,
\* with that length unless the plan has pinned one (vllmFitContext).
OutOfMemory(hint) ==
  /\ engine = "running" /\ plan.engine = "vllm" /\ refits < MaxRefits
  /\ line' = IF Pinned(plan) \/ vllmFittedLen(hint) < 512 THEN line
             ELSE base \o With("len", vllmFittedLen(hint))
  /\ engine' = "starting" /\ refits' = refits + 1
  /\ UNCHANGED <<plan, worker, base, said>>

Next == Launch \/ LaunchFails \/ Starts \/ \E hint \in Hints : OutOfMemory(hint)

Spec == Init /\ [][Next]_vars

---------------------------------------------------------------------------
(* Properties                                                              *)

\* Nothing of the plan's extra arguments was dropped on the way to the line.
Whole(p) == \A i \in DOMAIN p.extra : p.extra[i].clean

Times(s, name) == Cardinality({i \in DOMAIN s : s[i].name = name})

\* What the worker remembers of its launch is what the engine read off the
\* line: the slot count of LaunchSlots is the one the engine enforces, and is
\* 0 only where the line names none; the KV layout of llamaKVUnified is the
\* one llama-server takes; and tools are refused exactly when the line names
\* no parser (noteToolParser).  It asks that no token of extra was dropped:
\* LaunchSlots, llamaKVUnified and noteToolParser read the text before the
\* filter and the line is written after it.
LaunchKeepsItsWord ==
  engine = "running" /\ Whole(plan) =>
    /\ said.slots = Reads(line, "slots")
    /\ said.layout # "unknown" => said.layout = Layout(line)
    /\ plan.engine # "llamacpp" => (said.refused <=> ~hasFlag(line, "parser"))

\* The parts of the line do not contradict one another.  At most one KV
\* connector, whoever asks for it (vllmKVTierFS, vllmKVEventsArgs); a context
\* length the plan pins is the one the engine reads, restarts included, unless
\* extra says another (vllmFitContext); a pinned ngl wins over the offload; one
\* options file; and an engine's share of a card stays within its budget.
LineIsCoherent ==
  /\ Times(plan.extra, "transfer") = 0 => Times(line, "transfer") <= 1
  /\ engine = "running" /\ Pinned(plan) /\ ~hasFlag(plan.extra, "len") => Reads(line, "len") = plan.len
  /\ engine = "running" /\ plan.engine = "llamacpp" /\ plan.ngl \in 0 .. 1000 /\ ~hasFlag(plan.extra, "ngl")
       => hasFlag(line, "ngl") /\ Reads(line, "ngl") = plan.ngl
  /\ plan.engine = "trtllm" => Times(line, "config") <= 1
  /\ LET u == MemFractionShell(worker.budget, worker.card, worker.overhead)
     IN  u > 5 => u * worker.card <= (worker.budget * 1024 - worker.overhead) * 100
=============================================================================
