------------------------------ MODULE EngineStats ------------------------------
(***************************************************************************)
(* What a worker's heartbeat says of the engine beside it: the median time *)
(* to first token (engines/histogram.go), the token rate (engines/load.go),*)
(* the slots and the KV pool (the drivers of engines/vllm, sglang, trtllm  *)
(* and llamacpp), and the state of its processes (agent/loop.go).  The     *)
(* engine only publishes totals since ITS start; the driver keeps earlier  *)
(* readings to turn them into "of late", and the engine restarts, or is    *)
(* launched again on another line, between two readings.                   *)
(*                                                                         *)
(* A histogram is the sequence of cumulative counts of its buckets, the    *)
(* last of which is +Inf.  A median is the number of the bucket it lies    *)
(* in: where inside, linear interpolation says.  Gauges that a driver only *)
(* copies (queue depth, cache usage, prefix hits) are left out.            *)
(***************************************************************************)
EXTENDS Integers, FiniteSetsExt, Sequences, SequencesExt

CONSTANTS
  Kinds,         \* the engines a worker may run
  Launches,      \* per kind, what it may be launched as: [slots, ctx, unified]
  Processes,     \* per kind, the processes the worker supervises; none for an
                 \* engine started outside it
  Buckets,       \* number of buckets of the histogram
  ttftWindow,    \* in ticks
  maxHistSnaps,
  MaxNow, MaxObserved, MaxLives, MaxTurns

VARIABLES
  kind,      \* which driver Agent.Engine is
  engine,    \* the process: up, life, launched as, counts per bucket
  procs,     \* Supervisor.List: status, restarts, restartPending
  snaps,     \* HistogramWindow.snaps
  rate,      \* RateTracker: last, at, valid
  cached,    \* the driver's slots, slotCtx, poolTokens; unified is 2 until told
  launched,  \* Server.launchedSlots
  version,   \* Agent.engineVersion, as the life of the engine that said it
  now, beat, \* the clock, and when the last heartbeat was
  said,      \* the heartbeat's statements; fit, history: every process runs
  log,       \* history: every first token: its bucket, the readings before it
  reads,     \* history: every reading: when, of which life, tokens so far
  changed,   \* history: the engine was launched again on another line
  turns

vars == <<kind, engine, procs, snaps, rate, cached, launched, version, now,
          beat, said, log, reads, changed, turns>>

NotSaid  == -1
Unified  == 1
Split    == 0
NotTold  == 2
Silent   == [ttft |-> NotSaid, rate |-> NotSaid, slots |-> NotSaid,
             pool |-> NotSaid, state |-> "none", version |-> 0, fit |-> TRUE]
Zeros    == [b \in 1 .. Buckets |-> 0]
HasTTFT  == {"vllm", "sglang"}

Init ==
  /\ kind \in Kinds
  /\ \E l \in Launches[kind] :
       /\ engine = [up |-> TRUE, life |-> 1, as |-> l, counts |-> Zeros]
       /\ cached = [slots |-> 0, ctx |-> 0, pool |-> 0,
                    unified |-> IF kind = "llamacpp" THEN l.unified ELSE NotTold]
       /\ launched = l.slots
  /\ procs = [p \in Processes[kind] |-> [status |-> "running", restarts |-> 0,
                                   pending |-> FALSE]]
  /\ snaps = <<>> /\ rate = [last |-> 0, at |-> 0, valid |-> FALSE]
  /\ version = 0 /\ now = 1 /\ beat = 0 /\ said = Silent
  /\ log = <<>> /\ reads = <<>> /\ changed = FALSE /\ turns = 0

-----------------------------------------------------------------------------
(* The median of late: HistogramWindow.                                    *)

(* The first bucket that holds half of what was counted; +Inf answers with *)
(* the bound below it, the upper end of the bucket before.                 *)
histogramQuantile(delta) ==
  LET total == delta[Buckets]
      holds == {b \in 1 .. Buckets : 2 * delta[b] >= total}
      first == CHOOSE b \in holds : \A c \in holds : b <= c
  IN  IF total <= 0 THEN NotSaid
      ELSE IF first = Buckets THEN (IF first = 1 THEN NotSaid ELSE first - 1)
      ELSE first

\* Mutant: always the oldest reading kept.
BaseOldest(t) == IF snaps # <<>> THEN 1 ELSE 0

(* The newest reading at least a window old, else the oldest kept.         *)
Base(t) ==
  LET old == {i \in DOMAIN snaps : snaps[i].at <= t - ttftWindow}
  IN  IF old # {} THEN CHOOSE i \in old : \A j \in old : j <= i
      ELSE IF snaps # <<>> THEN 1 ELSE 0

(* A reading that went down against its base starts the window again.      *)
Reset(cur, prev) == \E b \in 1 .. Buckets : cur[b] < prev[b]

Quantile(t, cur, there) ==
  LET base  == Base(t)
      prev  == snaps[base].counts
      all   == Append(SubSeq(snaps, IF base = 0 THEN 1 ELSE base, Len(snaps)),
                      [at |-> t, counts |-> cur])
      kept  == IF Len(all) > maxHistSnaps
               THEN SubSeq(all, Len(all) - maxHistSnaps + 1, Len(all)) ELSE all
      again == <<Last(all)>>
  IN  IF ~there THEN [snaps |-> <<>>, median |-> NotSaid]
      ELSE IF base = 0 THEN [snaps |-> kept, median |-> NotSaid]
      ELSE IF Reset(cur, prev) THEN [snaps |-> again, median |-> NotSaid]
      ELSE [snaps |-> kept,
            median |-> histogramQuantile([b \in 1 .. Buckets |-> cur[b] - prev[b]])]

-----------------------------------------------------------------------------
(* RateTracker: 0 on the first reading, at the same instant, after a reset.*)
Rate(value, t) ==
  IF ~rate.valid \/ t <= rate.at \/ value < rate.last THEN 0
  ELSE (value - rate.last) \div (t - rate.at)

(* What a driver knows of the engine's size after it was asked: read once, *)
(* kept for the life of the worker.                                        *)
totalSlots ==
  IF cached.slots > 0 \/ ~engine.up THEN cached
  ELSE [cached EXCEPT !.slots = engine.as.slots, !.ctx = engine.as.ctx]

readSlots ==
  IF cached.slots > 0 \/ ~engine.up THEN cached
  ELSE [cached EXCEPT !.slots = engine.as.slots, !.pool = engine.as.ctx * engine.as.slots]

Sized ==
  CASE kind = "llamacpp" -> totalSlots [] kind = "sglang" -> readSlots [] OTHER -> cached

(* llama-server says one slot's context: the pool when the slots share it, *)
(* a share of it when they do not.                                         *)
kvPool(c) ==
  IF c.slots <= 0 \/ c.ctx <= 0 THEN NotSaid
  ELSE IF c.slots = 1 \/ c.unified = Unified THEN c.ctx
  ELSE IF c.unified = Split THEN c.ctx * c.slots
  ELSE NotSaid

(* The pool the engine really has.                                         *)
PoolOf(as) ==
  IF kind = "llamacpp" /\ as.unified = Unified THEN as.ctx ELSE as.ctx * as.slots

(* The drivers' Load, of an engine that answers: whether the token counter *)
(* and the histogram were read, and the pool.  vLLM's and SGLang's metrics *)
(* carry the pool (an SGLang that does not falls back on what /server_info *)
(* said); TensorRT-LLM's do not, and without metrics (404) it states none. *)
(* asked is what the driver held when Load ran.                            *)
Loaded(counted, timed, pool) == [counted |-> counted, timed |-> timed, pool |-> pool]

vllmLoad(metric) ==
  Loaded(TRUE, TRUE, IF metric THEN engine.as.ctx * engine.as.slots ELSE NotSaid)

sglangLoad(asked, metric) ==
  Loaded(TRUE, TRUE, IF metric THEN engine.as.ctx * engine.as.slots
                     ELSE IF asked.pool > 0 THEN asked.pool ELSE NotSaid)

trtllmLoad(metric) == Loaded(metric, FALSE, NotSaid)

llamacppLoad(asked) == Loaded(TRUE, FALSE, kvPool(asked))

Load(asked, metric) ==
  CASE ~engine.up                          -> Loaded(FALSE, FALSE, NotSaid)
    [] engine.up /\ kind = "vllm"          -> vllmLoad(metric)
    [] engine.up /\ kind = "sglang"        -> sglangLoad(asked, metric)
    [] engine.up /\ kind = "trtllm"        -> trtllmLoad(metric)
    [] engine.up /\ kind = "llamacpp"      -> llamacppLoad(asked)

-----------------------------------------------------------------------------
(* The state of the worker's processes.                                    *)

engineSeverity(status) ==
  CASE status = "crashloop" -> 4
    [] status = "failed"    -> 3
    [] status = "stopped"   -> 2
    [] status = "starting"  -> 1
    [] OTHER                -> 0

(* List walks a map: among equally bad processes any may come first.       *)
Worst ==
  {p \in DOMAIN procs : \A q \in DOMAIN procs :
     engineSeverity(procs[q].status) <= engineSeverity(procs[p].status)}

engineState(p) ==
  LET status == procs[p].status
  IN  CASE status = "running"   -> IF procs[p].restarts > 1 THEN "crash_looping"
                                   ELSE "serving"
        [] status = "starting"  -> "starting"
        [] status = "crashloop" -> "crash_looping"
        [] OTHER                -> IF procs[p].pending THEN "restarting" ELSE "stopped"

EngineStates == IF Worst = {} THEN {"none"} ELSE {engineState(p) : p \in Worst}

(* Asked once, of an engine that serves, and kept.                         *)
engineVersionOf(state) ==
  IF version # 0 \/ state # "serving" \/ ~engine.up THEN version ELSE engine.life

-----------------------------------------------------------------------------
(* One heartbeat: the state and the version, then Load, then the slots.  A *)
(* Load that fails leaves the load out; the driver keeps its readings.     *)
Heartbeat(state, metric) ==
  /\ beat < now
  /\ LET load     == Load(IF kind = "llamacpp" THEN Sized ELSE cached, metric)
         measured == Quantile(now, engine.counts, metric)
         tokens   == engine.counts[Buckets]
     IN  /\ said' = [ttft    |-> IF load.timed THEN measured.median ELSE NotSaid,
                     rate    |-> IF load.counted THEN Rate(tokens, now)
                                 ELSE IF engine.up THEN 0 ELSE NotSaid,
                     pool    |-> load.pool,
                     slots   |-> IF Sized.slots > 0 THEN Sized.slots ELSE launched,
                     state   |-> state,
                     version |-> engineVersionOf(state),
                     fit     |-> \A q \in DOMAIN procs : procs[q].status = "running"]
         /\ version' = engineVersionOf(state)
         /\ snaps' = IF load.timed THEN measured.snaps ELSE snaps
         /\ rate' = IF load.counted THEN [last |-> tokens, at |-> now, valid |-> TRUE] ELSE rate
         /\ reads' = IF load.counted
                     THEN Append(reads, [at |-> now, life |-> engine.life,
                                         tokens |-> Len(log), there |-> metric])
                     ELSE reads
  /\ cached' = Sized /\ beat' = now
  /\ UNCHANGED <<kind, engine, procs, launched, now, log, changed, turns>>

Tick ==
  /\ now < MaxNow /\ beat = now
  /\ now' \in {now + 1, now + 2}
  /\ UNCHANGED <<kind, engine, procs, snaps, rate, cached, launched, version,
                 beat, said, log, reads, changed, turns>>

(* The engine answers a request: its first token falls in bucket b (of an  *)
(* engine whose histogram is not read, the tokens alone matter).           *)
FirstToken(b) ==
  /\ engine.up /\ Len(log) < MaxObserved /\ beat = now
  /\ kind \notin HasTTFT => b = 1
  /\ engine' = [engine EXCEPT !.counts =
                  [c \in 1 .. Buckets |-> @[c] + (IF c >= b THEN 1 ELSE 0)]]
  /\ log' = Append(log, [bucket |-> b, after |-> Len(reads)])
  /\ UNCHANGED <<kind, procs, snaps, rate, cached, launched, version, now,
                 beat, said, reads, changed, turns>>

Exits ==
  /\ engine.up /\ engine.life < MaxLives
  /\ engine' = [engine EXCEPT !.up = FALSE]
  /\ UNCHANGED <<kind, procs, snaps, rate, cached, launched, version, now,
                 beat, said, log, reads, changed, turns>>

(* The supervisor starts it again on its line, or a load launches it on    *)
(* another one: launchLlamaServer then tells the driver the KV layout.     *)
Starts(l) ==
  /\ ~engine.up
  /\ engine' = [up |-> TRUE, life |-> engine.life + 1, as |-> l, counts |-> Zeros]
  /\ launched' = l.slots
  /\ cached' = IF kind = "llamacpp" THEN [cached EXCEPT !.unified = l.unified] ELSE cached
  /\ changed' = (changed \/ l # engine.as)
  /\ UNCHANGED <<kind, procs, snaps, rate, version, now, beat, said, log, reads, turns>>

(* A supervised process changes state (the Supervisor module says how);    *)
(* the engine's counts do not depend on it, so it does so before them.     *)
ProcessTurns(p) ==
  /\ turns < MaxTurns /\ log = <<>> /\ engine.life = 1
  /\ \E status \in {"running", "starting", "crashloop", "failed", "stopped"},
        restarts \in {0, 2}, pending \in BOOLEAN :
       /\ pending => status \in {"failed", "stopped"}
       /\ procs' = [procs EXCEPT ![p] = [status |-> status, restarts |-> restarts,
                                         pending |-> pending]]
  /\ turns' = turns + 1
  /\ UNCHANGED <<kind, engine, snaps, rate, cached, launched, version, now,
                 beat, said, log, reads, changed>>

Next ==
  \/ \E state \in EngineStates, metric \in BOOLEAN : Heartbeat(state, metric)
  \/ Tick
  \/ \E b \in 1 .. Buckets : FirstToken(b)
  \/ Exits
  \/ \E l \in Launches[kind] : Starts(l)
  \/ \E p \in DOMAIN procs : ProcessTurns(p)

Spec == Init /\ [][Next]_vars

-----------------------------------------------------------------------------
(* The lower median, by definition: the middle one of what was observed.   *)
MedianOf(seen) ==
  LET sorted == SortSeq(seen, LAMBDA x, y : x.bucket < y.bucket)
      middle == sorted[(Len(seen) + 1) \div 2].bucket
  IN  IF seen = <<>> THEN NotSaid
      ELSE IF middle = Buckets THEN Buckets - 1 ELSE middle

Since(i) == MedianOf(SelectSeq(log, LAMBDA x : i <= x.after /\ x.after < Len(reads)))

(* The readings since the histogram was last missing, and the one of them  *)
(* the window starts from, among all that were ever taken.                 *)
FirstRead == 1 + Max({0} \cup {i \in DOMAIN reads : ~reads[i].there})

WindowStart ==
  LET n   == Len(reads)
      old == {i \in FirstRead .. n - 1 : reads[i].at <= reads[n].at - ttftWindow}
  IN  IF old = {} THEN FirstRead ELSE CHOOSE i \in old : \A j \in old : j <= i

OneLife(i) == \A j \in i .. Len(reads) : reads[j].life = reads[Len(reads)].life

(* The heartbeat's median (HistogramWindow.Quantile) is the true median of *)
(* the first tokens since the newest reading at least a window old; once   *)
(* the engine has restarted, of those since some reading of the running    *)
(* process, unless readings of two processes share the window.  It is not  *)
(* said when there is nothing to say.                                      *)
MedianIsOfTheWindow ==
  LET n == Len(reads)
  IN  said.ttft # NotSaid /\ OneLife(WindowStart) =>
        IF OneLife(FirstRead) THEN said.ttft = Since(WindowStart)
        ELSE \E i \in WindowStart .. n - 1 : said.ttft = Since(i)

(* A token rate (RateTracker.Rate) is never negative and never more than   *)
(* the tokens really made since the reading before, restarts included.     *)
RateNeverOverstates ==
  LET n == Len(reads)
  IN  said.rate > 0 \/ said.rate < NotSaid =>
        /\ n > 1
        /\ 0 <= said.rate
        /\ said.rate * (reads[n].at - reads[n - 1].at)
             <= reads[n].tokens - reads[n - 1].tokens

(* While the engine keeps its line over its restarts, the slots the leader *)
(* governs dispatch by and the KV pool are the engine's own, although the  *)
(* driver reads them once (totalSlots, kvPool, Slots).                     *)
SizeIsTheEngines ==
  ~changed => /\ said.slots \in {NotSaid, engine.as.slots}
              /\ said.pool \in {NotSaid, PoolOf(engine.as)}

(* An engine is reported serving (engineState) only when no supervised     *)
(* process of the worker is starting, gone or in a crash loop.             *)
ServingMeansAll == said.state = "serving" => said.fit

(* What a heartbeat states of the engine is true of the engine.            *)
SampleIsTrue ==
  MedianIsOfTheWindow /\ RateNeverOverstates /\ SizeIsTheEngines /\ ServingMeansAll
=============================================================================
