-------------------------------- MODULE Gangs --------------------------------
(***************************************************************************)
(* The gangs of one model: creates and teardowns that run at the same time *)
(* (scheduler/sharding.go, gangs.go, partlost.go, placement.go,            *)
(* workerclient.go; store/shards.go).                                      *)
(*                                                                         *)
(* A create claims its gang, tears down what it replaces, starts the parts *)
(* one after another on the workers and records each; one that fails gives *)
(* back what it took.  A teardown takes no claim: it stops the processes   *)
(* behind the rows it read, one slow call after another, then deletes the  *)
(* rows.  Process ids and row ids are the gang's, so a gang formed again   *)
(* has the ids of the one before it.                                       *)
(*                                                                         *)
(* A part's row and process have the id <<gang, part>>; "by", the create   *)
(* that made them, stands for the row's creation time (whole seconds in    *)
(* the store: two creates within one second are not distinguished there).  *)
(* Ports and commands are left out where nothing depends on them.          *)
(***************************************************************************)
EXTENDS Naturals, Integers, Sequences, FiniteSets, SequencesExt, FiniteSetsExt

(***************************************************************************)
(* The pure part of gang placement (scheduler/sharding.go, placement.go,   *)
(* autoshard.go, vllmray.go, vllmexpert.go, sglang.go): how many parts, on *)
(* which workers, split how, with which ports, started in which order.     *)
(* Memory is in units of one gigabyte; a worker is                         *)
(*   [id, card, ram, free], card the sum of its GPUs' memory.              *)
(***************************************************************************)

Refused == [refused |-> TRUE]

AtLeastOne(n) == IF n > 1 THEN n ELSE 1

\* Parallelism.resolve: the tensor and pipeline sizes of a gang of ranks parts.
Resolve(p, ranks) ==
  LET k     == AtLeastOne(p.devices)
      total == ranks * k
      tp    == CASE p.tp <= 0 /\ p.pp <= 0 -> k
                 [] p.tp <= 0 /\ p.pp > 0  -> total \div p.pp
                 [] OTHER -> p.tp
      pp    == CASE p.tp <= 0 /\ p.pp <= 0 -> ranks
                 [] p.tp > 0 /\ p.pp <= 0  -> total \div p.tp
                 [] OTHER -> p.pp
  IN  IF \/ p.tp > 0 /\ p.pp <= 0 /\ total % p.tp # 0
         \/ p.pp > 0 /\ p.tp <= 0 /\ total % p.pp # 0
         \/ tp % k # 0 \/ tp * pp # total
      THEN Refused ELSE [tp |-> tp, pp |-> pp, devices |-> k]

\* Parallelism.expertSplit: every device a data-parallel rank, or tp of them.
ExpertSplit(p, parts) ==
  LET k  == AtLeastOne(p.devices)
      tp == AtLeastOne(p.tp)
  IN  IF p.pp > 1 \/ k % tp # 0 \/ parts < 1 THEN Refused
      ELSE [tp |-> tp, dp |-> (parts * k) \div tp, local |-> k \div tp]

\* shardCountFor: the nodes named, else the count named, else the catalogue's.
ShardCountFor(default, count, nodes) ==
  LET n == CASE nodes # <<>> -> Len(nodes)
             [] nodes = <<>> /\ count > 0 -> count
             [] OTHER -> default
  IN  IF n < 1 THEN Refused ELSE n

\* strongerWorker: more GPU memory, then more RAM.
StrongerWorker(a, b) == IF a.card # b.card THEN a.card > b.card ELSE a.ram > b.ram

StableBy(s, Before(_, _)) ==
  SortSeq([i \in DOMAIN s |-> [at |-> i, of |-> s[i]]],
          LAMBDA x, y : \/ Before(x.of, y.of)
                        \/ (~Before(y.of, x.of) /\ x.at < y.at))

\* pickWorkers: the n strongest of those that take new work.
PickWorkers(ready, n) ==
  LET order == StableBy(ready, StrongerWorker)
  IN  IF Len(ready) < n THEN Refused ELSE [i \in 1 .. n |-> order[i].of]

\* pickCoordinatorHost: the override, if it is the leader or one of the parts,
\* else the strongest part; the leader when there are no parts.
PickCoordinatorHost(workers, override) ==
  LET ids == {workers[i].id : i \in DOMAIN workers}
      best == CHOOSE i \in DOMAIN workers :
                /\ \A j \in DOMAIN workers : ~StrongerWorker(workers[j], workers[i])
                /\ \A j \in 1 .. i - 1 : StrongerWorker(workers[i], workers[j])
  IN  CASE override \in ids \cup {"local"} -> override
        [] override \notin ids \cup {"local"} /\ workers = <<>> -> "local"
        [] OTHER -> workers[best].id

\* headFirst: rank 0 is the named head.
HeadFirst(workers, head) ==
  LET at == {i \in 2 .. Len(workers) : workers[i] = head}
  IN  IF at = {} THEN workers
      ELSE <<head>> \o SubSeq(workers, 1, Min(at) - 1) \o SubSeq(workers, Min(at) + 1, Len(workers))

-----------------------------------------------------------------------------
(* portAllocator: used is the set of ports taken on one node.              *)

Take(used, want) == CHOOSE p \in want .. want + Cardinality(used) :
                      p \notin used /\ want .. p - 1 \subseteq used

\* takeRange: a block of span + 1 free ports; a taken port is skipped past.
TakeRange(used, want, span) ==
  LET base[b \in Nat] ==
        LET taken == {p \in b .. b + span : p \in used}
        IN  IF taken = {} THEN b ELSE base[Min(taken) + 1]
  IN  base[want]

\* newPortAllocator: the ports the recorded rows hold on the node.
NewPortAllocator(rows, node) == {r.port : r \in {x \in rows : x.node = node /\ x.port # 0}}

-----------------------------------------------------------------------------
(* The order in which a backend starts a gang's parts, as node ids.  The   *)
(* part named coord answers requests.                                      *)

Part(n, coord) == [node |-> n, coord |-> coord]

\* llama.cpp: an rpc-server on each worker, then the coordinator; a gang of one
\* part is the coordinator alone.
LlamaParts(ws, host) ==
  IF Len(ws) = 1 THEN << Part(ws[1], TRUE) >>
  ELSE [i \in DOMAIN ws |-> Part(ws[i], FALSE)] \o << Part(host, TRUE) >>

\* vLLM over Ray: the head's daemon, the others', then vLLM on the head.
RayParts(ws) == [i \in DOMAIN ws |-> Part(ws[i], FALSE)] \o << Part(ws[1], TRUE) >>

\* SGLang: one launcher per worker, rank 0 serves.
SGLangParts(ws) == [i \in DOMAIN ws |-> Part(ws[i], i = 1)]

\* An expert-parallel vLLM gang: the same, the named head first.
ExpertParts(ws, head) == SGLangParts(HeadFirst(ws, head))

\* gangBackend.
PartsOf(backend, ws, head) ==
  CASE backend = "expert" -> ExpertParts(ws, head)
    [] backend = "ray" -> RayParts(ws)
    [] backend = "sglang" -> SGLangParts(ws)
    [] OTHER -> LlamaParts(ws, head)

-----------------------------------------------------------------------------
(* PickShards: the fewest equal parts that fit the freest workers.         *)

\* Mutant: rounded down.
FloorDiv(a, b) == a \div b

CeilDiv(a, b) == (a + b - 1) \div b

PickShards(need, layers, workers) ==
  LET order == StableBy(workers, LAMBDA a, b : a.free > b.free \/ (a.free = b.free /\ a.id < b.id))
      limit == IF layers > 0 /\ layers < Len(workers) THEN layers ELSE Len(workers)
      fits  == {n \in 1 .. limit : order[n].of.free >= CeilDiv(need, n)}
  IN  IF need <= 0 \/ workers = <<>> \/ fits = {} THEN Refused
      ELSE [shards |-> Min(fits), part |-> CeilDiv(need, Min(fits)),
            nodes |-> [i \in 1 .. Min(fits) |-> order[i].of.id]]

\* WorkerMemoryFacts, of one worker: a gang counts by its parts (its coordinator
\* when it has none), the gang to be replaced not at all, a placement when it is
\* warm and its model has no gang.
ResidentBytes(node, gangs, placed, need, replacing) ==
  LET holders(g) == IF g.parts = <<>> THEN << g.coordinator >> ELSE g.parts
      share(g) == LET hs == holders(g) IN
        Cardinality({i \in DOMAIN hs : hs[i] = node}) * (need[g.model] \div Len(hs))
      sharded == {g.model : g \in gangs}
      whole == {p \in placed : p.node = node /\ ~p.cold /\ p.model \notin sharded}
  IN  MapThenSumSet(share, {g \in gangs : g.model # replacing})
      + MapThenSumSet(LAMBDA p : need[p.model], whole)

FreeBytes(capacity, resident) == IF resident < capacity THEN capacity - resident ELSE 0

-----------------------------------------------------------------------------
Leader == "local"   \* the node id of the leader itself, which may host a coordinator

CONSTANTS Nodes, Creates, Teardowns,
          Ask,       \* create -> [gang ("" for a bare one), backend, workers, head]
          Kind,      \* teardown -> [what, gang, node]
          SameAddress, \* the nodes whose next worker process has the same address
          MaxBoots,  \* bound on the worker processes behind a node id
          MaxFaults  \* bound on the calls to a worker that are lost

Default == "g0"   \* store.DefaultGangID
Bare(c) == Ask[c].gang = ""
GangOf(c) == IF Bare(c) THEN Default ELSE Ask[c].gang
Parts(c) == PartsOf(Ask[c].backend, Ask[c].workers, Ask[c].head)
Actors == Creates \cup Teardowns

VARIABLES boot,     \* node -> the worker process behind its id
          known,    \* the nodes that have a row
          procs,    \* node -> processes of gangs on it: [id, by, ready]
          rows,     \* the shard rows: [id, node, by]
          placed,   \* the model has its "local" placement
          busy,     \* createGuard: the gangs claimed
          cr,       \* create -> where it is
          td,       \* create or teardown -> the teardown it is in
          faults,
          touched,  \* creates that something else has had a hand in
          late,     \* creates that started a part between the check of a stop of that id and the stop
          cut       \* creates with a row deleted that the deleter had not read
vars == <<boot, known, procs, rows, placed, busy, cr, td, faults, touched, late, cut>>
workers == <<boot, known>>
hands == <<touched, late, cut>>

NoRow == [id |-> <<"", 0>>, node |-> "", by |-> ""]
Idle == [pc |-> "idle", left |-> {}, read |-> {}, seen |-> <<>>, cur |-> NoRow]
\* A create's sweep: the workers left, how they were read, the one it is at and the ids to stop there.
NoSweep == [left |-> {}, seen |-> <<>>, at |-> "", ids |-> {}]
Id(c, i) == <<GangOf(c), i>>
Row(c, i) == [id |-> Id(c, i), node |-> Parts(c)[i].node, by |-> c]
Of(g) == {r \in rows : r.id[1] = g}

Init ==
  /\ boot = [n \in Nodes |-> 1] /\ known = Nodes
  /\ procs = [n \in Nodes |-> {}] /\ rows = {} /\ placed = FALSE
  /\ busy = {} /\ faults = 0 /\ touched = {} /\ late = {} /\ cut = {}
  /\ cr = [c \in Creates |-> [pc |-> "new", i |-> 1, boots |-> <<>>, lost |-> FALSE, made |-> {}, sw |-> NoSweep, out |-> "open"]]
  /\ td = [a \in Actors |-> Idle]

\* callWorkerStop: the process of that id, whoever started it.
Stop(n, id) == procs' = [procs EXCEPT ![n] = {p \in @ : p.id # id}]
Fault == faults < MaxFaults /\ faults' = faults + 1
Lost(c) == cr[c].lost

To(c, pc) == cr' = [cr EXCEPT ![c].pc = pc]

-----------------------------------------------------------------------------
(* CreateSharded                                                           *)

\* Mutant: a claim that is held is not looked at.
ClaimAnything(c) ==
  /\ cr[c].pc = "new"
  /\ busy' = busy \cup {GangOf(c)} /\ To(c, "pick")
  /\ UNCHANGED <<workers, procs, rows, placed, td, faults, hands>>

\* createGuard.claim, called with the gang that resolveGang returned: a bare
\* create claims the default gang.
InFlight(c) == GangOf(c) \in busy

\* CreateSharded, up to the claim.
Claim(c) ==
  /\ cr[c].pc = "new"
  /\ IF InFlight(c)
     THEN cr' = [cr EXCEPT ![c].pc = "done", ![c].out = "in flight"] /\ UNCHANGED busy
     ELSE busy' = busy \cup {GangOf(c)} /\ To(c, "pick")
  /\ UNCHANGED <<workers, procs, rows, placed, td, faults, hands>>

\* pickWorkersByID: every worker named has a row and takes new work.
Placeable(c) == ToSet(Ask[c].workers) \subseteq known

\* The workers as their rows are now, or a refusal with nothing changed.
Pick(c) ==
  /\ cr[c].pc = "pick"
  /\ IF Placeable(c)
     THEN cr' = [cr EXCEPT ![c].pc = "begin", ![c].boots = boot] /\ UNCHANGED busy
     ELSE cr' = [cr EXCEPT ![c].pc = "done", ![c].out = "unplaceable"] /\ busy' = busy \ {GangOf(c)}
  /\ UNCHANGED <<workers, procs, rows, placed, td, faults, hands>>

\* formationSet.begin: from here on the create hears of a lost worker.
Begin(c) ==
  /\ cr[c].pc = "begin" /\ To(c, "replace")
  /\ UNCHANGED <<workers, procs, rows, placed, busy, td, faults, hands>>

Forming(c) == cr[c].pc \in {"replace", "teardown", "sweep", "list", "stop", "start", "await", "record", "finish"}

Reads(a, rs, pc) == td' = [td EXCEPT ![a] = [pc |-> pc, left |-> rs, read |-> rs, seen |-> boot, cur |-> NoRow]]
Makers(rs) == {r.by : r \in rs}

\* replacePrior: the rows of the gang, or of every gang for a bare create.  A
\* create that has heard of a loss reads nothing: its context is cancelled.
ReplacePrior(c) ==
  /\ cr[c].pc = "replace"
  /\ LET prior == IF Lost(c) THEN {} ELSE IF Bare(c) THEN rows ELSE Of(GangOf(c))
     IN  IF prior = {} THEN To(c, "sweep") /\ UNCHANGED <<td, touched>>
         ELSE Reads(c, prior, "next") /\ To(c, "teardown") /\ touched' = touched \cup Makers(prior)
  /\ UNCHANGED <<workers, procs, rows, placed, busy, faults, late, cut>>

\* stopOrphanShardProcs takes every process of the model, stopOrphanGangProcs
\* those with the gang's ids; on the workers, as their rows are now, and not on
\* the leader.  A cancelled create lists nothing.
Sweep(c) ==
  /\ cr[c].pc = "sweep"
  /\ cr' = [cr EXCEPT ![c].pc = "list",
                      ![c].sw = [NoSweep EXCEPT !.left = IF Lost(c) THEN {} ELSE known \ {Leader}, !.seen = boot]]
  /\ UNCHANGED <<workers, procs, rows, placed, busy, td, faults, hands>>

Orphans(c, n) == {p.id : p \in {q \in procs[n] : Bare(c) \/ q.id[1] = GangOf(c)}}
Answers(c, n) == cr[c].sw.seen[n] = boot[n] \/ n \in SameAddress

\* One worker after the other is asked what it runs; one that does not answer is
\* skipped.
SweepList(c) ==
  /\ cr[c].pc = "list"
  /\ LET left == cr[c].sw.left
         n == CHOOSE x \in left : TRUE
         At(ids) == cr' = [cr EXCEPT ![c].pc = IF ids = {} THEN "list" ELSE "stop",
                                     ![c].sw = [@ EXCEPT !.left = left \ {n}, !.at = n, !.ids = ids]]
     IN  IF left = {} THEN cr' = [cr EXCEPT ![c].pc = "start", ![c].sw = NoSweep] /\ UNCHANGED faults
         ELSE \/ At(IF ~Lost(c) /\ Answers(c, n) THEN Orphans(c, n) ELSE {}) /\ UNCHANGED faults
              \/ Fault /\ At({})
  /\ UNCHANGED <<workers, procs, rows, placed, busy, td, hands>>

\* What it listed is stopped by id, whoever has that id by then.
SweepStop(c) ==
  /\ cr[c].pc = "stop"
  /\ \E id \in cr[c].sw.ids :
       LET n == cr[c].sw.at IN
       /\ cr' = [cr EXCEPT ![c].pc = IF cr[c].sw.ids = {id} THEN "list" ELSE "stop", ![c].sw.ids = @ \ {id}]
       /\ \/ /\ Answers(c, n) /\ Stop(n, id) /\ UNCHANGED faults
             /\ touched' = touched \cup {p.by : p \in {q \in procs[n] : q.id = id}}
          \/ ~Answers(c, n) /\ UNCHANGED <<procs, faults, touched>>
          \/ Fault /\ UNCHANGED <<procs, touched>>
  /\ UNCHANGED <<workers, rows, placed, busy, td, late, cut>>

\* A call to the worker as its row was read reaches the process there now, or
\* nobody when that one has another address.
Reached(c, n) == n = Leader \/ cr[c].boots[n] = boot[n] \/ n \in SameAddress

\* startOnWorker, or the leader's own supervisor: the worker refuses an id it already runs, and then nothing is
\* stopped; a call that is lost or cancelled may have started the process.
StartPart(c) ==
  /\ cr[c].pc = "start"
  /\ LET n == Parts(c)[cr[c].i].node
         id == Id(c, cr[c].i)
         new == [id |-> id, by |-> c, ready |-> FALSE]
         taken == \E p \in procs[n] : p.id = id
         started == procs' = [procs EXCEPT ![n] = @ \cup {new}]
         under == \E a \in Actors : td[a].pc = "stop" /\ td[a].cur.id = id /\ td[a].cur.node = n
     IN  /\ \/ Lost(c) /\ To(c, "giveback") /\ UNCHANGED <<procs, faults>>
            \/ ~Lost(c) /\ ~Reached(c, n) /\ To(c, "giveback") /\ UNCHANGED <<procs, faults>>
            \/ /\ ~Lost(c) /\ Reached(c, n)
               /\ \/ ~taken /\ started /\ To(c, "await") /\ UNCHANGED faults
                  \/ taken /\ To(c, "rollback") /\ UNCHANGED <<procs, faults>>
                  \/ Fault /\ To(c, "giveback") /\ ((~taken /\ started) \/ UNCHANGED procs)
         /\ late' = IF under THEN late \cup {c} ELSE late
  /\ UNCHANGED <<workers, rows, placed, busy, td, touched, cut>>

\* partGone: the worker has lost its row, or is another process than the one the
\* part was started on (the part is not to be found there, or was stopped).
PartGone(c) ==
  LET n == Parts(c)[cr[c].i].node
  IN  n \notin known \/ ~\E p \in procs[n] : p.id = Id(c, cr[c].i)

\* awaitWorkerReady: running; failed or past its ready timeout; gone; or the
\* create was told of the loss.
Await(c) ==
  /\ cr[c].pc = "await"
  /\ LET n == Parts(c)[cr[c].i].node
         ready(p) == IF p.id = Id(c, cr[c].i) THEN [p EXCEPT !.ready = TRUE] ELSE p
     IN  \/ /\ ~Lost(c) /\ ~PartGone(c) /\ To(c, "record") /\ UNCHANGED faults
            /\ procs' = [procs EXCEPT ![n] = {ready(p) : p \in @}]
         \/ /\ Lost(c) \/ PartGone(c)
            /\ To(c, "giveback") /\ UNCHANGED <<procs, faults>>
         \/ Fault /\ To(c, "giveback") /\ UNCHANGED procs
  /\ UNCHANGED <<workers, rows, placed, busy, td, hands>>

\* Shards().Create is an INSERT, under the create's context.
RecordPart(c) ==
  /\ cr[c].pc = "record"
  /\ LET r == Row(c, cr[c].i)
     IN  IF Lost(c) \/ \E x \in rows : x.id = r.id
         THEN To(c, "giveback") /\ UNCHANGED rows
         ELSE /\ rows' = rows \cup {r}
              /\ cr' = [cr EXCEPT ![c].made = @ \cup {r}, ![c].i = @ + 1,
                                  ![c].pc = IF cr[c].i = Len(Parts(c)) THEN "finish" ELSE "start"]
  /\ UNCHANGED <<workers, procs, placed, busy, td, faults, hands>>

\* The placement, then the deferred end of the formation and of the claim.
Finish(c) ==
  /\ cr[c].pc = "finish"
  /\ placed' = (placed \/ ~Lost(c))
  /\ busy' = busy \ {GangOf(c)}
  /\ cr' = [cr EXCEPT ![c].pc = "done", ![c].out = "ok"]
  /\ UNCHANGED <<workers, procs, rows, td, faults, hands>>

\* callWorkerStart's stop of the part that did not get ready, detached from the
\* create's context; it goes to the worker as it was read.
GiveBack(c) ==
  /\ cr[c].pc = "giveback" /\ To(c, "rollback")
  /\ LET n == Parts(c)[cr[c].i].node
     IN  \/ Reached(c, n) /\ Stop(n, Id(c, cr[c].i)) /\ UNCHANGED faults
         \/ ~Reached(c, n) /\ UNCHANGED <<procs, faults>>
         \/ Fault /\ UNCHANGED procs
  /\ UNCHANGED <<workers, rows, placed, busy, td, hands>>

\* rollback: the parts that were recorded are stopped on the worker their row
\* names now, one after another, then the rows as this create wrote them go.
RollbackStop(c) ==
  /\ cr[c].pc = "rollback"
  /\ \E r \in cr[c].made :
       /\ cr' = [cr EXCEPT ![c].made = @ \ {r}]
       /\ \/ r.node \in known /\ Stop(r.node, r.id) /\ UNCHANGED faults
          \/ r.node \notin known /\ UNCHANGED <<procs, faults>>
          \/ r.node \in known /\ Fault /\ UNCHANGED procs
  /\ UNCHANGED <<workers, rows, placed, busy, td, hands>>

\* Mutant: a create that failed keeps its claim.
RollbackKeepsClaim(c) ==
  /\ cr[c].pc = "rollback" /\ cr[c].made = {}
  /\ rows' = {r \in rows : r.by # c}
  /\ cr' = [cr EXCEPT ![c].pc = "done", ![c].out = "failed"]
  /\ UNCHANGED <<workers, procs, placed, busy, td, faults, hands>>

RollbackRows(c) ==
  /\ cr[c].pc = "rollback" /\ cr[c].made = {}
  /\ rows' = {r \in rows : r.by # c}
  /\ busy' = busy \ {GangOf(c)}
  /\ cr' = [cr EXCEPT ![c].pc = "done", ![c].out = "failed"]
  /\ UNCHANGED <<workers, procs, placed, td, faults, hands>>

-----------------------------------------------------------------------------
(* Teardowns                                                               *)

EndFormations(told) ==
  cr' = [c \in Creates |-> IF Forming(c) /\ c \in told THEN [cr[c] EXCEPT !.lost = TRUE] ELSE cr[c]]

\* RemoveGang, an operator's: neither a claim nor a word to a create under way.
RemoveGang(t) ==
  /\ td[t].pc = "idle" /\ Kind[t].what = "gang" /\ Of(Kind[t].gang) # {}
  /\ Reads(t, Of(Kind[t].gang), "next") /\ touched' = touched \cup Makers(Of(Kind[t].gang))
  /\ UNCHANGED <<workers, procs, rows, placed, busy, cr, faults, late, cut>>

\* RemoveSharded: every gang of the model.
RemoveSharded(t) ==
  /\ td[t].pc = "idle" /\ Kind[t].what = "model" /\ rows # {}
  /\ Reads(t, rows, "next") /\ touched' = touched \cup Makers(rows)
  /\ UNCHANGED <<workers, procs, rows, placed, busy, cr, faults, late, cut>>

\* RemoveShardsOn, after a worker's process changed: the list is read, then the
\* creates with a part there are ended, then each gang with a part there goes.
RemoveShardsOn(t) ==
  /\ td[t].pc = "idle" /\ Kind[t].what = "replaced" /\ boot[Kind[t].node] > 1
  /\ LET gone == {r.id[1] : r \in {x \in rows : x.node = Kind[t].node}}
         rs == {r \in rows : r.id[1] \in gone}
     IN  Reads(t, rs, "listed") /\ touched' = touched \cup Makers(rs)
  /\ UNCHANGED <<workers, procs, rows, placed, busy, cr, faults, late, cut>>

\* ReconcileNode: the gangs whose part the worker does not list.
ReconcileNode(t) ==
  /\ td[t].pc = "idle" /\ Kind[t].what = "reconcile" /\ Kind[t].node \in known
  /\ LET n == Kind[t].node
         gone == {r.id[1] : r \in {x \in rows : x.node = n /\ ~\E p \in procs[n] : p.id = x.id}}
         rs == {r \in rows : r.id[1] \in gone}
     IN  rs # {} /\ Reads(t, rs, "listed") /\ touched' = touched \cup Makers(rs)
  /\ UNCHANGED <<workers, procs, rows, placed, busy, cr, faults, late, cut>>

\* endFormationsOn, endFormationOf: after the list was read, before the stops.
EndCreates(t) ==
  /\ td[t].pc = "listed"
  /\ EndFormations({c \in Creates :
       IF Kind[t].what = "replaced" THEN Kind[t].node \in ToSet(Ask[c].workers)
       ELSE \E r \in td[t].read : r.id[1] = GangOf(c)})
  /\ td' = [td EXCEPT ![t].pc = "next"]
  /\ UNCHANGED <<workers, procs, rows, placed, busy, faults, hands>>

\* removeNode: the row goes, and the creates with a part there end.
RemoveNode(t) ==
  /\ td[t].pc = "idle" /\ Kind[t].what = "removed" /\ Kind[t].node \in known
  /\ known' = known \ {Kind[t].node}
  /\ EndFormations({c \in Creates : Kind[t].node \in ToSet(Ask[c].workers)})
  /\ td' = [td EXCEPT ![t].pc = "done"]
  /\ UNCHANGED <<boot, procs, rows, placed, busy, faults, hands>>

\* stopGangProcesses, before a stop on a worker: the worker is the one that was
\* there when the stops began, and the row is the one that was read.  A create
\* whose context is cancelled cannot read the node, and skips; or, cancelled just
\* then, the row, and stops as read.  A coordinator on the leader is stopped
\* without a look.
Check(a) ==
  /\ td[a].pc = "next"
  /\ \E r \in td[a].left, blind \in BOOLEAN :
       LET cancelled == a \in Creates /\ Lost(a)
           same == \/ r.node = Leader
                   \/ /\ r.node \in known /\ boot[r.node] = td[a].seen[r.node]
                      /\ IF cancelled THEN blind ELSE r \in rows
       IN  /\ blind => cancelled
           /\ td' = [td EXCEPT ![a].left = @ \ {r}, ![a].pc = IF same THEN "stop" ELSE "next", ![a].cur = IF same THEN r ELSE NoRow]
  /\ UNCHANGED <<workers, procs, rows, placed, busy, cr, faults, hands>>

StopPart(a) ==
  /\ td[a].pc = "stop" /\ td' = [td EXCEPT ![a].pc = "next", ![a].cur = NoRow]
  /\ \/ Stop(td[a].cur.node, td[a].cur.id) /\ UNCHANGED faults
     \/ td[a].cur.node # Leader /\ Fault /\ UNCHANGED procs
  /\ UNCHANGED <<workers, rows, placed, busy, cr, hands>>

\* DeleteRows, of the rows as they were read, or DeleteByModel, of all; and the
\* placement when no gang is left.  A cancelled create deletes nothing.
Delete(a) ==
  /\ td[a].pc = "next" /\ td[a].left = {}
  /\ td' = [td EXCEPT ![a] = [Idle EXCEPT !.pc = "done"]]
  /\ LET whole == IF a \in Creates THEN Bare(a) ELSE Kind[a].what = "model"
         kept == IF a \in Creates /\ Lost(a) THEN rows ELSE IF whole THEN {} ELSE rows \ td[a].read
     IN  /\ rows' = kept
         /\ placed' = (placed /\ (kept # {} \/ td[a].read = {}))
         /\ touched' = touched \cup Makers(rows \ kept)
         /\ cut' = cut \cup Makers((rows \ kept) \ td[a].read)
  /\ IF a \in Creates THEN To(a, "sweep") ELSE UNCHANGED cr
  /\ UNCHANGED <<workers, procs, busy, faults, late>>

\* The worker behind a node id is replaced: its processes die with it.
Replaced(n) ==
  /\ n \in known \ {Leader} /\ boot[n] < MaxBoots
  /\ boot' = [boot EXCEPT ![n] = @ + 1] /\ procs' = [procs EXCEPT ![n] = {}]
  /\ touched' = touched \cup {p.by : p \in procs[n]}
  /\ UNCHANGED <<known, rows, placed, busy, cr, td, faults, late, cut>>

-----------------------------------------------------------------------------

CreateStep(c) ==
  \/ Claim(c) \/ Pick(c) \/ Begin(c) \/ ReplacePrior(c) \/ Sweep(c) \/ SweepList(c) \/ SweepStop(c) \/ StartPart(c) \/ Await(c)
  \/ RecordPart(c) \/ Finish(c) \/ GiveBack(c) \/ RollbackStop(c) \/ RollbackRows(c)

TeardownStep(a) == Check(a) \/ StopPart(a) \/ Delete(a)

RemovalStep(t) == RemoveGang(t) \/ RemoveSharded(t) \/ RemoveShardsOn(t) \/ ReconcileNode(t) \/ RemoveNode(t)

Finished == /\ \A c \in Creates : cr[c].pc = "done"
            /\ \A a \in Actors : td[a].pc \in {"idle", "done"}
            /\ UNCHANGED vars

Next ==
  \/ \E c \in Creates : CreateStep(c)
  \/ \E a \in Actors : TeardownStep(a)
  \/ \E t \in Teardowns : RemovalStep(t) \/ EndCreates(t)
  \/ \E n \in Nodes : Replaced(n)
  \/ Finished

\* What has begun goes on: every call to a worker has a timeout.
Running ==
  \/ \E c \in Creates : CreateStep(c)
  \/ \E a \in Actors : TeardownStep(a)
  \/ \E t \in Teardowns : EndCreates(t)

Spec == Init /\ [][Next]_vars /\ WF_vars(Running)

-----------------------------------------------------------------------------
(* Properties *)

Quiet == /\ \A c \in Creates : cr[c].pc \in {"new", "done"}
         /\ \A a \in Actors : td[a].pc \in {"idle", "done"}

\* The rows of a gang were all written by one create: whatever creates, heals
\* and teardowns overlap, no gang is put together from the parts of two
\* (createGuard, replacePrior; "a part never spans gangs" of CreateSharded).
OneFormation == \A r, s \in rows : r.id[1] = s.id[1] => r.by = s.by

\* A create that reported the gang ready, and that no teardown, replace, sweep
\* or worker change has had a hand in since, has every part on record, and every
\* part on a worker running: teardowns that read the gang before it and stops
\* that are still queued leave it alone (stopGangProcesses, DeleteRows,
\* rollback).  Two windows the code leaves are left out: a part started between
\* the check of a stop of its id and that stop (late), and a coordinator on the
\* leader, which stopPart stops unchecked.
StaysFormed(c, Runs(_)) ==
  cr[c].out = "ok" /\ c \notin touched =>
    \A i \in DOMAIN Parts(c) :
      /\ Row(c, i) \in rows
      /\ Runs(i) => \E p \in procs[Parts(c)[i].node] : p.id = Id(c, i) /\ p.by = c
FormedStays ==
  \A c \in Creates : StaysFormed(c, LAMBDA i : c \notin late /\ Parts(c)[i].node # Leader)

\* The same with either window, which the code does not keep.
CoordinatorStays == \A c \in Creates \ late : StaysFormed(c, LAMBDA i : TRUE)
FormedAlwaysStays == \A c \in Creates : StaysFormed(c, LAMBDA i : Parts(c)[i].node # Leader)

\* Once nothing is under way and no call was lost, no process holds a worker's
\* card without a row to route or to stop it by: a failed create gives back
\* every part it started (callWorkerStart, rollback).  Left out are the gangs
\* formed while RemoveSharded was at its stops, whose rows DeleteByModel takes.
NoOrphan ==
  Quiet /\ faults = 0 =>
    \A n \in known : \A p \in procs[n] : p.by \in cut \/ \E r \in rows : r.id = p.id

\* Every create ends, and with it the claim that refuses other creates of the
\* gang: a part whose worker went away does not keep it waiting (partlost.go).
AllEnded == busy = {} /\ \A c \in Creates : cr[c].pc = "done"

\* createGuard: "a bare create excludes every create of the model, and is
\* excluded by any" (sharding.go).
BareCreateExcludes ==
  \A c, d \in Creates : c # d /\ Bare(c) => ~(Forming(c) /\ Forming(d))
=============================================================================
