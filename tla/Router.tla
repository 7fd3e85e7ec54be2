------------------------------- MODULE Router -------------------------------
(***************************************************************************)
(* The leader's request router (internal/router): Chat and the unary       *)
(* operations (embeddings, reranking), from the caller's request to the    *)
(* end of its stream.                                                      *)
(*                                                                         *)
(* A request walks a chain of models.  For each it picks a target (a gang, *)
(* the leader's own engine or a worker), dispatches to it, and on failure  *)
(* retries it, asks the next worker, or moves to the next model.  All      *)
(* requests share the router's maps: in-flight counts, cooldowns, failure  *)
(* strikes, pins and cached connections.  Between the moment a request     *)
(* reads a worker's row and the moment it dials it, other requests and the *)
(* fleet (heartbeats, drains, registrations, removals) take steps.         *)
(*                                                                         *)
(* Time is abstracted: a cooldown, pin or failing pair may expire at any   *)
(* moment.  Latency statistics are any of P95s when a request starts.      *)
(***************************************************************************)
EXTENDS Integers, Sequences, FiniteSetsExt, Functions, TLC

(***************************************************************************)
(* The pure decisions of the leader's router (internal/router): which      *)
(* models a request may be served by and in what order, which workers of   *)
(* a model may take it, and how those workers are ranked.                  *)
(*                                                                         *)
(* Scores, which the code keeps as floating-point numbers, are integers in *)
(* hundredths of a request: one request in flight or one queued is 100,    *)
(* kvWeight (a whole number here) times the KV cache's used percentage is  *)
(* added as it is, and a block of a cached prefix is worth 10, 8 or 5      *)
(* tenths of blockWeight.                                                  *)
(***************************************************************************)

\* sort.SliceStable: position i is taken by the element that exactly i - 1
\* others come before, equal elements keeping their order.
StableSort(s, Before(_, _)) ==
  [i \in DOMAIN s |->
     s[CHOOSE j \in DOMAIN s :
         Cardinality({k \in DOMAIN s : \/ Before(s[k], s[j])
                                       \/ ~Before(s[j], s[k]) /\ k < j}) = i - 1]]

-----------------------------------------------------------------------------
(* Fallback chains.                                                        *)

MaxRetries == 5
RetryBackoffCapMS == 5000

\* Overrides.Clamp: what a caller may ask of one request.
Clamp(o) ==
  [o EXCEPT !.retries = IF @ < 0 THEN 0 ELSE IF @ > MaxRetries THEN MaxRetries ELSE @,
            !.backoff = IF @ < 0 THEN 0 ELSE IF @ > RetryBackoffCapMS THEN RetryBackoffCapMS ELSE @,
            !.sort = IF @ \in {"latency", "throughput"} THEN @ ELSE ""]

\* waitBackoff's delay before the given retry: it doubles, up to the cap.
\* The first delay is the caller's own; the loop tests the cap after doubling.
Backoff(retry, initial) ==
  LET doubled[k \in 1 .. MaxRetries] ==
        IF k = 1 THEN initial
        ELSE IF doubled[k - 1] * 2 > RetryBackoffCapMS THEN RetryBackoffCapMS
             ELSE doubled[k - 1] * 2
  IN  IF initial <= 0 THEN 0 ELSE doubled[retry]

\* ClassifyError: the class of a failure that has a chain of its own.
ClassifyError(err) ==
  IF err \in {"context", "policy"} THEN err ELSE "generic"

\* FallbackChains.PickFor: the class's chain, or the generic one when empty.
PickFor(chains, class) ==
  CASE class = "context" /\ chains.context # <<>> -> chains.context
    [] class = "policy" /\ chains.policy # <<>> -> chains.policy
    [] OTHER -> chains.generic

\* applyCap: at most limit fallbacks after the primary; 0 is no limit.
ApplyCap(chain, limit) ==
  IF limit > 0 /\ Len(chain) > limit + 1 THEN SubSeq(chain, 1, limit + 1) ELSE chain

\* chainFor: the caller's own list replaces the catalogue's and is not capped.
ChainFor(model, fallbacks, chains, limit) ==
  IF fallbacks # <<>> THEN <<model>> \o fallbacks
  ELSE ApplyCap(<<model>> \o chains.generic, limit)

\* maybeSwapTypedChain: once an error has shown its class, what follows the
\* candidate that failed (index i) is the class's chain.
MaybeSwapTypedChain(chain, chains, err, i, limit) ==
  LET typed == PickFor(chains, ClassifyError(err))
  IN  IF ClassifyError(err) = "generic" \/ typed = <<>> \/ typed = chains.generic
      THEN chain
      ELSE ApplyCap(SubSeq(chain, 1, i) \o typed, limit)

-----------------------------------------------------------------------------
(* Latency statistics (latency.go) and the orders made from them.          *)

\* newRingBuf, push and snapshot: data is a window of the last samples.
NewRing(n) == [data |-> [i \in 1 .. n |-> 0], head |-> 1, full |-> FALSE]

RingPush(r, d) ==
  LET wraps == r.head = Len(r.data)
  IN  [data |-> [r.data EXCEPT ![r.head] = d],
       head |-> IF wraps THEN 1 ELSE r.head + 1,
       full |-> r.full \/ wraps]

RingSnapshot(r) ==
  IF r.full THEN SubSeq(r.data, r.head, Len(r.data)) \o SubSeq(r.data, 1, r.head - 1)
  ELSE SubSeq(r.data, 1, r.head - 1)

Ascending(xs) == StableSort(xs, LAMBDA a, b : a < b)

\* p95 and throughput: no opinion (0) below five samples.
\* Mutant: the rank rounded down.
P95Below(xs) == IF Len(xs) < 5 THEN 0 ELSE Ascending(xs)[(95 * Len(xs)) \div 100]

P95(xs) == IF Len(xs) < 5 THEN 0 ELSE Ascending(xs)[(95 * Len(xs) + 99) \div 100]

Throughput(xs) == IF Len(xs) < 5 THEN 0 ELSE Ascending(xs)[Len(xs) \div 2 + 1]

\* reorderByLatency: a primary slower than the threshold gives way to the
\* fastest measured member that is strictly faster; the others keep order.
ReorderByLatency(chain, p95, threshold) ==
  LET best == {i \in 2 .. Len(chain) :
                 /\ p95[chain[i]] > 0 /\ p95[chain[i]] < p95[chain[1]]
                 /\ \A j \in 2 .. Len(chain) :
                      p95[chain[j]] > 0 => \/ p95[chain[i]] < p95[chain[j]]
                                           \/ p95[chain[i]] = p95[chain[j]] /\ i <= j}
  IN  IF threshold <= 0 \/ Len(chain) < 2 \/ p95[chain[1]] <= threshold \/ best = {}
      THEN chain
      ELSE LET b == CHOOSE i \in best : TRUE
           IN  <<chain[b]>> \o (SubSeq(chain, 1, b - 1) \o SubSeq(chain, b + 1, Len(chain)))

\* sortChain: the whole chain by a statistic; an unmeasured model is last.
SortChain(chain, mode, p95, tps) ==
  CASE mode = "latency" ->
         StableSort(chain, LAMBDA a, b : p95[a] > 0 /\ (p95[b] = 0 \/ p95[a] < p95[b]))
    [] mode = "throughput" -> StableSort(chain, LAMBDA a, b : tps[a] > tps[b])
    [] OTHER -> chain

-----------------------------------------------------------------------------
(* Ranking.                                                                *)

\* loadRank: in-flight requests, the engine's own queue, and its KV pressure.
\* signal is a record of a load report or has known = FALSE.
LoadRank(inflight, slots, signal, kvWeight, kvSaturation) ==
  CASE slots > 0 /\ inflight >= slots -> [saturated |-> TRUE, score |-> 100 * inflight]
    [] ~signal.known -> [saturated |-> FALSE, score |-> 100 * inflight]
    [] OTHER -> [saturated |-> kvSaturation > 0 /\ signal.kv >= kvSaturation,
                 score |-> 100 * (inflight + signal.queue) + kvWeight * signal.kv]

\* The order of two ranks: unsaturated before saturated, then the lower score.
Lighter(a, b) ==
  IF a.saturated # b.saturated THEN ~a.saturated ELSE a.score < b.score

\* preferNode, as pick uses it (the first of what it returns): the pinned node
\* when it is among the workers, else what came first without the pin.
PreferNode(workers, node, first) == IF node \in workers THEN {node} ELSE first

-----------------------------------------------------------------------------
CONSTANTS Nodes, Gangs, Models, Requests,
          Placed,      \* model -> its ready placements, in the store's order
          LocalHas,    \* models the leader's own engine serves
          GangsOf,     \* model -> its gangs, in id order
          Coordinator, Ranks, \* gang -> its coordinator's node; its other nodes
          Role, Revision, Peer, Slots, Signal, Defaults, \* what nodes report
          Weights, Chains, Cap, P95s, Threshold, \* routing configuration
          AllowedFails, HedgeReplicas, Affinity, BlockWeight, KVWeight, KVSaturation,
          Call,        \* request -> what its caller asked for
          Answers,     \* target -> how its engine may answer a call
          Events,      \* what the fleet may do: "status", "register", "remove", "expire", "reshape"
          Movers,      \* the workers it happens to
          Statuses,    \* states a worker may come to be in
          Changes      \* bound on the fleet's changes

Local == "local"
None == "none"
Targets == Nodes \cup Gangs \cup {Local}
NoRemote == 0
TurnCycle == 2 \* a multiple of the size of any tie: exact for up to two gangs

VARIABLES
  row,        \* node -> its row in the store: status and address
  forgetting, \* nodes whose new row is written and ForgetRemote is due
  remotes,    \* target -> address its cached connection dials, or NoRemote
  inflight,   \* target -> live requests
  dim,        \* <<target, model>> -> live requests (drains wait on it)
  cooling,    \* nodes in the penalty box
  fails,      \* node -> consecutive failures
  sticky,     \* <<user, model>> -> pinned node or None
  pins,       \* <<prefix key, model>> -> pinned node or None
  pdFailing,  \* <<prefill, decode>> pairs whose handoff failed
  turn,       \* gangTurn
  gone,       \* requests whose client has left
  changes,    \* the fleet's changes so far
  wiped,      \* nodes InvalidateNode has forgotten while calls were open
  steady,     \* request -> workers that took requests ever since it began
  req         \* request -> where it stands

fleet == <<row, forgetting, changes, wiped>>
counts == <<inflight, dim>>
memory == <<cooling, fails, sticky, pins, pdFailing, turn>>
vars == <<row, forgetting, remotes, inflight, dim, cooling, fails, sticky, pins,
          pdFailing, turn, gone, changes, wiped, steady, req>>

NoLegs == [n \in Nodes \cup {Local} |-> "none"]
Fresh == [pc |-> "new", chain |-> <<>>, i |-> 1, retry |-> 0, node |-> None,
          addr |-> 0, kv |-> None, prefill |-> <<>>, skipped |-> {},
          rev |-> [m \in Models |-> 0], gangless |-> {}, last |-> None,
          classified |-> FALSE, legs |-> NoLegs]

\* What the store, the catalogue and the callers' requests are made of.  A model
\* is sharded or placed on single workers, not both: pick answers for a sharded
\* one without looking at placements.
Configured ==
  /\ None \notin Targets /\ Local \notin Nodes \cup Gangs
  /\ Cap \in Nat /\ \A p95 \in P95s, m \in Models : p95[m] \in Nat
  /\ \A m \in Models :
       /\ Range(Placed[m]) \subseteq Nodes /\ Range(GangsOf[m]) \subseteq Gangs
       /\ GangsOf[m] = <<>> \/ Placed[m] = <<>>
       /\ {Chains[m].generic, Chains[m].context, Chains[m].policy} \subseteq Seq(Models)
  /\ \A q \in Requests : Call[q].model \in Models /\ Call[q].fallbacks \in Seq(Models)
  /\ \A t \in Targets : "served" \notin Answers[t]

Users == {Call[q].user : q \in Requests}
Keys == UNION {Range(Call[q].prefix) : q \in Requests}

Init ==
  /\ row = [n \in Nodes |-> [status |-> "ready", addr |-> 1]]
  /\ forgetting = {} /\ changes = 0 /\ wiped = {}
  /\ remotes = [t \in Targets |-> NoRemote]
  /\ inflight = [t \in Targets |-> 0]
  /\ dim = [tm \in Targets \X Models |-> 0]
  /\ cooling = {} /\ fails = [n \in Nodes |-> 0]
  /\ sticky = [um \in Users \X Models |-> None]
  /\ pins = [km \in Keys \X Models |-> None]
  /\ pdFailing = {} /\ turn = 0 /\ gone = {}
  /\ steady = [q \in Requests |-> Nodes]
  /\ req = [q \in Requests |-> Fresh]

-----------------------------------------------------------------------------
(* Filters over the workers that may take a request.                       *)

\* decodeOnly: a worker of the prefill role serves whole requests only when
\* no candidate has the decode role.
DecodeOnly(workers) ==
  IF \E w \in workers : Role[w] = "decode"
  THEN {w \in workers : Role[w] # "prefill"} ELSE workers

\* chooseRevision's outcomes: any weighted revision that has a live worker,
\* when there are two such; 0 is "no split".
ChooseRevision(weights, live) ==
  LET candidates == {w.revision : w \in {x \in Range(weights) : x.weight > 0 /\ x.revision \in live}}
  IN  IF Cardinality(candidates) < 2 THEN {0} ELSE candidates

\* pickRevisionGroup's outcomes: pairs of the revision the request is now
\* assigned to (0: none) and the workers that are left.
PickRevisionGroup(weights, workers, assigned) ==
  LET live == {Revision[w] : w \in workers}
      of(rev) == {w \in workers : Revision[w] = rev}
  IN  CASE weights = <<>> -> {<<assigned, workers>>}
        [] weights # <<>> /\ assigned # 0 /\ assigned \in live -> {<<assigned, of(assigned)>>}
        [] OTHER -> IF Cardinality(workers) < 2 THEN {<<assigned, workers>>}
                    ELSE {IF rev = 0 THEN <<assigned, workers>> ELSE <<rev, of(rev)>> :
                            rev \in ChooseRevision(weights, live)}

\* blockCredits: how much of the request's prefix each candidate holds on its
\* card, in host memory beyond that, and (for a candidate whose KV tier is
\* "peer") beyond that again on the best OTHER peer candidate.
BlockCredits(ids, held, heldCPU, weight) ==
  [id \in ids |->
     LET others == {held[o] : o \in (ids \cap Peer) \ {id}} \cup {0}
         most   == CHOOSE m \in others : \A o \in others : o <= m
         over(x) == IF x > held[id] THEN x - held[id] ELSE 0
         cpu    == over(heldCPU[id])
         peer   == IF id \in Peer THEN over(most) ELSE 0
     IN  [credit |-> weight * (10 * held[id] + 8 * cpu + 5 * peer),
          warm   |-> held[id] + cpu + peer > 0]]

-----------------------------------------------------------------------------
(* The shared maps.                                                        *)

Worker(t) == t \in Nodes
Decoders == {n \in Nodes : Role[n] = "decode"}

IncInflight(t, m) ==
  /\ inflight' = [inflight EXCEPT ![t] = @ + 1]
  /\ dim' = [dim EXCEPT ![<<t, m>>] = @ + 1]

DecInflight(t, m) ==
  /\ inflight' = [inflight EXCEPT ![t] = IF @ > 0 THEN @ - 1 ELSE 0]
  /\ dim' = [dim EXCEPT ![<<t, m>>] = IF @ > 0 THEN @ - 1 ELSE 0]

\* recordOutcome: a success clears the strikes and the penalty box, a failure
\* is a strike, and AllowedFails strikes in a row put the worker in the box.
\* setAside: a worker that gave a request nothing; never a gang or local.
Struck(t) == Worker(t) /\ AllowedFails > 0
Boxed(t) == Struck(t) /\ fails[t] + 1 >= AllowedFails

RecordSuccess(t) ==
  /\ cooling' = cooling \ {t}
  /\ fails' = [n \in Nodes |-> IF n = t THEN 0 ELSE fails[n]]

RecordFailure(t, strike, aside) ==
  /\ cooling' = IF (strike /\ Boxed(t)) \/ (aside /\ Worker(t)) THEN cooling \cup {t} ELSE cooling
  /\ fails' = IF strike /\ Struck(t)
              THEN [fails EXCEPT ![t] = IF Boxed(t) THEN 0 ELSE @ + 1] ELSE fails

\* getOrCreateRemote: the first to ask decides the address that is dialled.
GetOrCreateRemote(t, addr) ==
  remotes' = [remotes EXCEPT ![t] = IF @ = NoRemote THEN addr ELSE @]

Dialled(t, addr) == IF t = Local \/ remotes[t] = NoRemote THEN addr ELSE remotes[t]

\* rememberSticky and rememberPrefix, after a stream opened (chat) or an
\* answer came (unary, which pins no prefix).
RememberSticky(q, m, t) ==
  sticky' = IF Call[q].user = None \/ m = "auto" THEN sticky
            ELSE [sticky EXCEPT ![<<Call[q].user, m>>] = t]

RememberPrefix(q, m, t) ==
  pins' = IF Affinity
          THEN [km \in DOMAIN pins |->
                  IF km \in Range(Call[q].prefix) \X {m} THEN t ELSE pins[km]]
          ELSE pins

-----------------------------------------------------------------------------
(* pick: from a model to a target.                                         *)

Candidate(q) == req[q].chain[req[q].i]

\* takesRequests but for the cooldown, and with it.
Serves(n) == row[n].status = "ready"
TakesRequests(n) == Serves(n) /\ n \notin cooling

\* Mutant: the workers in the penalty box are preferred to the others.
TakingCoolingFirst(ps) ==
  LET boxed == {n \in ps : Serves(n) /\ n \in cooling}
  IN  IF boxed # {} THEN boxed ELSE {n \in ps : Serves(n)}

\* takingRequests: a cooling worker is used only when no other takes requests.
TakingRequests(ps) ==
  LET out == {n \in ps : TakesRequests(n)}
  IN  IF out = {} THEN {n \in ps : Serves(n)} ELSE out

SlotsFull(t) == Slots[t] > 0 /\ inflight[t] >= Slots[t]

Rank(t) ==
  LoadRank(inflight[t], Slots[t], Signal[IF t \in Gangs THEN Coordinator[t] ELSE t],
           KVWeight, KVSaturation)

\* shardGroupRoutable: every rank takes part work, the head takes new work.
ShardGroupRoutable(g) ==
  /\ Serves(Coordinator[g])
  /\ \A n \in Ranks[g] : row[n].status \in {"ready", "silent", "stopped"}

\* shardCoordinator: the least loaded routable gang this request has not been
\* failed by; equally loaded ones take turns.
Routable(m) == {g \in Range(GangsOf[m]) : ShardGroupRoutable(g)}
ReadyGangs(q, m) == Routable(m) \ req[q].skipped
SkipsAGang(q, m) == \E g \in Routable(m) : g \in req[q].skipped
TiedGangs(q, m) ==
  {g \in ReadyGangs(q, m) : \A h \in ReadyGangs(q, m) : ~Lighter(Rank(h), Rank(g))}

\* Where x stands in the order of the store.
PlaceIn(s, x) == CHOOSE i \in DOMAIN s : s[i] = x

\* The gang whose turn it is: gangTurn counts through the tied ones.
ShardCoordinator(q, m) ==
  LET tied == TiedGangs(q, m)
      before(g) == {h \in tied : PlaceIn(GangsOf[m], h) < PlaceIn(GangsOf[m], g)}
  IN  {g \in tied : Cardinality(before(g)) = turn % Cardinality(tied)}

\* withoutSkipped: not the workers that gave this request nothing.
WithoutSkipped(q, ws) == ws \ req[q].skipped

\* prefixPick: the pin of the longest prefix whose worker is usable.
PrefixPick(q, m, usable) ==
  LET keys == {k \in DOMAIN Call[q].prefix : pins[<<Call[q].prefix[k], m>>] \in usable}
  IN  IF keys = {} THEN None ELSE pins[<<Call[q].prefix[Max(keys)], m>>]

\* stickyPick: the node the caller's user is pinned to.
StickyPick(q, m) == IF Call[q].user = None THEN None ELSE sticky[<<Call[q].user, m>>]

\* The worker that is asked: the caller's own pin, else the prefix pin, else
\* the one of least load less the credit for the prefix blocks it holds, the
\* store's order deciding between equals.
Ranked(q, m, workers) ==
  LET credit == BlockCredits(workers, Call[q].held, Call[q].heldCPU, BlockWeight)
      rank   == [n \in workers |-> [Rank(n) EXCEPT !.score = @ - credit[n].credit]]
      before(a, b) == \/ Lighter(rank[a], rank[b])
                      \/ ~Lighter(rank[b], rank[a]) /\ PlaceIn(Placed[m], a) < PlaceIn(Placed[m], b)
      first  == {n \in workers : \A o \in workers : ~before(o, n)}
      warm   == BlockWeight > 0 /\ \E n \in workers : credit[n].warm
      usable == {n \in workers : ~rank[n].saturated /\ ~SlotsFull(n)}
      pinned == IF warm \/ ~Affinity THEN first
                ELSE PreferNode(workers, PrefixPick(q, m, usable), first)
      mine   == StickyPick(q, m)
  IN  IF mine \in Targets /\ ~SlotsFull(mine) THEN PreferNode(workers, mine, pinned) ELSE pinned

\* pick's outcomes.  A client that has left makes every store read fail, and
\* then the leader's own engine is the answer.
Picks(q, m) ==
  LET here  == [node |-> Local, addr |-> 0, rev |-> req[q].rev[m]]
      none  == [here EXCEPT !.node = None]
      ws    == TakingRequests(Range(Placed[m]))
      left  == WithoutSkipped(q, ws)
      groups == PickRevisionGroup(Weights, DecodeOnly(left), req[q].rev[m])
      gang(g) == [node |-> g, addr |-> row[Coordinator[g]].addr, rev |-> req[q].rev[m]]
  IN  CASE q \in gone -> IF m \in req[q].gangless THEN {none} ELSE {here}
        [] q \notin gone /\ ReadyGangs(q, m) # {} -> {gang(g) : g \in ShardCoordinator(q, m)}
        [] q \notin gone /\ ReadyGangs(q, m) = {} ->
             CASE m \in req[q].gangless \/ SkipsAGang(q, m) -> {none}
               [] ~(m \in req[q].gangless \/ SkipsAGang(q, m)) /\ (m \in LocalHas \/ ws = {}) -> {here}
               [] OTHER ->
                    IF left = {} THEN {none}
                    ELSE UNION {{[node |-> n, addr |-> row[n].addr, rev |-> g[1]] :
                                   n \in Ranked(q, m, g[2])} : g \in groups}

-----------------------------------------------------------------------------
(* The walk of one request.                                                *)

\* The next candidate, or the end of the chain: every candidate failed.
Advance(r) ==
  IF r.i < Len(r.chain) THEN [r EXCEPT !.pc = "pick", !.i = @ + 1, !.retry = 0, !.node = None]
  ELSE [r EXCEPT !.pc = "done", !.node = None]

\* The chain in the order it is walked: the caller's sort, else the latency
\* rule for a chain that came from the catalogue.
Ordered(c, p95) ==
  LET chain == ChainFor(c.model, c.fallbacks, Chains[c.model], Cap)
  IN  CASE c.sort # "" -> SortChain(chain, c.sort, p95, p95)
        [] c.sort = "" /\ c.fallbacks = <<>> -> ReorderByLatency(chain, p95, Threshold)
        [] OTHER -> chain

\* hedgePickWorkers: the first HedgeReplicas workers, least loaded first, that
\* take requests (sort.Slice: ties in any order).
HedgeSets(m) ==
  LET able == {n \in Range(Placed[m]) : TakesRequests(n)} \cup (IF m \in LocalHas THEN {Local} ELSE {})
  IN  {S \in SUBSET able :
         /\ Cardinality(S) <= HedgeReplicas
         /\ Cardinality(S) < HedgeReplicas => S = able
         /\ \A n \in S, o \in able \ S : inflight[n] <= inflight[o]}

\* Chat and unary up to the loop: the hedged path when it is asked for and two
\* workers can take part, else the chain and its order.
Begin(q) ==
  /\ req[q].pc = "new"
  /\ LET c == Call[q]
         hedged == IF c.hedge /\ HedgeReplicas > 1 /\ c.op = "chat"
                   THEN HedgeSets(c.model) ELSE {{}}
     IN  \E S \in hedged, p95 \in P95s :
        /\ remotes' = [t \in Targets |-> IF t \in S \cap Nodes /\ remotes[t] = NoRemote
                                        THEN row[t].addr ELSE remotes[t]]
        /\ req' = [req EXCEPT ![q] =
             IF Cardinality(S) >= 2
             THEN [Fresh EXCEPT !.pc = "hedge", !.chain = <<c.model>>,
                                !.legs = [n \in DOMAIN NoLegs |-> IF n \in S THEN "start" ELSE "none"]]
             ELSE [Fresh EXCEPT !.pc = "pick", !.chain = Ordered(c, p95)]]
  /\ UNCHANGED <<counts, memory, gone, fleet>>

\* r.pick, up to the rows it read; noWorkerLeft moves to the next candidate.
Pick(q) ==
  /\ req[q].pc = "pick"
  /\ LET m == Candidate(q)
     IN  \E p \in Picks(q, m) :
           /\ req' = [req EXCEPT ![q] =
                LET r == [req[q] EXCEPT !.rev[m] = p.rev,
                            !.gangless = IF q \notin gone /\ SkipsAGang(q, m) THEN @ \cup {m} ELSE @]
                IN  IF p.node = None THEN Advance([r EXCEPT !.last = "noworker"])
                    ELSE [r EXCEPT !.pc = "dispatch", !.node = p.node, !.addr = p.addr]]
           /\ turn' = IF p.node \in Gangs /\ Cardinality(TiedGangs(q, m)) > 1
                      THEN (turn + 1) % TurnCycle ELSE turn
  /\ UNCHANGED <<remotes, counts, cooling, fails, sticky, pins, pdFailing, gone, fleet>>

\* The connection is taken from the cache or made, and the call counted.  A
\* unary operation the engine does not offer moves to the next candidate.
Dispatch(q) ==
  /\ req[q].pc = "dispatch"
  /\ LET t == req[q].node
         unsupported == Call[q].op = "unary" /\ "nooperation" \in Answers[t]
     IN  /\ IF t = Local THEN UNCHANGED remotes ELSE GetOrCreateRemote(t, req[q].addr)
         /\ IF unsupported
            THEN /\ req' = [req EXCEPT ![q] = Advance([@ EXCEPT !.last = "unsupported"])]
                 /\ UNCHANGED counts
            ELSE /\ IncInflight(t, Candidate(q))
                 /\ req' = [req EXCEPT ![q] =
                      [req[q] EXCEPT !.addr = Dialled(t, @),
                                     !.pc = IF Call[q].op = "chat" /\ t \in Decoders THEN "handoff" ELSE "call"]]
  /\ UNCHANGED <<memory, gone, fleet>>

\* penaltyBlocksSplit, TRUE when it does: a repetition penalty other than 1,
\* the caller's or else a default of the decoding engine.  Asking the engine
\* may fail, which blocks the split this time and is not cached.
PenaltyBlocksSplit(q, d) ==
  IF Call[q].penalty = "unset" THEN {TRUE, Defaults[d] # "one"} ELSE {Call[q].penalty # "one"}

\* prefillHandoff: the prefill workers to try, least loaded first, when the
\* picked worker only decodes.
PrefillWorkers(q) ==
  LET ps == Placed[Candidate(q)]
      ws == TakingRequests(Range(ps))
      d  == req[q].node
      able == SelectSeq(ps, LAMBDA n : /\ n \in WithoutSkipped(q, ws) /\ Role[n] = "prefill"
                                       /\ <<n, d>> \notin pdFailing)
      s  == StableSort(able, LAMBDA a, b : Lighter(Rank(a), Rank(b)))
  IN  IF q \in gone \/ d \notin ws \cap Decoders THEN <<>>
      ELSE SubSeq(s, 1, IF Len(s) < 2 THEN Len(s) ELSE 2)

\* The first prefill call, or none: the whole request goes to the target.  To
\* read the defaults is to dial the decoding worker.
Handoff(q) ==
  /\ req[q].pc = "handoff"
  /\ LET ps == PrefillWorkers(q)
         d  == req[q].node
         asked == IF ps # <<>> /\ Call[q].penalty = "unset" THEN {d} ELSE {}
         Dial(ts) == remotes' = [t \in Targets |->
           IF t \in ts /\ remotes[t] = NoRemote THEN row[t].addr ELSE remotes[t]]
     IN  \/ /\ ps = <<>> \/ TRUE \in PenaltyBlocksSplit(q, d)
            /\ req' = [req EXCEPT ![q] = [@ EXCEPT !.pc = "call", !.kv = None]]
            /\ Dial(asked)
            /\ UNCHANGED counts
         \/ /\ ps # <<>> /\ FALSE \in PenaltyBlocksSplit(q, d)
            /\ req' = [req EXCEPT ![q] = [@ EXCEPT !.pc = "prefill", !.prefill = ps]]
            /\ IncInflight(ps[1], Candidate(q))
            /\ Dial(asked \cup {ps[1]})
  /\ UNCHANGED <<memory, gone, fleet>>

\* The prefill worker's answer: its cache handle goes into the decode call,
\* else the next prefill worker is asked, else the request is served whole.
PrefillAnswers(q) ==
  /\ req[q].pc = "prefill"
  /\ LET p == req[q].prefill[1]
         rest == Tail(req[q].prefill)
         m == Candidate(q)
     IN  \/ /\ "ok" \in Answers[p] /\ q \notin gone
            /\ DecInflight(p, m)
            /\ req' = [req EXCEPT ![q] = [@ EXCEPT !.pc = "call", !.kv = p, !.prefill = <<>>]]
            /\ UNCHANGED remotes
         \/ /\ rest = <<>>
            /\ DecInflight(p, m)
            /\ req' = [req EXCEPT ![q] = [@ EXCEPT !.pc = "call", !.prefill = <<>>]]
            /\ UNCHANGED remotes
         \/ /\ rest # <<>>
            /\ inflight' = [[inflight EXCEPT ![p] = IF @ > 0 THEN @ - 1 ELSE 0] EXCEPT ![rest[1]] = @ + 1]
            /\ dim' = [[dim EXCEPT ![<<p, m>>] = IF @ > 0 THEN @ - 1 ELSE 0] EXCEPT ![<<rest[1], m>>] = @ + 1]
            /\ req' = [req EXCEPT ![q].prefill = rest]
            /\ GetOrCreateRemote(rest[1], row[rest[1]].addr)
  /\ UNCHANGED <<memory, gone, fleet>>

\* The stream opened and its first event was read (chat), or the answer came.
Succeeds(q) ==
  /\ req[q].pc = "call"
  /\ "ok" \in Answers[req[q].node]
  /\ LET t == req[q].node
         m == Candidate(q)
         chat == Call[q].op = "chat"
     IN  /\ IF chat THEN UNCHANGED counts ELSE DecInflight(t, m)
         /\ RecordSuccess(t)
         /\ RememberSticky(q, m, t)
         /\ IF chat THEN RememberPrefix(q, m, t) ELSE UNCHANGED pins
         /\ req' = [req EXCEPT ![q] =
              [@ EXCEPT !.pc = IF chat THEN "stream" ELSE "done", !.last = "served"]]
  /\ UNCHANGED <<remotes, pdFailing, turn, gone, fleet>>

\* A decode call that carried a cache handle failed: the pair is remembered as
\* failing and the same worker is asked for the whole request.
HandoffFails(q) ==
  /\ req[q].pc = "call" /\ req[q].kv # None /\ q \notin gone
  /\ pdFailing' = pdFailing \cup {<<req[q].kv, req[q].node>>}
  /\ req' = [req EXCEPT ![q].kv = None]
  /\ UNCHANGED <<remotes, counts, cooling, fails, sticky, pins, turn, gone, fleet>>

\* What a failing call leaves behind: a client that has left makes the dial
\* itself fail, whatever the engine would have said.
Failures(q) ==
  IF q \in gone THEN {"unreachable"} ELSE Answers[req[q].node] \ {"ok", "nooperation"}

\* tryNextWorker: a target that answered nothing is skipped for the rest of
\* the request and the same candidate is picked for again.  An answer that is
\* a refusal is not replayed: the next candidate follows, after the first
\* failure the one its class names.
NothingAnswered(q, err) == err = "unreachable" /\ req[q].node # Local

\* Mutant: the worker that gave nothing is not remembered as skipped.
AfterFailureUnskipped(q, err) ==
  LET r == [req[q] EXCEPT !.last = err, !.kv = None]
  IN  IF NothingAnswered(q, err)
      THEN [r EXCEPT !.pc = "pick", !.node = None, !.retry = 0] ELSE Advance(r)

AfterFailure(q, err) ==
  LET r == [req[q] EXCEPT !.last = err, !.kv = None]
  IN  IF NothingAnswered(q, err)
      THEN [r EXCEPT !.pc = "pick", !.skipped = @ \cup {r.node}, !.node = None, !.retry = 0]
      ELSE IF r.classified \/ Call[q].fallbacks # <<>> THEN Advance(r)
      ELSE Advance([r EXCEPT !.classified = TRUE,
             !.chain = MaybeSwapTypedChain(@, Chains[Call[q].model], err, r.i, Cap)])

\* A failed call: it is uncounted and is a strike (an unsupported request is
\* none in Chat); it is tried again while retries are left, and then the
\* worker that gave nothing is set aside.
Fails(q) ==
  /\ req[q].pc = "call"
  /\ req[q].kv = None \/ q \in gone
  /\ \E err \in Failures(q) :
       LET again == req[q].retry < Call[q].retries
       IN  /\ DecInflight(req[q].node, Candidate(q))
           /\ RecordFailure(req[q].node, ~(Call[q].op = "chat" /\ err = "unsupported"),
                            ~again /\ NothingAnswered(q, err))
           /\ req' = [req EXCEPT ![q] =
                IF again THEN [req[q] EXCEPT !.pc = "retry", !.retry = @ + 1, !.last = err, !.kv = None]
                ELSE AfterFailure(q, err)]
  /\ UNCHANGED <<remotes, sticky, pins, pdFailing, turn, gone, fleet>>

\* waitBackoff, then the same target again; a client gone meanwhile ends it.
Retry(q) ==
  /\ req[q].pc = "retry"
  /\ IF q \in gone /\ Call[q].backoff > 0
     THEN /\ req' = [req EXCEPT ![q] = AfterFailure(q, "cancelled")]
          /\ UNCHANGED counts
     ELSE /\ req' = [req EXCEPT ![q].pc = "call"]
          /\ IncInflight(req[q].node, Candidate(q))
  /\ UNCHANGED <<remotes, memory, gone, fleet>>

\* The stream's end, or its client's: the goroutine's deferred decrement.
StreamEnds(q) ==
  /\ req[q].pc = "stream" /\ req[q].legs = NoLegs
  /\ DecInflight(req[q].node, Candidate(q))
  /\ req' = [req EXCEPT ![q].pc = "done"]
  /\ UNCHANGED <<remotes, memory, gone, fleet>>

-----------------------------------------------------------------------------
(* chatHedged: the same call on several workers, the first stream wins.    *)

SetLeg(q, n, state) == req' = [req EXCEPT ![q].legs[n] = state]

LegStarts(q, n) ==
  /\ req[q].legs[n] = "start"
  /\ IncInflight(n, Candidate(q))
  /\ SetLeg(q, n, "calling")
  /\ UNCHANGED <<remotes, memory, gone, fleet>>

LegAnswers(q, n) ==
  /\ req[q].legs[n] = "calling"
  /\ \/ "ok" \in Answers[n] /\ SetLeg(q, n, "opened") /\ UNCHANGED counts
     \/ /\ Answers[n] # {"ok"} \/ q \in gone \/ req[q].pc # "hedge"
        /\ SetLeg(q, n, "failed") /\ DecInflight(n, Candidate(q))
  /\ UNCHANGED <<remotes, memory, gone, fleet>>

\* The first stream to open is the answer; the other legs are cancelled.
HedgeWins(q, n) ==
  /\ req[q].pc = "hedge" /\ req[q].legs[n] = "opened"
  /\ req' = [req EXCEPT ![q] =
       [@ EXCEPT !.pc = "stream", !.node = n, !.last = "served", !.legs[n] = "won"]]
  /\ UNCHANGED <<remotes, counts, memory, gone, fleet>>

\* Mutant: the loser's stream is drained and its count kept.
LoserKeepsCount(q, n) ==
  /\ req[q].pc \in {"stream", "done"} /\ req[q].legs[n] = "opened"
  /\ SetLeg(q, n, "over")
  /\ UNCHANGED <<remotes, counts, memory, gone, fleet>>

\* A loser that opened all the same is uncounted when it reports.
LoserReports(q, n) ==
  /\ req[q].pc \in {"stream", "done"} /\ req[q].legs[n] = "opened"
  /\ SetLeg(q, n, "over") /\ DecInflight(n, Candidate(q))
  /\ UNCHANGED <<remotes, memory, gone, fleet>>

WinnerEnds(q, n) ==
  /\ req[q].pc = "stream" /\ req[q].legs[n] = "won"
  /\ req' = [req EXCEPT ![q] = [@ EXCEPT !.pc = "done", !.legs[n] = "over"]]
  /\ DecInflight(n, Candidate(q))
  /\ UNCHANGED <<remotes, memory, gone, fleet>>

HedgeFails(q) ==
  /\ req[q].pc = "hedge"
  /\ \A n \in DOMAIN NoLegs : req[q].legs[n] \in {"none", "failed"}
  /\ req' = [req EXCEPT ![q] = [@ EXCEPT !.pc = "done", !.last = "unreachable"]]
  /\ UNCHANGED <<remotes, counts, memory, gone, fleet>>

-----------------------------------------------------------------------------
(* Everything else that moves the router's state.                          *)

ClientLeaves(q) ==
  /\ Call[q].leaves /\ q \notin gone /\ req[q].pc \notin {"new", "done"}
  /\ gone' = gone \cup {q}
  /\ UNCHANGED <<remotes, counts, memory, fleet, req>>

\* inCooldown finds the time has passed.
CooldownExpires(n) ==
  /\ "expire" \in Events /\ n \in cooling
  /\ cooling' = cooling \ {n}
  /\ UNCHANGED <<remotes, counts, fails, sticky, pins, pdFailing, turn, gone, fleet, req>>

\* A pin to n, of a user or of a prefix, or a failing pair of it is too old.
PinExpires(n) ==
  /\ "expire" \in Events
  /\ \/ \E um \in DOMAIN sticky : sticky[um] = n /\ sticky' = [sticky EXCEPT ![um] = None]
                                 /\ UNCHANGED <<pins, pdFailing>>
     \/ \E km \in DOMAIN pins : pins[km] = n /\ pins' = [pins EXCEPT ![km] = None]
                               /\ UNCHANGED <<sticky, pdFailing>>
     \/ \E pd \in pdFailing : pd[1] = n /\ pdFailing' = pdFailing \ {pd}
                              /\ UNCHANGED <<sticky, pins>>
  /\ UNCHANGED <<remotes, counts, cooling, fails, turn, gone, fleet, req>>

\* A heartbeat missed or back, a drain, an engine that stops or is started.
StatusChanges(n) ==
  /\ "status" \in Events /\ n \in Movers /\ changes < Changes
  /\ \E s \in Statuses \ {row[n].status} : row' = [row EXCEPT ![n].status = s]
  /\ changes' = changes + 1
  /\ UNCHANGED <<forgetting, wiped, remotes, counts, memory, gone, req>>

\* RegisterNode of a known node: the row is written, then ForgetRemote.
Registers(n) ==
  /\ "register" \in Events /\ n \in Movers /\ changes < Changes
  /\ row' = [row EXCEPT ![n] = [status |-> "ready", addr |-> @.addr + 1]]
  /\ forgetting' = forgetting \cup {n} /\ changes' = changes + 1
  /\ UNCHANGED <<wiped, remotes, counts, memory, gone, req>>

ForgetRemote(n) ==
  /\ n \in forgetting
  /\ forgetting' = forgetting \ {n}
  /\ remotes' = [remotes EXCEPT ![n] = NoRemote]
  /\ UNCHANGED <<row, changes, wiped, counts, memory, gone, req>>

\* InvalidateModel: a gang of the model is created or torn down.
InvalidateModel(m) ==
  /\ "reshape" \in Events /\ changes < Changes /\ GangsOf[m] # <<>>
  /\ changes' = changes + 1
  /\ remotes' = [t \in Targets |-> IF t \in Range(GangsOf[m]) THEN NoRemote ELSE remotes[t]]
  /\ UNCHANGED <<row, forgetting, wiped, counts, memory, gone, req>>

\* The calls a request has open on a target: the call for its whole answer, a
\* prefill call, or a leg of a hedged call.
Kinds == {"whole", "prefill", "leg"}
Opens(r, kind, t) ==
  \/ /\ kind = "whole" /\ r.node = t /\ r.legs = NoLegs
     /\ r.pc \in {"handoff", "prefill", "call", "stream"}
  \/ kind = "prefill" /\ r.pc = "prefill" /\ r.prefill[1] = t
  \/ /\ kind = "leg" /\ t \in DOMAIN NoLegs
     /\ r.legs[t] \in {"calling", "opened", "won"}
OpenCalls(t) == {c \in Requests \X Kinds : Opens(req[c[1]], c[2], t)}
CallsFor(t, m) == {c \in OpenCalls(t) : Candidate(c[1]) = m}

\* removeNode: the row goes, and InvalidateNode forgets all the router held.
InvalidateNode(n) ==
  /\ "remove" \in Events /\ n \in Movers /\ changes < Changes
  /\ row[n].status # "removed"
  /\ row' = [row EXCEPT ![n].status = "removed"]
  /\ changes' = changes + 1
  /\ wiped' = IF OpenCalls(n) # {} THEN wiped \cup {n} ELSE wiped
  /\ remotes' = [remotes EXCEPT ![n] = NoRemote]
  /\ inflight' = [inflight EXCEPT ![n] = 0]
  /\ dim' = [tm \in DOMAIN dim |-> IF tm[1] = n THEN 0 ELSE dim[tm]]
  /\ cooling' = cooling \ {n} /\ fails' = [fails EXCEPT ![n] = 0]
  /\ sticky' = [um \in DOMAIN sticky |-> IF sticky[um] = n THEN None ELSE sticky[um]]
  /\ UNCHANGED <<forgetting, pins, pdFailing, turn, gone, req>>

Idle ==
  /\ \A q \in Requests : /\ req[q].pc = "done"
                         /\ \A n \in DOMAIN NoLegs : req[q].legs[n] \in {"none", "failed", "over"}
  /\ UNCHANGED <<row, forgetting, remotes, inflight, dim, cooling, fails, sticky, pins,
                 pdFailing, turn, gone, changes, wiped, req>>

\* A request's own steps; all but its client's leaving happen by themselves.
Leg(q, n) == LegStarts(q, n) \/ LegAnswers(q, n) \/ LoserReports(q, n)
             \/ HedgeWins(q, n) \/ WinnerEnds(q, n)
Walk(q) == Begin(q) \/ Pick(q) \/ Dispatch(q) \/ Handoff(q) \/ PrefillAnswers(q)
           \/ Succeeds(q) \/ HandoffFails(q) \/ Fails(q) \/ Retry(q) \/ StreamEnds(q) \/ HedgeFails(q)
Fleet(n) == CooldownExpires(n) \/ StatusChanges(n) \/ Registers(n) \/ ForgetRemote(n)
            \/ InvalidateNode(n) \/ PinExpires(n)

Step ==
  \/ \E q \in Requests : Walk(q) \/ ClientLeaves(q)
  \/ \E q \in Requests, n \in DOMAIN NoLegs : Leg(q, n)
  \/ \E n \in Nodes : Fleet(n)
  \/ \E m \in Models : InvalidateModel(m)
  \/ Idle

\* The history behind NoWorkerPassedOver: who took requests since q began.
Observe ==
  steady' = [q \in Requests |->
    IF req[q].pc = "new" THEN {n \in Nodes : TakesRequests(n)'}
    ELSE {n \in steady[q] : TakesRequests(n) /\ TakesRequests(n)'}]

Next == Step /\ Observe

\* Every call answers or fails and every stream ends: the goroutines of the
\* requests, taken together, do not all stop.
Go == /\ \E q \in Requests : Walk(q) \/ \E n \in DOMAIN NoLegs : Leg(q, n)
      /\ Observe
Fairness == WF_vars(Go)

Spec == Init /\ [][Next]_vars /\ Fairness

-----------------------------------------------------------------------------
(* Properties.                                                             *)

\* The fields of a request.
Fields == {"pc", "chain", "i", "retry", "node", "addr", "kv", "prefill", "skipped", "rev",
           "gangless", "last", "classified", "legs"}

\* Where a request that is not hedged can be before its stream.
Single == {"new", "pick", "dispatch", "handoff", "prefill", "call", "retry"}

\* A record with the fields of a request, whose legs are none unless it is hedged.
ReqInv(r) ==
  /\ r = [f \in Fields |-> r[f]]
  /\ r.legs = [n \in DOMAIN NoLegs |-> r.legs[n]]
  /\ r.pc \in Single => r.legs = NoLegs

ReqsInv == req = [q \in Requests |-> req[q]] /\ \A q \in Requests : ReqInv(req[q])

\* The in-flight count of a target is the number of calls open on it, so that
\* ranking, slot limits and a drain that waits for zero see the truth.  A
\* removal during a call (InvalidateNode) resets the count, and then it may
\* only be too low: decInflight never takes it below zero and no path
\* decrements twice or leaks an increment (incInflight, decInflight, the
\* hedge's losers, the prefill calls, streams whose client left).  The same
\* holds of the counts by model, which a model's drain waits on.
Counts(n, calls, exact) ==
  n \in Nat /\ n <= Cardinality(calls) /\ (exact => n = Cardinality(calls))
CountsOpenCalls ==
  \A t \in Targets :
    /\ Counts(inflight[t], OpenCalls(t), t \notin wiped)
    /\ \A m \in Models : Counts(dim[<<t, m>>], CallsFor(t, m), t \notin wiped)

\* A worker that took requests during the whole life of a request is never
\* passed over by it: neither "no reachable worker left" nor the fallback to
\* the leader's own engine happens while one is left (pick, takingRequests,
\* withoutSkipped, decodeOnly, pickRevisionGroup), whatever cooldowns, strikes
\* and skips other requests cause meanwhile.
PassedOver(q) ==
  /\ req[q].pc = "pick" /\ q \notin gone
  /\ \/ req'[q].pc = "dispatch" /\ req'[q].node = Local /\ Candidate(q) \notin LocalHas
     \/ req'[q].pc = "done" \/ req'[q].i # req[q].i
PassesNobodyOver ==
  \A q \in Requests : PassedOver(q) => steady[q] \cap Range(Placed[Candidate(q)]) = {}
NoWorkerPassedOver == [][PassesNobodyOver]_vars

\* How a request looks to its caller: Failover's variables.  A hedged request
\* asks several workers for what its caller sees as one.
Hedged(r) == \E n \in DOMAIN r.legs : r.legs[n] # "none"
Result(r) ==
  CASE r.pc = "stream" \/ (r.pc = "done" /\ r.last = "served") -> "served"
    [] r.pc = "done" /\ r.last # "served" -> "failed"
    [] OTHER -> "open"
Asking(r) ==
  IF ~Hedged(r) THEN r.node ELSE IF Result(r) = "failed" THEN None ELSE Local
=============================================================================
