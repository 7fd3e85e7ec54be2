---------------------------- MODULE PrefixLookup ----------------------------
(***************************************************************************)
(* How the leader asks its prefix index about a request, and what it keeps *)
(* of the blocks that went (leader/prefixindex.go): a live worker that     *)
(* reports blocks tokenizes the prompt, the prompt's chain of block hashes *)
(* is remembered under the request's head and the block size, and every    *)
(* candidate is credited with the leading blocks of the chain it holds.    *)
(* The blocks a worker evicted are remembered for a while, to count those  *)
(* that came back.  How a worker's set comes about is PrefixIndex.         *)
(*                                                                         *)
(* A hash names the whole prefix up to its block: it is that prefix.       *)
(***************************************************************************)
EXTENDS Integers, FiniteSetsExt, Sequences, SequencesExt

CONSTANTS
  Workers, BlockSize,       \* the size an engine's blocks have; 0: it does not say
  Callers, Requests,        \* [head, tokens]
  prefixTokenizeMax, prefixChainCacheSize, prefixChainTTL, tierGhostCap,
  tierGhostBuckets,         \* depths, ascending; the last is tierGhostCap
  Tries,                    \* reporters liveReporter looks at
  Budgets,                  \* bounds: [reports, asks, kinds] of a behaviour
  MaxTime

VARIABLES
  blocks,    \* per worker, the leader's workerBlocks
  alive,     \* workers whose row is live
  chains,    \* the cache: [key, hashes, until]
  call,      \* per caller: stage, req, node, at, tries, hashes, hits
  now, budget,
  went       \* history: per worker, evictions and stores, in order

vars == <<blocks, alive, chains, call, now, budget, went>>

\* BlockHashes: the full blocks only.
BlockHash(tokens, n) == SubSeq(tokens, 1, n)
BlockHashes(tokens, size) ==
  IF size <= 0 THEN <<>> ELSE [k \in 1 .. (Len(tokens) \div size) |-> BlockHash(tokens, k * size)]
Tokens(r) == SubSeq(r.tokens, 1, Min({Len(r.tokens), prefixTokenizeMax}))
Chain(r, size) == BlockHashes(Tokens(r), size)
HashesOf(w) == UNION {ToSet(Chain(r, BlockSize[w])) : r \in Requests}

Unknown == [on |-> FALSE]
newWorkerBlocks ==
  [on |-> TRUE, held |-> {}, cpuHeld |-> {}, evictions |-> 0, ghost |-> {}, ghostOrder |-> <<>>,
   stored |-> 0, returns |-> [i \in DOMAIN tierGhostBuckets |-> 0]]
NoReq == [head |-> "", tokens |-> <<>>]
NoCall == [stage |-> "idle", req |-> NoReq, node |-> "none", at |-> 0, tries |-> 0, hashes |-> <<>>,
           hits |-> [w \in Workers |-> 0]]

Init ==
  /\ blocks = [w \in Workers |-> Unknown] /\ alive = Workers /\ chains = {}
  /\ call = [c \in Callers |-> NoCall]
  /\ now = 0 /\ budget \in Budgets /\ went = [w \in Workers |-> <<>>]

-----------------------------------------------------------------------------
(* What a heartbeat brings.                                                *)

\* The ghost's number for a hash; 0 when it is not remembered.
Ghost(w, h) == IF \E g \in w.ghost : g.hash = h THEN (CHOOSE g \in w.ghost : g.hash = h).at ELSE 0
WithoutGhost(w, h) == {g \in w.ghost : g.hash # h}

\* The hash gets the number of this eviction; beyond the bound the oldest entry
\* goes, and its hash with it unless it was evicted again since.
evicted(w, h) ==
  LET at == w.evictions + 1
      o  == Append(w.ghostOrder, [hash |-> h, at |-> at])
      g  == WithoutGhost(w, h) \cup {[hash |-> h, at |-> at]}
  IN  IF Len(o) <= tierGhostCap THEN [w EXCEPT !.evictions = at, !.ghost = g, !.ghostOrder = o]
      ELSE [w EXCEPT !.evictions = at, !.ghost = g \ {o[1]}, !.ghostOrder = Tail(o)]

\* Computed anew: counted, and by depth if it went not long ago.
computed(w, h) ==
  LET depth == w.evictions - Ghost(w, h)
      fits  == {i \in DOMAIN tierGhostBuckets : depth <= tierGhostBuckets[i]}
      v     == [w EXCEPT !.stored = @ + 1, !.ghost = WithoutGhost(w, h)]
  IN  IF Ghost(w, h) = 0 \/ fits = {} THEN v
      ELSE [v EXCEPT !.returns[Min(fits)] = @ + 1]

\* apply, of a batch with one block: removed, stored, or stored in host memory;
\* anew when it is cleared.
Report(w, cleared, h, what) ==
  /\ budget.reports > 0 /\ w \in alive /\ (cleared => blocks[w].on)
  /\ budget' = [budget EXCEPT !.reports = @ - 1]
  /\ LET from == IF ~blocks[w].on THEN newWorkerBlocks
                 ELSE IF cleared THEN [newWorkerBlocks EXCEPT !.stored = blocks[w].stored, !.returns = blocks[w].returns]
                 ELSE blocks[w]
         old  == IF blocks[w].on /\ ~cleared THEN went[w] ELSE <<>>
         new  == what = "stored" /\ h \notin from.held
     IN  /\ blocks' = [blocks EXCEPT ![w] =
              CASE what = "removed" -> evicted([from EXCEPT !.held = @ \ {h}], h)
                [] what = "stored"  -> IF new THEN [computed(from, h) EXCEPT !.held = @ \cup {h}] ELSE from
                [] what = "cpu"     -> [from EXCEPT !.cpuHeld = @ \cup {h}]
                [] what = "cpugone" -> [from EXCEPT !.cpuHeld = @ \ {h}]]
         /\ went' = [went EXCEPT ![w] = IF what = "removed" \/ new THEN Append(old, <<what, h>>) ELSE old]
  /\ UNCHANGED <<alive, chains, call, now>>

forget(w) ==
  /\ blocks' = [blocks EXCEPT ![w] = Unknown] /\ went' = [went EXCEPT ![w] = <<>>]

\* A worker's heartbeats stop; prunePrefixIndex then forgets it.
Falls(w) ==
  /\ alive' = alive \ {w} /\ w \in alive
  /\ UNCHANGED <<blocks, chains, call, now, budget, went>>
prunePrefixIndex(w) ==
  /\ blocks[w].on /\ w \notin alive /\ forget(w)
  /\ UNCHANGED <<alive, chains, call, now, budget>>

-----------------------------------------------------------------------------
(* A request.                                                              *)

leading(w, hashes) ==
  IF ~blocks[w].on THEN 0
  ELSE Max({n \in 0 .. Len(hashes) : \A k \in 1 .. n : hashes[k] \in blocks[w].held})
leadingAny(w, hashes) ==
  IF ~blocks[w].on THEN 0
  ELSE Max({n \in 0 .. Len(hashes) : \A k \in 1 .. n : hashes[k] \in blocks[w].held \cup blocks[w].cpuHeld})

\* Any worker that says its block size.
reporters == {w \in Workers : blocks[w].on /\ BlockSize[w] > 0}

\* Mutant: chains of any block size are one.
KeyOfHead(r, size) == <<r.head, 0>>

\* The head and the block size.
prefixCacheKey(r, size) == <<r.head, size>>

Ask(c, r) ==
  /\ call[c].stage = "idle" /\ budget.asks > 0 /\ budget' = [budget EXCEPT !.asks = @ - 1]
  /\ call' = [call EXCEPT ![c] = [NoCall EXCEPT !.stage = "reporter", !.req = r]]
  /\ UNCHANGED <<blocks, alive, chains, now, went>>

\* No chain: the request is routed without.
NoChain(c) == call' = [call EXCEPT ![c].stage = "resolved"]

\* liveReporter: one that fell silent is forgotten, and another looked for, so
\* many times.
liveReporter(c, w) ==
  /\ call[c].stage = "reporter" /\ w \in reporters
  /\ IF w \in alive
     THEN call' = [call EXCEPT ![c].stage = "cache", ![c].node = w] /\ UNCHANGED <<blocks, went>>
     ELSE /\ forget(w)
          /\ IF call[c].tries = Tries - 1 THEN NoChain(c) ELSE call' = [call EXCEPT ![c].tries = @ + 1]
  /\ UNCHANGED <<alive, chains, now, budget>>
noReporter(c) ==
  /\ call[c].stage = "reporter" /\ reporters = {} /\ NoChain(c)
  /\ UNCHANGED <<blocks, alive, chains, now, budget, went>>

\* resolveBlocks: the chain that is remembered; a request with no text has none.
resolveBlocks(c) ==
  /\ call[c].stage = "cache"
  /\ LET r   == call[c].req
         key == prefixCacheKey(r, BlockSize[call[c].node])
         hit == {e \in chains : e.key = key /\ now < e.until}
     IN  call' = [call EXCEPT ![c].stage = IF r.head = "" \/ hit # {} THEN "resolved" ELSE "tokenize",
                              ![c].hashes = IF r.head # "" /\ hit # {} THEN (CHOOSE e \in hit : TRUE).hashes ELSE <<>>,
                              ![c].at = now]
  /\ UNCHANGED <<blocks, alive, chains, now, budget, went>>

\* At the bound one entry goes, and expired ones until a quarter is free.
Room(cs, at) ==
  IF Cardinality(cs) < prefixChainCacheSize THEN {cs}
  ELSE LET low == (prefixChainCacheSize * 3) \div 4
           old == {e \in cs : at > e.until}
       IN  {(cs \ {e}) \ more : e \in cs, more \in {m \in SUBSET old :
              m = old \/ Cardinality(cs) - 1 - Cardinality(m) < low}}

\* tokenizeOn: the worker's engine answers with the tokens; or not in time, not
\* at all, with none.
tokenizeOn(c, ok) ==
  /\ call[c].stage = "tokenize" /\ (ok => call[c].node \in alive)
  /\ LET r    == call[c].req
         size == BlockSize[call[c].node]
         e    == [key |-> prefixCacheKey(r, size), hashes |-> Chain(r, size), until |-> call[c].at + prefixChainTTL]
     IN  IF ok /\ r.tokens # <<>>
         THEN /\ \E cs \in Room(chains, call[c].at) : chains' = {x \in cs : x.key # e.key} \cup {e}
              /\ call' = [call EXCEPT ![c].stage = "resolved", ![c].hashes = e.hashes]
         ELSE NoChain(c) /\ UNCHANGED chains
  /\ UNCHANGED <<blocks, alive, now, budget, went>>

\* The router's pick asks for every candidate (Router says what it does with it).
Score(c, cpu) ==
  /\ call[c].stage = "resolved"
  /\ call' = [call EXCEPT ![c].stage = "idle",
       ![c].hits = [w \in Workers |-> IF cpu THEN leadingAny(w, call[c].hashes) ELSE leading(w, call[c].hashes)]]
  /\ UNCHANGED <<blocks, alive, chains, now, budget, went>>

Tick == now < MaxTime /\ now' = now + 1 /\ UNCHANGED <<blocks, alive, chains, call, budget, went>>

Next ==
  \/ \E w \in Workers :
       \/ \E h \in HashesOf(w), what \in budget.kinds, cleared \in BOOLEAN : Report(w, cleared, h, what)
       \/ Falls(w) \/ prunePrefixIndex(w)
       \/ \E c \in Callers : liveReporter(c, w)
  \/ \E c \in Callers :
       \/ (\E r \in Requests : Ask(c, r)) \/ noReporter(c) \/ resolveBlocks(c)
       \/ (\E b \in BOOLEAN : tokenizeOn(c, b) \/ Score(c, b))
  \/ Tick

Spec == Init /\ [][Next]_vars

-----------------------------------------------------------------------------
(* Properties                                                              *)

\* The last eviction of a hash, among the last tierGhostCap and not computed
\* since: by the log of what the worker said.
Remembered(w) ==
  LET log == went[w]
      out == SelectSeq([k \in DOMAIN log |-> k], LAMBDA k : log[k][1] = "removed")
      cut == IF Len(out) > tierGhostCap THEN Len(out) - tierGhostCap ELSE 0
  IN  {[hash |-> log[out[n]][2], at |-> n] : n \in {m \in DOMAIN out :
         m > cut /\ \A k \in DOMAIN log : k > out[m] => log[k][2] # log[out[m]][2]}}

\* A request is scored by its own prompt: the chain it is routed with is that of
\* its leading tokens at the block size of the worker that was asked, whoever
\* had it tokenized and whatever is reported, forgotten or evicted meanwhile
\* (resolveBlocks, prefixCacheKey).  A worker is credited no more blocks than it
\* ever said it holds; the cache of chains keeps its bound; and the ghosts are
\* the evictions among the last tierGhostCap not made good since (evicted,
\* computed).
ScoredByItsOwn ==
  /\ \A c \in Callers : call[c].hashes # <<>> =>
       call[c].hashes = Chain(call[c].req, BlockSize[call[c].node])
  /\ \A e \in chains, f \in chains : e.key = f.key => e = f
  /\ Cardinality(chains) <= prefixChainCacheSize
  /\ \A w \in Workers : blocks[w].on =>
       /\ blocks[w].ghost = Remembered(w)
       /\ Len(blocks[w].ghostOrder) <= tierGhostCap
       /\ FoldLeft(LAMBDA a, n : a + n, 0, blocks[w].returns) <= blocks[w].stored
=============================================================================
