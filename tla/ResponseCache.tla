--------------------------- MODULE ResponseCache ---------------------------
(***************************************************************************)
(* The leader's cache of embedding answers: the memory driver, an LRU list *)
(* bounded by entries with a byte count kept beside it (cache/memory.go),  *)
(* the sqlite driver over the cache table (cache/sqlite_driver.go,         *)
(* store/cache.go), the handler that asks before it calls the engine and   *)
(* stores after it answered (api/embeddings.go), and the operator's flush  *)
(* (leader/observability.go).  Requests overlap: one that missed before a  *)
(* flush, an expiry or another's store comes to store its own answer later.*)
(*                                                                         *)
(* A request's body is what it asks, under a namespace, and the ephemeral  *)
(* fields; a value is what it answers and how long it is.  Time passes in  *)
(* whole steps.  hits, misses, evicted: only reported.                     *)
(***************************************************************************)
EXTENDS Integers, FiniteSetsExt, Sequences, SequencesExt

CONSTANTS
  Handlers,     \* requests served at once
  Namespaces,   \* "" is none
  Asks,         \* what a body asks for
  LengthOf,     \* the length of its answer
  Requests,     \* [ns, ask, user, bypass]: user, its ephemeral fields
  MaxEntries, DefaultTTL,
  MaxRequests, MaxTime, MaxFlushes

VARIABLES
  driver,    \* "memory", "sqlite", or "none": caching disabled
  order,     \* the entries, most recently used first (sqlite: no order)
  bytes,     \* Memory.bytes
  call,      \* per handler: stage, request, key, answer
  now, made, flushes,
  touched,   \* history: per key, the number of its last use
  uses,      \* history: uses counted
  flushed,   \* history: per namespace, when it was last flushed
  lost       \* history: the keys the last step evicted for room

vars == <<driver, order, bytes, call, now, made, flushes, touched, uses, flushed, lost>>

Keys == [ns : Namespaces, ask : Asks]
NoKey == [ns |-> "none", ask |-> "none"]
NoAnswer == [ask |-> "none", len |-> 0]
Idle == [stage |-> "idle", key |-> NoKey, asked |-> "none", answer |-> NoAnswer, hit |-> FALSE]

\* canonicalize: what the body asks, its ephemeral fields and the order of
\* its fields left out; the namespace is part of the key, and named by it.
canonicalize(r) == r.ask
KeyForRequest(r) == [ns |-> r.ns, ask |-> canonicalize(r)]

At(k) == {i \in DOMAIN order : order[i].key = k}
Expired(e) == now > e.expires
Without(I) ==
  LET keep == SetToSortSeq(DOMAIN order \ I, <)
  IN  [j \in DOMAIN keep |-> order[keep[j]]]
BytesOf(s) == FoldLeft(LAMBDA acc, e : acc + e.val.len, 0, s)

Init ==
  /\ driver \in {"memory", "sqlite", "none"}
  /\ order = <<>> /\ bytes = 0
  /\ call = [h \in Handlers |-> Idle]
  /\ now = 0 /\ made = 0 /\ flushes = 0
  /\ touched = [k \in Keys |-> 0] /\ uses = 0
  /\ flushed = [n \in Namespaces |-> -1] /\ lost = {}

Uses(k) == touched' = [touched EXCEPT ![k] = uses + 1] /\ uses' = uses + 1

-----------------------------------------------------------------------------
(* The drivers.  Each operation holds the mutex, or is one statement.      *)

\* What Get answers; the memory driver removes what it finds expired.
Get(k) ==
  IF At(k) # {} /\ ~Expired(order[Max(At(k))]) THEN order[Max(At(k))].val ELSE NoAnswer

GetMemory(k) ==
  /\ order' = CASE At(k) = {}               -> order
                [] Get(k) # NoAnswer        -> SelectSeq(order, LAMBDA e : e.key = k) \o Without(At(k))
                [] OTHER                    -> Without(At(k))
  /\ bytes' = bytes - (IF At(k) # {} /\ Get(k) = NoAnswer THEN order[Max(At(k))].val.len ELSE 0)

\* Mutant: the bytes of the value replaced stay counted.
SetMemoryKeepsOld(k, v) ==
  LET e   == [key |-> k, val |-> v, expires |-> now + DefaultTTL, at |-> now]
      all == <<e>> \o Without(At(k))
      out == SubSeq(all, MaxEntries + 1, Len(all))
  IN  /\ order' = SubSeq(all, 1, Min({MaxEntries, Len(all)}))
      /\ bytes' = bytes + v.len - BytesOf(out)
      /\ lost' = {o.key : o \in ToSet(out)}

\* Replaced in place or pushed to the front; what is past the bound goes, from
\* the back.
SetMemory(k, v) ==
  LET e   == [key |-> k, val |-> v, expires |-> now + DefaultTTL, at |-> now]
      all == <<e>> \o Without(At(k))
      out == SubSeq(all, MaxEntries + 1, Len(all))
  IN  /\ order' = SubSeq(all, 1, Min({MaxEntries, Len(all)}))
      /\ bytes' = bytes - (IF At(k) # {} THEN order[Max(At(k))].val.len ELSE 0) + v.len - BytesOf(out)
      /\ lost' = {o.key : o \in ToSet(out)}

\* The table's row is inserted or replaced; the table has no bound.
SetSQLite(k, v) ==
  /\ order' = <<[key |-> k, val |-> v, expires |-> now + DefaultTTL, at |-> now]>> \o Without(At(k))
  /\ bytes' = BytesOf(order')
  /\ lost' = {}

Removed(I) ==
  /\ order' = Without(I)
  /\ bytes' = bytes - MapThenSumSet(LAMBDA i : order[i].val.len, I)

-----------------------------------------------------------------------------
(* Embeddings.                                                             *)

\* The body is read, and the cache asked unless the caller bypasses it.  A
\* hit is the answer.
Look(h, r) ==
  /\ call[h].stage # "calling" /\ made < MaxRequests
  /\ LET asked == driver # "none" /\ ~r.bypass
         k     == KeyForRequest(r)
         hit   == asked /\ Get(k) # NoAnswer
     IN  /\ call' = [call EXCEPT ![h] =
                       [stage |-> IF hit THEN "served" ELSE "calling", hit |-> hit,
                        key |-> IF asked THEN k ELSE NoKey, asked |-> r.ask,
                        answer |-> IF hit THEN Get(k) ELSE NoAnswer]]
         /\ IF asked /\ driver = "memory"
            THEN GetMemory(k) ELSE UNCHANGED <<order, bytes>>
         /\ IF hit THEN Uses(k) ELSE UNCHANGED <<touched, uses>>
  /\ made' = made + 1 /\ lost' = {}
  /\ UNCHANGED <<driver, now, flushes, flushed>>

\* The engine's answer goes to the caller, and to the cache when it was asked.
\* A row that cannot be written is not stored, and nobody is told.
Answer(h, written) ==
  /\ call[h].stage = "calling" /\ (driver # "sqlite" => written)
  /\ LET k == call[h].key
         v == [ask |-> call[h].asked, len |-> LengthOf[call[h].asked]]
     IN  /\ call' = [call EXCEPT ![h].stage = "served", ![h].answer = v]
         /\ IF k # NoKey /\ written
            THEN /\ IF driver = "memory" THEN SetMemory(k, v) ELSE SetSQLite(k, v)
                 /\ Uses(k)
            ELSE lost' = {} /\ UNCHANGED <<order, bytes, touched, uses>>
  /\ UNCHANGED <<driver, now, made, flushes, flushed>>

\* Refused before the engine, or by it: nothing is stored.
Fails(h) ==
  /\ call[h].stage = "calling"
  /\ call' = [call EXCEPT ![h] = Idle] /\ lost' = {}
  /\ UNCHANGED <<driver, order, bytes, now, made, flushes, touched, uses, flushed>>

-----------------------------------------------------------------------------
(* The background and the operator.                                        *)

\* sweep, and SweepExpired.
Sweep ==
  /\ driver # "none"
  /\ LET gone == {i \in DOMAIN order : Expired(order[i])}
     IN  /\ gone # {} /\ Removed(gone)
  /\ lost' = {}
  /\ UNCHANGED <<driver, call, now, made, flushes, touched, uses, flushed>>

\* DeleteNamespace, and DeleteAll.
DeleteNamespace(n) == Removed({i \in DOMAIN order : order[i].key.ns = n})
DeleteAll == Removed(DOMAIN order)

\* cacheFlush: one namespace, or (n = "all") everything.
Flush(n) ==
  /\ driver # "none" /\ flushes < MaxFlushes
  /\ IF n = "all" THEN DeleteAll ELSE DeleteNamespace(n)
  /\ flushed' = [m \in Namespaces |-> IF n \in {m, "all"} THEN now ELSE flushed[m]]
  /\ flushes' = flushes + 1 /\ lost' = {}
  /\ UNCHANGED <<driver, call, now, made, touched, uses>>

Tick ==
  /\ now < MaxTime /\ now' = now + 1 /\ lost' = {}
  /\ UNCHANGED <<driver, order, bytes, call, made, flushes, touched, uses, flushed>>

Next ==
  \/ \E h \in Handlers, r \in Requests : Look(h, r)
  \/ \E h \in Handlers : (\E written \in BOOLEAN : Answer(h, written)) \/ Fails(h)
  \/ Sweep
  \/ \E n \in (Namespaces \ {""}) \cup {"all"} : Flush(n)
  \/ Tick

Spec == Init /\ [][Next]_vars

-----------------------------------------------------------------------------
(* Properties                                                              *)

\* Across overlapping requests, expiries, sweeps and flushes the cache keeps
\* its books (Memory, sqliteCache).  One entry per key, and no more than the
\* bound; the byte count is that of the entries held; the list is in the order
\* of last use, so what goes for room is what was used longest ago; an entry
\* answers what its key asks, and was stored no earlier than the last flush of
\* its namespace.
BooksAreKept ==
  /\ bytes = BytesOf(order)
  /\ \A i, j \in DOMAIN order : i < j => order[i].key # order[j].key
  /\ driver = "memory" =>
       /\ Len(order) <= MaxEntries
       /\ \A i, j \in DOMAIN order : i < j => touched[order[i].key] > touched[order[j].key]
       /\ \A k \in lost : \A i \in DOMAIN order : touched[k] < touched[order[i].key]
  /\ \A i \in DOMAIN order : order[i].val.ask = order[i].key.ask /\ order[i].at >= flushed[order[i].key.ns]

\* Every caller is answered what it asked, whoever asked it first, and a
\* caller that bypasses the cache, or has none, by the engine (Embeddings).
AnswersTheAsk ==
  \A h \in Handlers : call[h].stage = "served" =>
    /\ call[h].answer.ask = call[h].asked
    /\ call[h].hit => call[h].key # NoKey

\* The cache keeps its books, and answers what was asked.
CacheIsTrue == BooksAreKept /\ AnswersTheAsk
=============================================================================
