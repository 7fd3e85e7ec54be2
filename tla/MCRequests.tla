----------------------------- MODULE MCRequests -----------------------------
(***************************************************************************)
(* What a request meets on its way: the capacity view of its pool, in its  *)
(* own variables; and, in the variables of the pool below, the path of its *)
(* answer, the meaning of its failure, the conversation it continues, the  *)
(* response cache, the usage row it leaves, and, of the engine that        *)
(* answers it, the command line it was started with and the sample the     *)
(* worker takes of it.  One of them runs in a behaviour.                   *)
(***************************************************************************)
EXTENDS CapacityView, Integers, Sequences, SequencesExt, TLC

VARIABLES which,  \* the component that runs
          v1, v2, v3, v4, v5, v6, v7, v8, v9, v10, v11, v12, v13, v14, v15
pool == <<v1, v2, v3, v4, v5, v6, v7, v8, v9, v10, v11, v12, v13, v14, v15>>

\* The variables of the pool past the n-th are not used by the component that
\* runs.
Rest(n) ==
    /\ IF n < 1 THEN v1 = 0 ELSE TRUE
    /\ IF n < 2 THEN v2 = 0 ELSE TRUE
    /\ IF n < 3 THEN v3 = 0 ELSE TRUE
    /\ IF n < 4 THEN v4 = 0 ELSE TRUE
    /\ IF n < 5 THEN v5 = 0 ELSE TRUE
    /\ IF n < 6 THEN v6 = 0 ELSE TRUE
    /\ IF n < 7 THEN v7 = 0 ELSE TRUE
    /\ IF n < 8 THEN v8 = 0 ELSE TRUE
    /\ IF n < 9 THEN v9 = 0 ELSE TRUE
    /\ IF n < 10 THEN v10 = 0 ELSE TRUE
    /\ IF n < 11 THEN v11 = 0 ELSE TRUE
    /\ IF n < 12 THEN v12 = 0 ELSE TRUE
    /\ IF n < 13 THEN v13 = 0 ELSE TRUE
    /\ IF n < 14 THEN v14 = 0 ELSE TRUE
    /\ IF n < 15 THEN v15 = 0 ELSE TRUE
Still(n) ==
    /\ IF n < 7 THEN UNCHANGED v7 ELSE TRUE
    /\ IF n < 8 THEN UNCHANGED v8 ELSE TRUE
    /\ IF n < 9 THEN UNCHANGED v9 ELSE TRUE
    /\ IF n < 10 THEN UNCHANGED v10 ELSE TRUE
    /\ IF n < 11 THEN UNCHANGED v11 ELSE TRUE
    /\ IF n < 12 THEN UNCHANGED v12 ELSE TRUE
    /\ IF n < 13 THEN UNCHANGED v13 ELSE TRUE
    /\ IF n < 14 THEN UNCHANGED v14 ELSE TRUE
    /\ IF n < 15 THEN UNCHANGED v15 ELSE TRUE
allVars == <<which, vars, pool>>

\* The writers of the registry are alike.
WriterSymmetry == Permutations(Writers)

-----------------------------------------------------------------------------
(* The answer's path: one request each, over every route it takes *)

Req(route, dialect, mode, kv, pieces) ==
    [route |-> route, dialect |-> dialect, mode |-> mode, kv |-> kv, pieces |-> pieces]
EachRoute == {
    Req("worker", "openai", "stream", TRUE, 1),
    Req("worker", "openai", "aggregate", FALSE, 1),
    Req("worker", "ollama", "stream", FALSE, 1),
    Req("local", "openai", "stream", FALSE, 2),
    Req("local", "ollama", "aggregate", FALSE, 1),
    Req("direct", "openai", "aggregate", FALSE, 2)}
S == INSTANCE StreamPath WITH
    Requests <- EachRoute, Cap <- 1, SilentEnd <- FALSE, conf <- v1, eng <- v2, wire <- v3,
    ch <- v4, rd <- v5, go <- v6, gone <- v7, ans <- v8

E == INSTANCE RequestErrors WITH
    Statuses <- {400, 401, 404, 408, 409, 413, 429, 500, 501, 503}, Documents <- 2,
    Scores <- {1, 2, -1}, MaxTries <- 2, req <- v1, stage <- v2, place <- v3, fell <- v4,
    asked <- v5, wire <- v6, out <- v7, primaryErr <- v8, answer <- v9, row <- v10

-----------------------------------------------------------------------------
(* An Anthropic conversation of four turns *)

Text == [type |-> "text", text |-> <<"t">>]
Image(s) == [type |-> "image", source |-> s]
Result(n, b) == [type |-> "tool_result", id |-> n, body |-> b]
Use == [type |-> "tool_use", id |-> 7, input |-> ""]
SaidByUser == {
    <<Text>>, <<Text, Text>>, <<Text, Image("base64")>>, <<Image("url")>>, <<Use>>,
    <<Text, Result(1, <<"r">>)>>, <<Result(2, <<>>), Result(1, <<"r", "r">>)>>,
    <<Result(1, <<"image">>)>>, <<[type |-> "document"]>>, <<>>}
Called(i, a) == [id |-> i, args |-> a]
SaidByEngine ==
    {[text |-> x, calls |-> c] :
        x \in {<<>>, <<"e">>},
        c \in {<<>>, <<Called(1, "{x}")>>, <<Called(0, ""), Called(0, "{x}")>>, <<Called(2, "x"), Called(3, "{x}")>>}}
T == INSTANCE AnthropicTurns WITH
    Systems <- {"", "string", "blocks", "image"}, Answers <- SaidByEngine, UserTurns <- SaidByUser,
    MaxTurns <- 4, system <- v1, turns <- v2, sent <- v3, stage <- v4, fresh <- v5, given <- v6

-----------------------------------------------------------------------------
(* The response cache, with two requests at once *)

Ask(n, a, u, b) == [ns |-> n, ask |-> a, user |-> u, bypass |-> b]
Asked == {Ask("", "a", "u", FALSE), Ask("n", "a", "u", FALSE), Ask("n", "b", "v", FALSE), Ask("n", "a", "v", TRUE)}
R == INSTANCE ResponseCache WITH
    Handlers <- {"h1", "h2"}, Namespaces <- {"", "n"}, Asks <- {"a", "b"},
    LengthOf <- [a |-> 1, b |-> 2], Requests <- Asked, MaxEntries <- 2, DefaultTTL <- 1,
    MaxRequests <- 3, MaxTime <- 2, MaxFlushes <- 1, driver <- v1, order <- v2, bytes <- v3,
    call <- v4, now <- v5, made <- v6, flushes <- v7, touched <- v8, uses <- v9, flushed <- v10,
    lost <- v11

\* One door, whose second row is too big for the leader's queue.
A == INSTANCE Accounting WITH
    Doors <- {"d"}, Big <- {2}, QueueLimit <- 3, Batch <- 2, dedupWindow <- 2, QueueCap <- 2,
    MaxBatch <- 1, MaxRows <- 4, MaxFaults <- 2, made <- v1, queue <- v2, post <- v3, tally <- v4,
    order <- v5, items <- v6, seq <- v7, flight <- v8, boot <- v9, out <- v10, faults <- v11,
    ended <- v12, gone <- v13, torn <- v14

-----------------------------------------------------------------------------
(* Command lines: every engine, with extra arguments of up to two tokens,  *)
(* and llama.cpp's with three                                              *)

Token(name, n) == [name |-> name, val |-> n, clean |-> TRUE]
Flag(name) == Token(name, -2)
Val(n) == Token("none", n)
NotANumber == Val(-1)
Extras == {Flag("slots"), Val(8), Token("slots", 4), Flag("kvu"), Flag("nokvu"), Flag("offload"), Flag("parser")}
LongerExtras == {
    <<Flag("slots"), Val(8), Flag("slots"), NotANumber>>, <<Token("offload", 2), Flag("transfer"), Val(3)>>,
    <<Flag("offload"), Val(2)>>, <<Token("offload", 2), Flag("backend"), Val(2)>>, <<Token("offload", 2), Token("backend", 1)>>,
    <<Flag("config"), Val(5), Flag("page")>>, <<Token("config", 5), Flag("autotool")>>,
    <<Flag("perslot"), Flag("kvu")>>, <<Flag("len"), Val(4096)>>, <<Flag("ngl"), Val(20)>>, <<Flag("details")>>,
    <<[name |-> "slots", val |-> 3, clean |-> FALSE], Flag("kvu")>>}
LaunchPlans ==
    [engine : {"vllm", "sglang", "trtllm", "llamacpp"}, slots : {0, 2, 9999}, len : {0, 1024}, ngl : {-2},
     unified : {""}, tier : {TRUE}, extra : BoundedSeq(Extras, 2) \cup LongerExtras]
    \cup [engine : {"llamacpp"}, slots : {0, 2}, len : {0}, ngl : {-2, 0, 30, 1001}, unified : {"", "true", "false"},
          tier : {FALSE}, extra : BoundedSeq(Extras, 3)]
Card == [accelerated |-> TRUE, adapters |-> 0, parser |-> FALSE, sleep |-> FALSE, events |-> FALSE, snapshot |-> FALSE,
         revision |-> "", devices |-> 1, configReadable |-> TRUE, budget |-> 8, card |-> 24564, overhead |-> 768]
LaunchWorkers == {
    Card,
    [Card EXCEPT !.accelerated = FALSE, !.adapters = 2, !.parser = TRUE, !.sleep = TRUE, !.events = TRUE,
                 !.revision = "bad", !.snapshot = TRUE, !.budget = 11, !.card = 11264, !.devices = 0,
                 !.configReadable = FALSE],
    [Card EXCEPT !.revision = "bad", !.devices = 0, !.budget = 1, !.overhead = 1500]}
C == INSTANCE LaunchLine WITH
    Plans <- LaunchPlans, Workers <- LaunchWorkers, Hints <- {400, 5000, 8000}, MaxRefits <- 2,
    plan <- v1, worker <- v2, line <- v3, base <- v4, said <- v5, engine <- v6, refits <- v7

-----------------------------------------------------------------------------
(* Samples of an engine that is relaunched once *)

Fitted == [slots |-> 2, ctx |-> 8, unified |-> 0]
EngineLaunches == [vllm |-> {Fitted}, sglang |-> {Fitted}, trtllm |-> {Fitted}, llamacpp |-> {Fitted, [Fitted EXCEPT !.unified = 1]}]
EngineProcesses == [vllm |-> {}, sglang |-> {}, trtllm |-> {"p", "q"}, llamacpp |-> {}]
M == INSTANCE EngineStats WITH
    Kinds <- {"sglang", "llamacpp", "trtllm"}, Launches <- EngineLaunches,
    Processes <- EngineProcesses, Buckets <- 3, ttftWindow <- 2, maxHistSnaps <- 4, MaxNow <- 3,
    MaxObserved <- 3, MaxLives <- 2, MaxTurns <- 1, kind <- v1, engine <- v2, procs <- v3,
    snaps <- v4, rate <- v5, cached <- v6, launched <- v7, version <- v8, now <- v9, beat <- v10,
    said <- v11, log <- v12, reads <- v13, changed <- v14, turns <- v15

-----------------------------------------------------------------------------

\* The capacity view while another component runs.
AtRest == Init /\ slots = 0

MCInit ==
    \/ which = "view" /\ Init /\ Rest(0)
    \/ /\ AtRest
       /\ \/ which = "stream" /\ S!Init /\ Rest(8)
          \/ which = "errors" /\ E!Init /\ Rest(10)
          \/ which = "turns" /\ T!Init /\ Rest(6)
          \/ which = "cache" /\ R!Init /\ Rest(11)
          \/ which = "usage" /\ A!Init /\ Rest(14)
          \/ which = "line" /\ C!Init /\ Rest(7)
          \/ which = "sample" /\ M!Init /\ Rest(15)

\* All but the first rest when what they were asked is done.
PoolStep ==
    \/ which = "stream" /\ S!Next /\ Still(8)
    \/ which = "errors" /\ E!Next /\ Still(10)
    \/ which = "turns" /\ T!Next /\ Still(6)
    \/ which = "cache" /\ R!Next /\ Still(11)
    \/ which = "usage" /\ A!Next /\ Still(14)
    \/ which = "line" /\ C!Next /\ Still(7)
    \/ which = "sample" /\ M!Next /\ Still(15)
    \/ which \in {"errors", "turns", "cache", "usage", "line", "sample"} /\ UNCHANGED pool

MCNext ==
    /\ UNCHANGED which
    /\ \/ which = "view" /\ Next /\ UNCHANGED pool
       \/ PoolStep /\ UNCHANGED vars

MCSpec == MCInit /\ [][MCNext]_allVars

-----------------------------------------------------------------------------
(* Properties *)

\* An answer that is shown as finished is all the engine said, and it left one
\* usage row that says so; an Anthropic caller's events are well formed
\* (consumeStream, kvLoadGuard, streamResponse, aggregateResponse,
\* AnthropicWriter).
AnswerIsWhole == which = "stream" => S!AnswerIsWhole /\ S!OneUsageRow /\ S!AnthropicWellFormed

\* A failure keeps its meaning over the hops it is written and read on, and a
\* 200 answers what was asked (writeEngineFailure, FromWorkerAnswer, Embed,
\* Rerank).
ErrorsKeepTheirMeaning == which = "errors" => E!ErrorsKeepTheirMeaning /\ E!AnswersMatchTheAsk

\* The engine is shown the conversation it had (chatTurns).
ConversationKept == which = "turns" => T!ConversationKept

\* The response cache keeps its books, and answers what was asked (Memory,
\* sqliteCache, Embeddings).
CacheIsTrue == which = "cache" => R!CacheIsTrue

\* A row of usage is charged once, and one that is lost is counted (Pusher,
\* usageIngest, the export queue).
RowsChargedOnce == which = "usage" => A!ChargedOnce /\ A!NothingUncounted

\* What the worker remembers of its launch is what the engine read off the line,
\* and the parts of the line do not contradict one another (LaunchSlots,
\* llamaKVUnified, noteToolParser, vllmKVTierFS, vllmFitContext); what a
\* heartbeat states of the engine is true of it: the median of its window, the
\* token rate, its slots and pool, and that it serves (RateTracker, totalSlots,
\* kvPool, engineState).
EngineIsAsSaid ==
    /\ which = "line" => C!LaunchKeepsItsWord /\ C!LineIsCoherent
    /\ which = "sample" => M!SampleIsTrue
=============================================================================
