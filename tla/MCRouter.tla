------------------------------ MODULE MCRouter ------------------------------
(***************************************************************************)
(* The router over five small fleets, which have the same workers, gangs   *)
(* and models and differ in the settings, the requests, the answers of the *)
(* engines and what happens meanwhile.  A behaviour is of one fleet, from  *)
(* its first state to its last.  The constants of the first are those of   *)
(* the cfg.                                                                *)
(***************************************************************************)
EXTENDS Router

VARIABLE which  \* the fleet
allVars == <<which, vars>>

Three == {"a", "b", "c"}
GangIds == {"g1", "g2"}
Pair == {"r1", "r2"}
All == Three \cup GangIds \cup {"local"}

\* Models on two workers, on three, on the leader's own engine, on two gangs
\* that share a rank; and two to fall back to.
Catalogue == {"two", "three", "own", "sharded", "onB", "onC"}
PlacedOn == [m \in Catalogue |->
    CASE m = "two" -> <<"a", "b">> [] m = "three" -> <<"a", "b", "c">>
      [] m = "onB" -> <<"b">> [] m = "onC" -> <<"c">> [] OTHER -> <<>>]
GangsBy == [m \in Catalogue |-> IF m = "sharded" THEN <<"g1", "g2">> ELSE <<>>]
Heads == [g \in GangIds |-> IF g = "g1" THEN "a" ELSE "b"]
Parts == [g \in GangIds |-> {"c"}]

Plain(m) == [op |-> "chat", model |-> m, retries |-> 0, backoff |-> 0, fallbacks |-> <<>>,
             hedge |-> FALSE, sort |-> "", user |-> "none", prefix |-> <<>>, penalty |-> "other",
             held |-> [n \in Three |-> 0], heldCPU |-> [n \in Three |-> 0], leaves |-> FALSE]
NoChains == [generic |-> <<>>, context |-> <<>>, policy |-> <<>>]
NoCatalogChains == [m \in Catalogue |-> NoChains]
Quiet == [n \in Three |-> [known |-> FALSE, kv |-> 0, queue |-> 0]]
NoPenalty == [n \in Three |-> "one"]
Free == [t \in All |-> 0]
Whole == [n \in Three |-> "whole"]
OneRevision == [n \in Three |-> 1]
Unmeasured == {[m \in Catalogue |-> 0]}
Faulty == [t \in All |-> {"ok", "unreachable"}]
NoWeights == <<>>

\* workers: a breaker of two strikes, a retry, a pinned caller who may leave.
WCall == ("r1" :> [Plain("two") EXCEPT !.user = "u"])
         @@ ("r2" :> [Plain("two") EXCEPT !.leaves = TRUE, !.retries = 1, !.backoff = 1])

\* roles: a prefill worker, two decoders on two plan revisions, pins and blocks.
PRole == [Whole EXCEPT !["a"] = "prefill", !["b"] = "decode", !["c"] = "decode"]
PRevision == [OneRevision EXCEPT !["c"] = 2]
PSlots == [Free EXCEPT !["b"] = 1]
PSignal == [n \in Three |-> [known |-> TRUE, kv |-> IF n = "c" THEN 90 ELSE 10, queue |-> 0]]
PWeights == << [revision |-> 1, weight |-> 9], [revision |-> 2, weight |-> 1] >>
PCall == ("r1" :> [Plain("three") EXCEPT !.penalty = "unset", !.prefix = <<"k1", "k2">>])
         @@ ("r2" :> [Plain("three") EXCEPT !.prefix = <<"k1">>, !.held["b"] = 2])
PAnswers == [Faulty EXCEPT !["c"] = {"ok"}]
PStatuses == {"ready", "stale"}
P == INSTANCE Router WITH
    Role <- PRole, Revision <- PRevision, Peer <- {"b", "c"}, Slots <- PSlots, Signal <- PSignal,
    Weights <- PWeights, AllowedFails <- 0, Affinity <- TRUE, BlockWeight <- 10, KVWeight <- 1,
    KVSaturation <- 95, Call <- PCall, Answers <- PAnswers, Events <- {"status"}, Movers <- {"b"},
    Statuses <- PStatuses

\* split: two prefill workers for one decoder, beside a request of the leader's
\* own engine.
SRole == [Whole EXCEPT !["a"] = "prefill", !["b"] = "prefill", !["c"] = "decode"]
SCall == ("r1" :> [Plain("three") EXCEPT !.penalty = "unset", !.prefix = <<"k1">>])
         @@ ("r2" :> Plain("own"))
SAnswers == [Faulty EXCEPT !["local"] = {"ok"}]
S == INSTANCE Router WITH
    Role <- SRole, AllowedFails <- 0, Affinity <- TRUE, Call <- SCall, Answers <- SAnswers,
    Events <- {"expire"}, Movers <- {}, Changes <- 0

\* gangs: two gangs, a caller's own fallback, a unary operation.
GP95s == {[m \in Catalogue |-> 0], [m \in Catalogue |-> IF m = "sharded" THEN 9 ELSE 3]}
GCall == ("r1" :> [Plain("sharded") EXCEPT !.fallbacks = <<"onC">>, !.sort = "latency"])
         @@ ("r2" :> [Plain("sharded") EXCEPT !.op = "unary", !.fallbacks = <<"onC">>])
GAnswers == [Faulty EXCEPT !["g2"] = @ \cup {"nooperation"}]
GStatuses == {"silent", "stale"}
GEvents == {"status", "register", "reshape"}
G == INSTANCE Router WITH
    P95s <- GP95s, Threshold <- 5, AllowedFails <- 1, Call <- GCall, Answers <- GAnswers,
    Events <- GEvents, Movers <- {"a", "c"}, Statuses <- GStatuses

\* hedge: a hedged request whose client may leave; typed fallbacks beside it.
HChains == [m \in Catalogue |-> [NoChains EXCEPT !.context = <<"onB">>]]
HAnswers == [Faulty EXCEPT !["a"] = {"ok", "unreachable", "context", "unsupported"}]
HCall == ("r1" :> [Plain("two") EXCEPT !.hedge = TRUE, !.leaves = TRUE]) @@ ("r2" :> Plain("two"))
H == INSTANCE Router WITH
    Chains <- HChains, Cap <- 1, AllowedFails <- 1, HedgeReplicas <- 2, Call <- HCall,
    Answers <- HAnswers

\* Each is a router whose promises FailoverProofs proves.
ASSUME FleetsAssumption == Configured /\ P!Configured /\ S!Configured /\ G!Configured /\ H!Configured

-----------------------------------------------------------------------------

MCInit ==
    \/ which = "workers" /\ Init
    \/ which = "roles" /\ P!Init
    \/ which = "split" /\ S!Init
    \/ which = "gangs" /\ G!Init
    \/ which = "hedge" /\ H!Init

MCNext ==
    /\ UNCHANGED which
    /\ \/ which = "workers" /\ Next
       \/ which = "roles" /\ P!Next
       \/ which = "split" /\ S!Next
       \/ which = "gangs" /\ G!Next
       \/ which = "hedge" /\ H!Next

MCGo ==
    /\ UNCHANGED which
    /\ \/ which = "workers" /\ Go
       \/ which = "roles" /\ P!Go
       \/ which = "split" /\ S!Go
       \/ which = "gangs" /\ G!Go
       \/ which = "hedge" /\ H!Go

MCSpec == MCInit /\ [][MCNext]_allVars /\ WF_allVars(MCGo)

-----------------------------------------------------------------------------

\* The router implements Failover: one target at a time, none asked again that
\* gave nothing, alternatives only forwards, and every request ends, served or
\* failed, under the fairness of its own goroutine (Chat's loop, nextworker.go).
Promise == INSTANCE Failover WITH
    NoTarget <- None, Alternatives <- 2,
    asking <- [q \in Pair |-> Asking(req[q])],
    silent <- [q \in Pair |-> req[q].skipped],
    at <- [q \in Pair |-> req[q].i],
    result <- [q \in Pair |-> Result(req[q])]
ImplementsFailover == Promise!Spec
=============================================================================
