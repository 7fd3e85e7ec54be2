----------------------------- MODULE CellDoor ------------------------------
(***************************************************************************)
(* The cell door: one URL for many endpoints.  It follows a routes file,   *)
(* forwards a request to the endpoint its model names, tries an auto       *)
(* route's candidates in turn, and lists the aliases a key is good for.    *)
(* A route is a name route (one candidate, no hops) or an auto route; an   *)
(* alias no file routes is absent from the document.                       *)
(***************************************************************************)
EXTENDS Naturals, Sequences, FiniteSets, SequencesExt

CONSTANTS
  Files,            \* the documents written in turn: [good, routes], routes a function of aliases
  Aliases, Tools,   \* the endpoints whose model calls tools
  Endpoints,
  doorLoadTTL, doorModelsTTL, doorModelsProbe,
  MaxTurns,         \* bound: changes of the endpoints and ticks of the clock
  MaxCalls          \* bound: requests and listings

VARIABLES
  file, seen,       \* the version on disk; the one whose modification time the watcher saw last
  reading,          \* the watcher: between its stat and its read, or 0
  routes,           \* the routes in force, "none" before the first
  endpoint,         \* what each endpoint answers, and its load
  loads,            \* the loads kept for doorLoadTTL
  request,          \* a caller's request
  listing, cached,  \* a caller's listing of the models, and the answer kept for doorModelsTTL
  gone,             \* for how long an alias has been unrouted (capped)
  turns, calls
vars == <<file, seen, reading, routes, endpoint, loads, request, listing, cached, gone, turns, calls>>

Far == doorModelsTTL + doorModelsProbe + 1
NoLoad == [age |-> doorLoadTTL, ok |-> FALSE, score |-> 0]
Idle == [at |-> "idle"]

Init ==
  /\ file = 1 /\ seen = 0 /\ reading = 0
  /\ routes = <<>>
  /\ endpoint = [e \in Endpoints |-> [answers |-> "ok", score |-> 0]]
  /\ loads = [e \in Endpoints |-> NoLoad]
  /\ request = Idle /\ listing = Idle /\ cached = [age |-> doorModelsTTL, ids |-> {}]
  /\ gone = [a \in Aliases |-> Far]
  /\ turns = 0 /\ calls = 0

Routed(a) == a \in DOMAIN routes

---------------------------------------------------------------------------
(* The file, its watcher, the endpoints, the clock.                        *)

WriteFile ==
  /\ file < Len(Files)
  /\ file' = file + 1
  /\ UNCHANGED <<seen, reading, routes, endpoint, loads, request, listing, cached, gone, turns, calls>>

\* load: stat, then read; a newer document may be written in between.
StatFile ==
  /\ reading = 0 /\ file > seen
  /\ reading' = file
  /\ UNCHANGED <<file, seen, routes, endpoint, loads, request, listing, cached, gone, turns, calls>>

\* apply: the document is swapped in whole, or not at all; the kept listings go.
Apply ==
  /\ reading # 0
  /\ seen' = reading /\ reading' = 0
  /\ routes' = IF Files[file].good THEN Files[file].routes ELSE routes
  /\ cached' = IF Files[file].good THEN [cached EXCEPT !.age = doorModelsTTL] ELSE cached
  /\ gone' = [a \in Aliases |-> IF a \in DOMAIN routes' THEN 0 ELSE gone[a]]
  /\ UNCHANGED <<file, endpoint, loads, request, listing, turns, calls>>

EndpointTurns(e) ==
  /\ turns < MaxTurns /\ turns' = turns + 1
  /\ \E a \in {"ok", "busy", "context", "refuses", "down"}, s \in 0..1 :
       (s = 1 => a = "ok") /\ endpoint' = [endpoint EXCEPT ![e] = [answers |-> a, score |-> s]]
  /\ UNCHANGED <<file, seen, reading, routes, loads, request, listing, cached, gone, calls>>

\* A listing's probes do not outlive their timeout.
Tick ==
  /\ turns < MaxTurns /\ turns' = turns + 1
  /\ listing.at = "probing" => listing.age < doorModelsProbe
  /\ listing' = IF listing.at = "probing" THEN [listing EXCEPT !.age = @ + 1] ELSE listing
  /\ loads' = [e \in Endpoints |-> IF loads[e].age < doorLoadTTL THEN [loads[e] EXCEPT !.age = @ + 1] ELSE loads[e]]
  /\ cached' = IF cached.age < doorModelsTTL THEN [cached EXCEPT !.age = @ + 1] ELSE cached
  /\ gone' = [a \in Aliases |-> IF Routed(a) THEN 0 ELSE IF gone[a] < Far THEN gone[a] + 1 ELSE Far]
  /\ UNCHANGED <<file, seen, reading, routes, endpoint, request, calls>>

---------------------------------------------------------------------------
(* A request: forward and forwardAuto.                                     *)

\* forward looks among the auto routes first, then among the name routes.
Arrive(a, tools) ==
  /\ request.at \in {"idle", "over"} /\ calls < MaxCalls /\ calls' = calls + 1
  /\ request' = IF Routed(a) /\ routes[a].auto THEN [at |-> "order", tools |-> tools, route |-> routes[a]]
                ELSE [at |-> "name", alias |-> a, tools |-> tools]
  /\ UNCHANGED <<file, seen, reading, routes, endpoint, loads, listing, cached, gone, turns>>

NameRoute ==
  /\ request.at = "name"
  /\ request' = IF Routed(request.alias) /\ ~routes[request.alias].auto
                THEN [at |-> "try", left |-> routes[request.alias].cands, tries |-> 1, tried |-> <<>>, tools |-> FALSE]
                ELSE [at |-> "over", tried |-> <<>>, tries |-> 0, tools |-> FALSE, got |-> "not found"]
  /\ UNCHANGED <<file, seen, reading, routes, endpoint, loads, listing, cached, gone, turns, calls>>

\* loadOf: the load kept, or what /loadz says now; no serving worker or no answer is not ok.
loadOf(e) ==
  IF loads[e].age < doorLoadTTL THEN loads[e]
  ELSE [age |-> 0, ok |-> endpoint[e].answers \notin {"busy", "down"}, score |-> endpoint[e].score]
Before(e, f) == (loadOf(e).ok /\ ~loadOf(f).ok) \/ (loadOf(e).ok /\ loadOf(f).ok /\ loadOf(e).score < loadOf(f).score)

\* byLoad: a stable sort, serving candidates by load, then the rest.
byLoad(cands) ==
  LET place(i) == Cardinality({j \in DOMAIN cands : Before(cands[j], cands[i]) \/ (j < i /\ ~Before(cands[i], cands[j]))}) + 1 IN
  [k \in DOMAIN cands |-> cands[CHOOSE i \in DOMAIN cands : place(i) = k]]

Order ==
  /\ request.at = "order"
  /\ LET r == request.route
         fit == SelectSeq(r.cands, LAMBDA e : request.tools => e \in Tools)
         least == r.pick = "least-loaded" IN
     /\ loads' = IF least THEN [e \in Endpoints |-> IF e \in ToSet(fit) THEN loadOf(e) ELSE loads[e]] ELSE loads
     /\ request' = IF fit = <<>> THEN [at |-> "over", tried |-> <<>>, tries |-> 0, tools |-> TRUE, got |-> "no tools"]
                   ELSE [at |-> "try", left |-> IF least THEN byLoad(fit) ELSE fit, tried |-> <<>>, tools |-> request.tools,
                         tries |-> IF Len(fit) < r.hops + 1 THEN Len(fit) ELSE r.hops + 1]
  /\ UNCHANGED <<file, seen, reading, routes, endpoint, listing, cached, gone, turns, calls>>

\* Mutant: every refusal is tried elsewhere.
doorTryNextAlways(got) == got # "ok"

\* doorTryNext, and an endpoint that does not answer.
doorTryNext(got) == got \in {"busy", "context", "down"}

\* One try: the answer is the client's unless another candidate may take the request.
Try ==
  /\ request.at = "try"
  /\ LET e == Head(request.left)
         got == endpoint[e].answers
         tried == Append(request.tried, [by |-> e, got |-> got])
         last == Len(tried) = request.tries IN
     request' = IF ~last /\ doorTryNext(got) THEN [request EXCEPT !.left = Tail(@), !.tried = tried]
                ELSE [at |-> "over", tried |-> tried, tries |-> request.tries, tools |-> request.tools, got |-> got]
  /\ UNCHANGED <<file, seen, reading, routes, endpoint, loads, listing, cached, gone, turns, calls>>

---------------------------------------------------------------------------
(* A listing: acceptedAliases.                                             *)

\* An answer is kept for doorModelsTTL.
Kept == cached.age < doorModelsTTL

ListModels ==
  /\ listing.at \in {"idle", "over"} /\ calls < MaxCalls /\ calls' = calls + 1
  /\ listing' = IF Kept THEN [at |-> "over", ids |-> cached.ids]
                ELSE [at |-> "probing", age |-> 0, asked |-> routes, ok |-> {}, left |-> UNION {ToSet(routes[a].cands) : a \in DOMAIN routes}]
  /\ UNCHANGED <<file, seen, reading, routes, endpoint, loads, request, cached, gone, turns>>

\* accepts, one endpoint at a time; out of time counts as no.
Probe(e, inTime) ==
  /\ listing.at = "probing" /\ e \in listing.left
  /\ listing' = [listing EXCEPT !.left = @ \ {e}, !.ok = IF inTime /\ endpoint[e].answers \notin {"down", "refuses"} THEN @ \cup {e} ELSE @]
  /\ UNCHANGED <<file, seen, reading, routes, endpoint, loads, request, cached, gone, turns, calls>>

Listed ==
  /\ listing.at = "probing" /\ listing.left = {}
  /\ LET ids == {a \in DOMAIN listing.asked : ToSet(listing.asked[a].cands) \cap listing.ok # {}} IN
     /\ listing' = [at |-> "over", ids |-> ids]
     /\ cached' = [age |-> 0, ids |-> ids]
  /\ UNCHANGED <<file, seen, reading, routes, endpoint, loads, request, gone, turns, calls>>

Next ==
  \/ WriteFile \/ StatFile \/ Apply \/ Tick \/ NameRoute \/ Order \/ Try \/ ListModels \/ Listed
  \/ \E e \in Endpoints : EndpointTurns(e) \/ Probe(e, TRUE) \/ Probe(e, FALSE)
  \/ \E a \in Aliases, tools \in BOOLEAN : Arrive(a, tools)
Spec == Init /\ [][Next]_vars

---------------------------------------------------------------------------
\* A request is answered by the first candidate that can take it (forwardAuto, doorTryNext): no
\* endpoint gets it twice, every one before the last passed it on, what ends it early is an answer
\* no other endpoint would change, and tools go only where they can be called.
FirstAbleAnswers ==
  request.at = "over" =>
    LET t == request.tried IN
    /\ Len(t) <= request.tries
    /\ \A i \in DOMAIN t : \A j \in DOMAIN t : i # j => t[i].by # t[j].by
    /\ \A i \in DOMAIN t : request.tools => t[i].by \in Tools
    /\ \A i \in DOMAIN t : i < Len(t) => t[i].got \in {"busy", "context", "down"}
    /\ (t # <<>> /\ Len(t) < request.tries) => Last(t).got \in {"ok", "refuses"}

\* A listing names an alias at most as long after its route went as an answer is kept and a probe
\* may take (acceptedAliases, apply).
ListsRecent == listing'.at = "over" /\ (calls' # calls \/ listing.at = "probing") /\ UNCHANGED request => \A a \in listing'.ids : gone[a] < Far
=============================================================================
