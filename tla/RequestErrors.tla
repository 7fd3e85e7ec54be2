---------------------------- MODULE RequestErrors ----------------------------
(***************************************************************************)
(* What becomes of one request between the caller and the engine: the      *)
(* leader's checks (api/openai.go, api/embeddings.go, api/rerank.go, and   *)
(* api/anthropic.go in front of chat), the call the router makes at a      *)
(* place, the worker's handler and the driver that reads the engine, and   *)
(* back through the same hops.  The drivers of engines/openaicompat serve  *)
(* twice, from a worker to its engine and from the leader to a worker, so  *)
(* every failure is written and read again on its way.  A place is the     *)
(* leader's own engine, a worker, or a gang's coordinator (called without  *)
(* a worker's handler between).  Bodies are their shape, messages are      *)
(* left out; a stream after its first event is the matter of StreamPath,   *)
(* and the choice of a place that of Router.                               *)
(***************************************************************************)
EXTENDS Integers, Sequences, SequencesExt

CONSTANTS
  Statuses,     \* the statuses other than 200 an engine answers with
  Documents,    \* how many documents a rerank request names
  Scores,       \* the scores an engine gives
  MaxTries      \* bound: the places one request is sent to

VARIABLES
  req,      \* the request: kind, shape, and what it carries
  stage,    \* where it is
  place,    \* where the router sent it last
  fell,     \* the router is past the first model of the chain
  asked,    \* the calls so far and what the engine did with each (a history variable)
  wire,     \* the worker's answer to the leader
  out,      \* what the leader's driver made of the last call
  primaryErr, \* the error the router returns when nothing serves, and where it came from
  answer,   \* what the caller was answered
  row       \* its usage row

vars == <<req, stage, place, fell, asked, wire, out, primaryErr, answer, row>>

None == "none"
EngineUnreachableType == "engine_unreachable_on_worker"

Kinds  == {"chat", "anthropic", "count", "embeddings", "rerank"}
Chats  == {"chat", "anthropic", "count"}
Places == {"local", "worker", "gang"}

---------------------------------------------------------------------------
(* What a driver returns (engines/errors.go), and the HTTP answers it      *)
(* reads.  Status 0 is a call that got no answer.                          *)

HTTP(status, type, items) == [status |-> status, type |-> type, items |-> items]
NoAnswer == HTTP(0, None, <<>>)
NotCalled(why) == HTTP(0, why, <<>>)
NoScore == -1   \* an item without a score

Ok(items)       == [class |-> "ok", status |-> 200, items |-> items]
Fail(class, s)  == [class |-> class, status |-> s, items |-> <<>>]
Upstream(s)     == Fail("upstream", s)
Unreachable     == Fail("unreachable", 0)
Unsupported     == Fail("unsupported", 0)
NotSupported(s) == Fail("rerank_not_supported", s)
NoError         == [place |-> None, out |-> Ok(<<>>)]

\* A 4xx that is about the request: not about our credentials, our model
\* name, or the engine's load.
ClientStatus(o) ==
  /\ o.class = "upstream" /\ o.status \in 400 .. 499
  /\ o.status \notin {401, 403, 404, 408, 429}

FromWorkerAnswer(a) == IF a.type = EngineUnreachableType THEN Unreachable ELSE Upstream(a.status)

\* The chat drivers.  A stream that breaks before its first event is an
\* answer that never started (router/chat.go), whoever relays the break.
Chat(a) ==
  CASE a.status = 0                        -> Unreachable
    [] a.status # 200                      -> FromWorkerAnswer(a)
    [] a.type = "stream_broken"            -> Fail("broke_before_first_event", 200)
    [] OTHER                               -> Ok(<<>>)

\* Each vector goes to the input its index names; every input once.
Embed(a, n) ==
  CASE a.status = 0        -> Unreachable
    [] a.status # 200      -> FromWorkerAnswer(a)
    [] Len(a.items) # n    -> Upstream(200)
    [] {d.index : d \in ToSet(a.items)} # 0 .. n - 1 -> Upstream(200)
    [] OTHER               -> Ok([i \in 1 .. n |-> CHOOSE d \in ToSet(a.items) : d.index = i - 1])

\* Every document scored once; none scored means a model that does not rerank.
Rerank(a, n) ==
  CASE a.status = 0                                     -> Unreachable
    [] a.status = 501                                   -> NotSupported(501)
    [] a.status # 200                                   -> Upstream(a.status)
    [] \/ \E d \in ToSet(a.items) : d.index \notin 0 .. n - 1 \/ d.score = NoScore
       \/ \E i, j \in DOMAIN a.items : i # j /\ a.items[i].index = a.items[j].index
                                                        -> Upstream(200)
    [] a.items = <<>>                                   -> NotSupported(200)
    [] Len(a.items) # n                                 -> Upstream(200)
    [] OTHER                                            -> Ok(a.items)

Wanted(r) == IF r.kind = "rerank" THEN Documents ELSE Len(r.inputs)

Driver(r, a) ==
  CASE r.kind \in Chats      -> Chat(a)
    [] r.kind = "embeddings" -> Embed(a, Wanted(r))
    [] r.kind = "rerank"     -> Rerank(a, Wanted(r))

---------------------------------------------------------------------------
(* The worker's handlers.                                                  *)

\* Mutant: every failure of the engine is the worker's bad gateway.
WriteAnyFailure(o) ==
  IF o.class = "unreachable" THEN HTTP(502, EngineUnreachableType, <<>>) ELSE HTTP(502, None, <<>>)

WriteEngineFailure(o) ==
  CASE o.class = "unreachable" -> HTTP(502, EngineUnreachableType, <<>>)
    [] ClientStatus(o)         -> HTTP(o.status, None, <<>>)
    [] OTHER                   -> HTTP(502, None, <<>>)

\* chatCompletions: the stream it writes begins with a chunk that carries no
\* content, and a break is an event of it.
WorkerChat(o) ==
  CASE o.class = "ok"                       -> HTTP(200, None, <<>>)
    [] o.class = "broke_before_first_event" -> HTTP(200, "stream_broken", <<>>)
    [] o.class = "unsupported"              -> HTTP(400, "unsupported_request", <<>>)
    [] OTHER                                -> WriteEngineFailure(o)

\* The vectors by their place.
WorkerEmbeddings(o) ==
  IF o.class = "ok"
  THEN HTTP(200, None, [i \in DOMAIN o.items |-> [index |-> i - 1, of |-> o.items[i].of]])
  ELSE WriteEngineFailure(o)

WorkerRerank(o) ==
  CASE o.class = "ok"                                        -> HTTP(200, None, o.items)
    [] o.class = "rerank_not_supported"                      -> HTTP(501, "rerank_not_supported", <<>>)
    [] o.class = "upstream" /\ o.status \in 400 .. 499       -> HTTP(o.status, "upstream", <<>>)
    [] OTHER                                                 -> HTTP(502, None, <<>>)

Handler(r, o) ==
  CASE r.kind \in Chats      -> WorkerChat(o)
    [] r.kind = "embeddings" -> WorkerEmbeddings(o)
    [] r.kind = "rerank"     -> WorkerRerank(o)

---------------------------------------------------------------------------
(* The leader's answers.                                                   *)

Said(status, type, retry) == [status |-> status, type |-> type, retry |-> retry, items |-> <<>>]
NotYet == Said(0, None, FALSE)

nothingAnswered(o) == o.class \in {"unreachable", "broke_before_first_event"}

upstreamPassthrough(o) ==
  o.class \in {"upstream", "rerank_not_supported"} /\ o.status \in {400, 404, 413, 422, 429, 503}
Relayed(o) == Said(o.status, "upstream", o.status \in {503, 429})

workerGone(p, o) == p = "worker" /\ nothingAnswered(o)
gangGone(p, o)   == p = "gang" /\ nothingAnswered(o)
\* why: Unavailable names a reason nothing can serve the model now.
capacityGone(p, o, why) == p = "local" /\ nothingAnswered(o) /\ why

GoneType(p) ==
  CASE p = "worker" -> "worker_unreachable" [] p = "gang" -> "gang_unreachable" [] OTHER -> "unavailable"
Gone(p, o, why) == workerGone(p, o) \/ gangGone(p, o) \/ capacityGone(p, o, why)

classifyEngineError(o) ==
  Said(502, IF o.class = "unreachable" THEN "engine_unreachable" ELSE "upstream_error", FALSE)

ChatError(p, o, why) ==
  CASE o.class = "unsupported"   -> Said(400, "unsupported_request", FALSE)
    [] upstreamPassthrough(o)    -> Relayed(o)
    [] Gone(p, o, why)           -> Said(503, GoneType(p), TRUE)
    [] OTHER                     -> classifyEngineError(o)

\* Embeddings relay no status of the engine.
EmbeddingsError(p, o, why) ==
  IF Gone(p, o, why) THEN Said(503, GoneType(p), TRUE) ELSE Said(502, "upstream_error", FALSE)

writeRerankError(p, o, why) ==
  CASE Gone(p, o, why)                    -> Said(503, GoneType(p), TRUE)
    [] o.class = "rerank_not_supported"   -> Said(501, "rerank_not_supported", FALSE)
    [] upstreamPassthrough(o)             -> Relayed(o)
    [] OTHER                              -> classifyEngineError(o)

Better(x, y) == x.score > y.score \/ (x.score = y.score /\ x.index < y.index)
Cut(s, n) == IF n > 0 /\ n < Len(s) THEN SubSeq(s, 1, n) ELSE s

\* The most relevant first, no more of them than asked for.
Ranked(items, topN) == Cut(SetToSortSeq(ToSet(items), Better), topN)

anthropicErrorType(status) ==
  CASE status = 401 -> "authentication_error"
    [] status = 403 -> "permission_error"
    [] status = 404 -> "not_found_error"
    [] status = 413 -> "request_too_large"
    [] status = 429 -> "rate_limit_error"
    [] status = 503 -> "overloaded_error"
    [] status \notin {401, 403, 404, 413, 429, 503} /\ status >= 500 -> "api_error"
    [] OTHER -> "invalid_request_error"

\* AnthropicWriter.Finish, and dispatchAnthropicCount's use of it: an error in
\* Anthropic's envelope, its status and headers kept.
Shaped(r, a) ==
  IF r.kind \in {"anthropic", "count"} /\ a.status >= 300
  THEN [a EXCEPT !.type = anthropicErrorType(a.status)] ELSE a

---------------------------------------------------------------------------
(* The steps.                                                              *)

\* parseEmbeddingInput: the empty strings are skipped.
parseEmbeddingInput(inputs) == SelectSeq(inputs, LAMBDA s : s # "")

Init ==
  /\ \E kind \in Kinds, bad \in {None, "too_big", "body", "model"}, inputs \in BoundedSeq({"", "x"}, 3),
        topN \in 0 .. Documents :
       /\ kind # "embeddings" => inputs = <<>>
       /\ kind # "rerank" => topN = 0
       /\ req = [kind |-> kind, bad |-> bad, inputs |-> inputs, topN |-> topN]
  /\ stage = "arrived" /\ place = None /\ fell = FALSE /\ asked = <<>>
  /\ wire = NoAnswer /\ out = Ok(<<>>) /\ primaryErr = NoError /\ answer = NotYet /\ row = None

\* The checks before anything is called: the body's size and shape (for the
\* Anthropic shape AnthropicToChat's own), and the model's name.
Refusal(r) ==
  CASE r.bad = "too_big" -> 413
    [] r.bad = "body"    -> 400
    [] r.kind = "embeddings" /\ parseEmbeddingInput(r.inputs) = <<>> -> 400
    [] r.bad = "model"   -> 404
    [] OTHER             -> 0

Refuse ==
  /\ stage = "arrived" /\ Refusal(req) # 0
  /\ answer' = Shaped(req, Said(Refusal(req), None, FALSE))
  /\ stage' = "done"
  /\ UNCHANGED <<req, place, fell, asked, wire, out, primaryErr, row>>

\* The router sends the request to a place.  A retry there takes the place of
\* the call before it, and is left out.
Dispatch(p) ==
  /\ stage = "arrived" /\ Refusal(req) = 0
  /\ req' = [req EXCEPT !.inputs = parseEmbeddingInput(@)]
  /\ place' = p /\ stage' = "called"
  /\ UNCHANGED <<fell, asked, wire, out, primaryErr, answer, row>>

\* Mutant: the router returns the error of the place it asked last.
KeepLast(o) == primaryErr' = IF o.class = "ok" THEN primaryErr ELSE [place |-> place, out |-> o]

\* primaryErr is the error of the first place that failed, with its name
\* (failedOn); the later ones do not replace it.
KeepFirst(o) ==
  primaryErr' = IF o.class # "ok" /\ primaryErr = NoError THEN [place |-> place, out |-> o] ELSE primaryErr

\* A call has returned: what the engine did (its body only where it served).
Returned(a, o) ==
  /\ asked' = Append(asked, [place |-> place, fell |-> fell, status |-> a.status, type |-> a.type,
                             items |-> IF o.class = "ok" THEN a.items ELSE <<>>])
  /\ out' = o /\ stage' = "returned"
  /\ UNCHANGED <<req, place, fell, answer, row>>

\* The place cannot be reached.
CallFails ==
  /\ stage = "called"
  /\ Returned(NotCalled("unreached"), Driver(req, NoAnswer))
  /\ KeepFirst(out') /\ UNCHANGED wire

\* unary: the leader's own engine has no route for the operation.  It is not
\* called, and on the first model this error takes the place of any other.
EngineLacks ==
  /\ stage = "called" /\ place = "local" /\ req.kind \in {"embeddings", "rerank"}
  /\ Returned(NotCalled("lacking"),
              IF req.kind = "rerank" THEN NotSupported(0) ELSE Fail("no_embeddings", 0))
  /\ primaryErr' = IF fell THEN primaryErr ELSE [place |-> place, out |-> out']
  /\ UNCHANGED wire

\* What an engine may answer: an error, a body of the shape asked for, and for
\* chat a driver that refuses before it calls, or a stream that breaks at once.
EngineAnswers(r) ==
  {HTTP(s, None, <<>>) : s \in Statuses} \cup {NoAnswer} \cup
  (CASE r.kind \in Chats -> {HTTP(200, None, <<>>), HTTP(200, "stream_broken", <<>>)}
     [] r.kind = "embeddings" ->
          {HTTP(200, None, [i \in DOMAIN s |-> [index |-> s[i], of |-> s[i]]]) :
             s \in BoundedSeq(0 .. Len(r.inputs), Len(r.inputs))}
     [] r.kind = "rerank" ->
          {HTTP(200, None, s) :
             s \in BoundedSeq([index : 0 .. Documents, score : Scores], Documents)})

\* The engine answers its caller: the leader, or the worker's handler, which
\* answers the leader.
Through(a, o) ==
  /\ wire' = IF place = "worker" THEN Handler(req, o) ELSE a
  /\ Returned(a, IF place = "worker" THEN Driver(req, wire') ELSE o)
  /\ KeepFirst(out')

EngineDoes(a) ==
  /\ stage = "called" /\ a \in EngineAnswers(req)
  /\ Through(a, Driver(req, a))

\* The driver refuses what the engine cannot do (Client.NoImages).
DriverRefuses ==
  /\ stage = "called" /\ req.kind \in Chats
  /\ Through(NotCalled("unsupported"), Unsupported)

\* The request goes on to a place.
Again(p) ==
  /\ stage = "returned" /\ Len(asked) < MaxTries
  /\ place' = p /\ stage' = "called" /\ wire' = NoAnswer /\ out' = Ok(<<>>)
  /\ UNCHANGED <<req, asked, primaryErr, answer, row>>

\* tryNextWorker: nothing answered at a worker or a gang, and another is left.
TryNext(p) ==
  /\ nothingAnswered(out) /\ place # "local"
  /\ Again(p) /\ UNCHANGED fell

\* The chain goes on: another model is asked for, whatever the failure was.
Fallback(p) ==
  /\ out.class # "ok" /\ ~(nothingAnswered(out) /\ place # "local")
  /\ Again(p) /\ fell' = TRUE

Failure(p, o, why) ==
  CASE req.kind \in Chats      -> ChatError(p, o, why)
    [] req.kind = "embeddings" -> EmbeddingsError(p, o, why)
    [] req.kind = "rerank"     -> writeRerankError(p, o, why)

Success ==
  [Said(200, None, FALSE) EXCEPT !.items =
     IF req.kind = "rerank" THEN Ranked(out.items, req.topN) ELSE out.items]

\* ChatCompletions, Embeddings and Rerank once the router has returned: the
\* answer of the place that served, or primaryErr (also when no worker is left
\* to pick and the chain is at its end).
Answer(why) ==
  /\ stage = "returned"
  /\ answer' = Shaped(req, IF out.class = "ok" THEN Success ELSE Failure(primaryErr.place, primaryErr.out, why))
  /\ row' = IF out.class = "ok" THEN "ok" ELSE "error"
  /\ stage' = "done"
  /\ UNCHANGED <<req, place, fell, asked, wire, out, primaryErr>>

Next ==
  \/ Refuse
  \/ \E p \in Places : Dispatch(p) \/ TryNext(p) \/ Fallback(p)
  \/ CallFails
  \/ EngineLacks
  \/ DriverRefuses
  \/ \E a \in EngineAnswers(req) : EngineDoes(a)
  \/ \E why \in BOOLEAN : Answer(why)

Spec == Init /\ [][Next]_vars

---------------------------------------------------------------------------
(* Properties                                                              *)

Lacking == {i \in DOMAIN asked : asked[i].type = "lacking" /\ ~asked[i].fell}

\* The call the caller is told of when none served: the first, unless the
\* leader's own engine was asked for the model and has no such operation.
Told == IF Lacking = {} THEN asked[1] ELSE asked[CHOOSE i \in Lacking : \A j \in Lacking : j <= i]

\* A failure keeps its meaning through the hops it is written and read on
\* (writeEngineFailure, FromWorkerAnswer, upstreamPassthrough, workerGone) and
\* through the places asked after it (primaryErr): a caller whom no place
\* served is told of the first one.  If it refused the request, the caller gets
\* that status (embeddings make it 502); if it did not answer, a 503 to come
\* back for that names its kind (at a worker's rerank whose engine is silent it
\* is not), and never a refusal of a place asked later.  The caller sees a 4xx
\* only for what the leader or that place refused, with its status, never the
\* engine's view of our credentials.  Retry-After goes with 503 and 429 and
\* nothing else, and every request that left the leader has one usage row, "ok"
\* exactly when some place served it, whichever failed before.
ErrorsKeepTheirMeaning ==
  stage = "done" =>
    LET called == asked # <<>>
        served == called /\ Last(asked).status = 200 /\ out.class = "ok"
        failed == called /\ ~served
        silent == Told.status = 0 /\ Told.type \notin {"unsupported", "lacking"}
    IN
    /\ failed /\ Told.status \in {400, 413, 422} /\ req.kind # "embeddings" => answer.status = Told.status
    /\ failed /\ answer.status \in 400 .. 499 =>
         Told.status = answer.status \/ (Told.type = "unsupported" /\ answer.status = 400)
    /\ failed => answer.status \notin {401, 403, 408}
    /\ failed /\ silent /\ Told.place # "local"
         /\ ~(req.kind = "rerank" /\ Told.place = "worker" /\ Told.type # "unreached")
         => answer.status = 503 /\ (req.kind \notin {"anthropic", "count"} => answer.type = GoneType(Told.place))
    /\ answer.retry <=> (answer.status \in {503, 429})
    /\ (row # None <=> called)
    /\ called => ((row = "ok") <=> served) /\ (served <=> answer.status = 200)

\* A 200 answers what was asked: the vector at each place is that of the input
\* there (Embed by index, the worker by position, Embed again), and a rerank
\* names the best documents, in order, as many as asked for (Rerank, top_n).
AnswersMatchTheAsk ==
  stage = "done" /\ answer.status = 200 =>
    /\ req.kind = "embeddings" =>
         /\ Len(answer.items) = Len(req.inputs)
         /\ \A i \in DOMAIN answer.items : answer.items[i].of = i - 1
    /\ req.kind = "rerank" =>
         LET said  == Last(asked).items
             given == answer.items
         IN  /\ Len(given) = IF req.topN = 0 THEN Documents ELSE req.topN
             /\ ToSet(given) \subseteq ToSet(said)
             /\ \A i, j \in DOMAIN given : i < j => Better(given[i], given[j])
             /\ \A x \in ToSet(said) \ ToSet(given) : \A i \in DOMAIN given : Better(given[i], x)
=============================================================================
