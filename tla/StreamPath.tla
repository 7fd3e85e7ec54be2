----------------------------- MODULE StreamPath -----------------------------
(***************************************************************************)
(* One chat answer on its way from an engine to the caller: engine, the    *)
(* worker's driver, the guard of a decode step, the worker's writer, the   *)
(* leader's client, the router's relay, the leader's handler.  Each hop is *)
(* a goroutine of its own behind a bounded channel or a connection; the    *)
(* engine or the worker may die, and the caller may leave, at any moment.  *)
(* The engine is external: it sends any well-formed stream of its dialect, *)
(* cut or ended in any of the ways the drivers handle.                     *)
(***************************************************************************)
EXTENDS Integers, Sequences, SequencesExt, FiniteSets

(***************************************************************************)
(* The translations a chat answer goes through between an engine and the   *)
(* caller: the drivers that read the engine's stream into StreamEvents     *)
(* (engines/openaicompat, engines/ollama), the worker's guard and writer   *)
(* (agent/server.go), and the leader's writers for the OpenAI and the      *)
(* Anthropic shape (api/openai.go, api/anthropic.go).  A piece of content  *)
(* is its number in the engine's answer, so that order and loss show.      *)
(* Ids, timestamps, model names, log probabilities and wording are left    *)
(* out; a token count is the fact that the engine sent one.                *)
(***************************************************************************)

None == "none"   \* a nil finish_reason, a nil error, an absent error type

StreamBrokenType == "stream_broken"

\* The lines of a stream.  A fragment of a tool call is [idx, n].
Chunk(text, tools, fin, usage) ==
  [k |-> "chunk", text |-> text, tools |-> tools, fin |-> fin, usage |-> usage]
ErrorLine(type) == [k |-> "error", type |-> type]
DoneLine  == [k |-> "done"]
UsageLine == [k |-> "usage"]
EndOfBody == {"eof", "broken"}

\* engines.StreamEvent
NoEvent == [text |-> <<>>, tools |-> <<>>, done |-> FALSE, err |-> None, type |-> None,
            reason |-> None, usage |-> FALSE]
TextEvent(text)   == [NoEvent EXCEPT !.text = text]
ToolEvent(tools)  == [NoEvent EXCEPT !.tools = tools]
Final(fin, usage) == [NoEvent EXCEPT !.done = TRUE, !.reason = fin, !.usage = usage]
Failed(err, type) == [NoEvent EXCEPT !.err = err, !.type = type]

\* An error event read from a stream: a break the sender relays reads back as a
\* break, anything else is the sender's own error.
StreamError(type) ==
  IF type = StreamBrokenType THEN Failed("broken", None) ELSE Failed("errored", type)

---------------------------------------------------------------------------
(* Reading: one line gives some events, and may end the stream.            *)

Step(evs, fin, over) == [evs |-> evs, fin |-> fin, over |-> over]

Given(c) ==
  (IF c.text = <<>> THEN <<>> ELSE <<TextEvent(c.text)>>) \o
  (IF c.tools = <<>> THEN <<>> ELSE <<ToolEvent(c.tools)>>)

\* The finish reason is kept until the usage, [DONE] or the end of the body.
ConsumeStream(line, fin) ==
  CASE line.k = "chunk" ->
         LET f   == IF line.fin = None THEN fin ELSE line.fin
             end == line.fin # None /\ line.usage
         IN  Step(Given(line) \o (IF end THEN <<Final(f, TRUE)>> ELSE <<>>), f, end)
    [] line.k = "usage"  -> Step(<<Final(fin, TRUE)>>, fin, TRUE)
    [] line.k = "done"   -> Step(<<Final(fin, FALSE)>>, fin, TRUE)
    [] line.k = "eof"    -> Step(<<Final(fin, FALSE)>>, fin, TRUE)
    [] line.k = "error"  -> Step(<<StreamError(line.type)>>, fin, TRUE)
    [] line.k = "broken" -> Step(<<Failed("broken", None)>>, fin, TRUE)
    [] OTHER             -> Step(<<Failed("decode", None)>>, fin, TRUE)

\* Ollama's lines: the last one carries the reason, the counts and, it may be,
\* text.  A body that ends without it ends the channel without an event.
ConsumeOllama(line, fin) ==
  CASE line.k = "chunk" ->
         LET end == line.fin # None
         IN  Step(Given([line EXCEPT !.tools = <<>>]) \o
                    (IF end THEN <<Final(line.fin, TRUE)>> ELSE <<>>), fin, end)
    [] line.k = "error"  -> Step(<<Failed("engine", None)>>, fin, TRUE)
    [] line.k = "broken" -> Step(<<Failed("broken", None)>>, fin, TRUE)
    [] line.k = "eof"    -> Step(<<>>, fin, TRUE)
    [] OTHER             -> Step(<<Failed("decode", None)>>, fin, TRUE)

---------------------------------------------------------------------------
(* The worker.                                                             *)

\* A decode step that ends with no token and no reason has failed its KV load.
KvLoadFails(ev, produced) == ev.done /\ ev.reason = None /\ ~produced
Produces(ev) == ev.text # <<>> \/ ev.tools # <<>>

InBandError(ev) ==
  CASE ev.err = "broken"  -> ErrorLine(StreamBrokenType)
    [] ev.err = "errored" -> ErrorLine(ev.type)
    [] OTHER              -> ErrorLine(None)

OrStop(reason) == IF reason = None THEN "stop" ELSE reason

Content(ev) ==
  (IF ev.tools = <<>> THEN <<>> ELSE <<Chunk(<<>>, ev.tools, None, FALSE)>>) \o
  (IF ev.text = <<>> THEN <<>> ELSE <<Chunk(ev.text, <<>>, None, FALSE)>>)

\* Mutant: an error ends the stream like an answer.
WriteSSEQuietly(ev) ==
  CASE ev.err # None -> <<>>
    [] ev.done       -> <<Chunk(<<>>, <<>>, OrStop(ev.reason), ev.usage), DoneLine>>
    [] OTHER         -> Content(ev)

\* The lines the worker writes for an event.
WriteSSE(ev) ==
  CASE ev.err # None -> <<InBandError(ev)>>
    [] ev.done       -> <<Chunk(<<>>, <<>>, OrStop(ev.reason), ev.usage), DoneLine>>
    [] OTHER         -> Content(ev)

---------------------------------------------------------------------------
(* The leader's answer: a stream, or one body gathered from the events.    *)

StreamResponse(ev) ==
  CASE ev.err # None -> <<ErrorLine("upstream_error"), DoneLine>>
    [] ev.done       -> <<Chunk(<<>>, <<>>, OrStop(ev.reason), ev.usage), DoneLine>>
    [] OTHER         -> Content(ev)

\* engines.ToolCallAccumulator: the calls in the order they first appeared.
NoCalls == [order |-> <<>>, args |-> <<>>]
At(order, idx) == CHOOSE i \in DOMAIN order : order[i] = idx
AddFragment(acc, f) ==
  IF f.idx \in ToSet(acc.order)
  THEN [acc EXCEPT !.args[At(acc.order, f.idx)] = Append(@, f.n)]
  ELSE [order |-> Append(acc.order, f.idx), args |-> Append(acc.args, <<f.n>>)]
AddCalls(acc, tools) == FoldLeft(AddFragment, acc, tools)

NoAnswer == [text |-> <<>>, calls |-> NoCalls]
Gather(agg, ev) == [text |-> agg.text \o ev.text, calls |-> AddCalls(agg.calls, ev.tools)]

\* The finish reason of a gathered answer: calls imply their own.
GatheredReason(agg, reason) ==
  IF agg.calls # NoCalls /\ OrStop(reason) = "stop" THEN "tool_calls" ELSE OrStop(reason)

---------------------------------------------------------------------------
(* api.AnthropicWriter: chat lines into Anthropic's events.                *)

NoWriter == [started |-> FALSE, finished |-> FALSE, open |-> -1, kind |-> None, next |-> 0,
             toolBlock |-> <<>>, out |-> <<>>]

Emit(a, ev) == [a EXCEPT !.out = Append(@, ev)]

CloseBlock(a) ==
  IF a.open < 0 THEN a
  ELSE [Emit(a, <<"block_stop", a.open>>) EXCEPT !.open = -1, !.kind = None]

OpenBlock(a, kind) ==
  [Emit(a, <<"block_start", a.next>>) EXCEPT !.open = a.next, !.kind = kind, !.next = a.next + 1]

\* toolBlock as a sequence of <<index of the call, its block>>.
BlockOf(a, idx) == {p[2] : p \in {q \in ToSet(a.toolBlock) : q[1] = idx}}

Deliver(a, ns) == FoldLeft(LAMBDA b, n : Emit(b, <<"delta", b.open, n>>), a, ns)

TextDelta(a, text) ==
  IF text = <<>> THEN a
  ELSE Deliver(IF a.kind = "text" THEN a ELSE OpenBlock(CloseBlock(a), "text"), text)

\* A fragment of a call whose block was closed by a later one is dropped.
ToolDelta(a, f) ==
  LET fresh == OpenBlock(CloseBlock(a), "tool_use")
  IN  IF BlockOf(a, f.idx) = {}
      THEN Deliver([fresh EXCEPT !.toolBlock = Append(@, <<f.idx, fresh.open>>)], <<f.n>>)
      ELSE IF BlockOf(a, f.idx) = {a.open} THEN Deliver(a, <<f.n>>) ELSE a

AnthropicStopReason(fin) ==
  CASE fin = "length" -> "max_tokens" [] fin = "tool_calls" -> "tool_use" [] OTHER -> "end_turn"

Started(a) == IF a.started THEN a ELSE [Emit(a, <<"message_start">>) EXCEPT !.started = TRUE]

AnthropicChunk(a, line) ==
  CASE a.finished \/ line.k = "done" -> a
    [] line.k = "error" -> [Emit(a, <<"error">>) EXCEPT !.finished = TRUE]
    [] line.k = "chunk" ->
         LET b == FoldLeft(ToolDelta, TextDelta(Started(a), line.text), line.tools)
         IN  IF line.fin = None THEN b
             ELSE [Emit(Emit(CloseBlock(b), <<"message_delta", AnthropicStopReason(line.fin)>>),
                        <<"message_stop">>) EXCEPT !.finished = TRUE]
    [] OTHER -> a

AnthropicStream(lines) == FoldLeft(AnthropicChunk, NoWriter, lines)

-----------------------------------------------------------------------------
CONSTANTS
  Requests,    \* the requests: route ("worker": via a worker; "local": the leader's own engine;
               \* "direct": a caller of the worker), dialect ("openai", "ollama"), mode ("stream",
               \* "aggregate"), kv (a decode step), pieces (bound: pieces of content sent)
  Cap,         \* bound: the channels' capacity (16 in the code)
  SilentEnd    \* an Ollama server may end a body without its last line

VARIABLES
  conf,    \* the request
  eng,     \* the engine: pieces sent so far, state, finish reason
  wire,    \* the two connections: lines not yet read
  ch,      \* the channels: "w" driver, "g" guard, "l" leader's client, "r" relay
  rd,      \* the two drivers reading a body: "w", "l"
  go,      \* the other goroutines: guard, writer, relay, handler: "run" | "drain" | "over"
  gone,    \* contexts that were cancelled: "l" the caller's, "w" the worker's request's
  ans      \* the handler: the lines written, the answer gathered, the usage rows

vars == <<conf, eng, wire, ch, rd, go, gone, ans>>

Hops == {"w", "l"}
Empty == [q |-> <<>>, closed |-> FALSE]
Fresh == [pend |-> <<>>, fin |-> None, last |-> FALSE, over |-> FALSE]

\* The role chunk both writers send first: no content.
RoleLine == Chunk(<<>>, <<>>, None, FALSE)

Has(g) == CASE g = "w" -> conf.route # "local"
            [] g = "l" -> conf.route # "direct"
            [] g = "guard" -> conf.kv
            [] g = "writer" -> conf.route = "worker"
            [] g = "relay" -> conf.route # "direct"
            [] OTHER -> TRUE

Init ==
  /\ conf \in Requests
  /\ eng = [sent |-> <<>>, state |-> "open", fin |-> None]
  /\ wire = [h \in Hops |-> <<>>]
  /\ ch = [c \in {"w", "g", "l", "r"} |-> Empty]
  /\ rd = [h \in Hops |-> IF Has(h) THEN Fresh ELSE [Fresh EXCEPT !.over = TRUE]]
  /\ go = [g \in {"guard", "writer", "relay", "handler"} |->
             IF Has(g) THEN [state |-> "run", produced |-> FALSE] ELSE [state |-> "over", produced |-> FALSE]]
  /\ gone = {}
  /\ ans = [lines |-> IF conf.mode = "stream" THEN <<RoleLine>> ELSE <<>>,
            agg |-> NoAnswer, shown |-> None, rows |-> <<>>]

---------------------------------------------------------------------------
(* The engine (external).                                                  *)

EngineWire == IF conf.route = "local" THEN "l" ELSE "w"
Piece == Len(eng.sent) + 1

\* Bound: a connection holds one write.
Room(h) == wire[h] = <<>>

\* Content: a token, a fragment of one of two calls (numbered as they begin), or
\* both in one chunk.
Contents ==
  {Chunk(<<Piece>>, <<>>, None, FALSE)} \cup
  (IF conf.dialect = "ollama" THEN {}
   ELSE {Chunk(<<>>, <<[idx |-> i, n |-> Piece]>>, None, FALSE) :
           i \in {0} \cup {1 : e \in {e \in ToSet(eng.sent) : 0 \in e.calls}}} \cup
        {Chunk(<<Piece>>, <<[idx |-> 0, n |-> Piece]>>, None, FALSE)})

EngineSends ==
  /\ eng.state = "open" /\ Room(EngineWire) /\ eng.fin = None /\ Len(eng.sent) < conf.pieces
  /\ \E c \in Contents :
       /\ wire' = [wire EXCEPT ![EngineWire] = Append(@, c)]
       /\ eng' = [eng EXCEPT !.sent = Append(@, [text |-> c.text # <<>>,
                                                 calls |-> {f.idx : f \in ToSet(c.tools)}])]
  /\ UNCHANGED <<conf, ch, rd, go, gone, ans>>

\* The finish reason: with the usage, before it, or before [DONE].
EngineFinishes ==
  /\ eng.state = "open" /\ Room(EngineWire) /\ eng.fin = None
  /\ \E usage \in BOOLEAN :
       /\ wire' = [wire EXCEPT ![EngineWire] = Append(@, Chunk(<<>>, <<>>, "length", usage))]
       /\ eng' = [eng EXCEPT !.fin = "length",
                             !.state = IF usage \/ conf.dialect = "ollama" THEN "ended" ELSE "open"]
  /\ UNCHANGED <<conf, ch, rd, go, gone, ans>>

\* The end of the body: the dialect's last line, or an error, or a break.
Endings ==
  {[k |-> "broken"], [k |-> "garbage"], ErrorLine("overloaded")} \cup
  (IF conf.dialect = "openai" THEN {DoneLine, [k |-> "eof"]} \cup (IF eng.fin = None THEN {} ELSE {UsageLine})
   ELSE IF SilentEnd THEN {[k |-> "eof"]} ELSE {})

EngineEnds ==
  /\ eng.state = "open" /\ Room(EngineWire)
  /\ \E e \in Endings :
       /\ wire' = [wire EXCEPT ![EngineWire] = Append(@, e)]
       /\ eng' = [eng EXCEPT !.state = IF e.k \in {"broken", "garbage", "error"} THEN "failed" ELSE "ended"]
  /\ UNCHANGED <<conf, ch, rd, go, gone, ans>>

---------------------------------------------------------------------------
(* The drivers: consumeStream and Ollama's Chat.                           *)

\* The leader's client reads the worker's stream, which is always OpenAI's.
Consume(h, line, fin) ==
  IF h = EngineWire /\ conf.dialect = "ollama" THEN ConsumeOllama(line, fin) ELSE ConsumeStream(line, fin)

\* The relay cancels the stream's context when it stops early.
Cancelled(h) == h \in gone \/ (h = "l" /\ go["relay"].state = "drain")

Shut(h) == /\ rd' = [rd EXCEPT ![h].over = TRUE, ![h].pend = <<>>]
           /\ ch' = [ch EXCEPT ![h].closed = TRUE]

Read(h) ==
  /\ ~rd[h].over /\ rd[h].pend = <<>> /\ wire[h] # <<>>
  /\ LET line == wire[h][1]
         s == Consume(h, line, rd[h].fin)
     IN  /\ wire' = [wire EXCEPT ![h] = Tail(@)]
         /\ IF (Cancelled(h) /\ line.k \notin EndOfBody) \/ (s.evs = <<>> /\ s.over) THEN Shut(h)
            ELSE /\ rd' = [rd EXCEPT ![h].pend = s.evs, ![h].fin = s.fin, ![h].last = s.over]
                 /\ UNCHANGED ch
  /\ UNCHANGED <<conf, eng, go, gone, ans>>

\* The read of a body whose context is cancelled fails.
ReadCancelled(h) ==
  /\ ~rd[h].over /\ rd[h].pend = <<>> /\ Cancelled(h)
  /\ rd' = [rd EXCEPT ![h].pend = <<Failed("broken", None)>>, ![h].last = TRUE]
  /\ UNCHANGED <<conf, eng, wire, ch, go, gone, ans>>

\* send: the event is taken, or the context is done and the driver returns.
Send(h) ==
  /\ rd[h].pend # <<>>
  /\ \/ /\ Len(ch[h].q) < Cap
        /\ LET end == rd[h].last /\ Len(rd[h].pend) = 1
           IN  /\ rd' = [rd EXCEPT ![h].pend = Tail(@), ![h].over = end]
               /\ ch' = [ch EXCEPT ![h].q = Append(@, rd[h].pend[1]), ![h].closed = end]
     \/ Cancelled(h) /\ Shut(h)
  /\ UNCHANGED <<conf, eng, wire, go, gone, ans>>

\* The reader closed the body before its end.
Unread(h) == rd[h].over /\ ~\E i \in DOMAIN wire[h] : wire[h][i].k \in EndOfBody

---------------------------------------------------------------------------
(* The worker: kvLoadGuard and writeSSE.                                   *)

State(g, s) == go' = [go EXCEPT ![g].state = s]
Take(c) == ch[c].q # <<>>
Ended(c) == ch[c].q = <<>> /\ ch[c].closed

Guard ==
  /\ go["guard"].state = "run"
  /\ \/ /\ Take("w") /\ Len(ch["g"].q) < Cap
        /\ LET ev == ch["w"].q[1]
               fails == KvLoadFails(ev, go["guard"].produced)
           IN  /\ ch' = [ch EXCEPT !["w"].q = Tail(@),
                                   !["g"].q = Append(@, IF fails THEN Failed("kv", None) ELSE ev)]
               /\ go' = [go EXCEPT !["guard"].produced = @ \/ Produces(ev),
                                   !["guard"].state = IF fails THEN "drain" ELSE @]
     \/ /\ Ended("w")
        /\ State("guard", "over") /\ ch' = [ch EXCEPT !["g"].closed = TRUE]
  /\ UNCHANGED <<conf, eng, wire, rd, gone, ans>>

\* The channel the worker's writer, or a direct caller's handler, reads.
FromWorker == IF conf.kv THEN "g" ELSE "w"

Writer ==
  /\ go["writer"].state = "run" /\ (Room("l") \/ Unread("l"))
  /\ \/ /\ Take(FromWorker)
        /\ LET ev == ch[FromWorker].q[1]
               end == "w" \in gone \/ ev.done \/ ev.err # None
               out == IF "w" \in gone THEN <<>> ELSE WriteSSE(ev)
           IN  /\ wire' = [wire EXCEPT !["l"] = @ \o out \o (IF end THEN <<[k |-> "eof"]>> ELSE <<>>)]
               /\ State("writer", IF end THEN "drain" ELSE "run")
        /\ ch' = [ch EXCEPT ![FromWorker].q = Tail(@)]
     \/ /\ Ended(FromWorker)
        /\ wire' = [wire EXCEPT !["l"] = Append(@, [k |-> "eof"])]
        /\ State("writer", "over") /\ UNCHANGED ch
  /\ UNCHANGED <<conf, eng, rd, gone, ans>>

\* What a goroutine leaves unread is read away, so that no sender blocks.
Reads(g) == CASE g = "guard" -> "w" [] g = "writer" -> FromWorker [] g = "relay" -> "l"
              [] OTHER -> IF conf.route = "direct" THEN FromWorker ELSE "r"

Drain(g) ==
  /\ go[g].state = "drain"
  /\ \/ /\ Take(Reads(g))
        /\ ch' = [ch EXCEPT ![Reads(g)].q = Tail(@)] /\ UNCHANGED go
     \/ /\ Ended(Reads(g)) /\ State(g, "over")
        /\ ch' = IF g = "guard" THEN [ch EXCEPT !["g"].closed = TRUE] ELSE ch
  /\ UNCHANGED <<conf, eng, wire, rd, gone, ans>>

---------------------------------------------------------------------------
(* The leader: the router's relay and the handler.                         *)

Relay ==
  /\ go["relay"].state = "run"
  /\ \/ /\ Take("l") /\ Len(ch["r"].q) < Cap
        /\ ch' = [ch EXCEPT !["l"].q = Tail(@), !["r"].q = Append(@, ch["l"].q[1])] /\ UNCHANGED go
     \/ /\ Take("l") /\ "l" \in gone
        /\ ch' = [ch EXCEPT !["l"].q = Tail(@), !["r"].closed = TRUE] /\ State("relay", "drain")
     \/ /\ Ended("l")
        /\ ch' = [ch EXCEPT !["r"].closed = TRUE] /\ State("relay", "over")
  /\ UNCHANGED <<conf, eng, wire, rd, gone, ans>>

Row(outcome, usage) == Append(ans.rows, [outcome |-> outcome, usage |-> usage])

\* The engine's own count, when it sent one (-1), or none.
EngineCount(ev) == IF ev.usage THEN -1 ELSE 0

\* Chunks that reached the caller, the count of an answer cut short.
Delivered == Cardinality({i \in DOMAIN ans.lines : ans.lines[i].k = "chunk" /\ ans.lines[i] # RoleLine})

Stream ==
  LET c == Reads("handler") IN
  /\ conf.mode = "stream" /\ go["handler"].state = "run"
  /\ \/ /\ Take(c)
        /\ LET ev == ch[c].q[1]
               end == "l" \in gone \/ ev.done \/ ev.err # None
           IN  /\ ans' = IF "l" \in gone THEN [ans EXCEPT !.rows = Row("cancelled", Delivered)]
                         ELSE [ans EXCEPT !.lines = @ \o StreamResponse(ev),
                                          !.shown = IF ev.err # None THEN "error" ELSE IF ev.done THEN "finish" ELSE @,
                                          !.rows = IF ev.err # None THEN Row("error", Delivered)
                                                   ELSE IF ev.done THEN Row("ok", EngineCount(ev)) ELSE @]
               /\ State("handler", IF end THEN "drain" ELSE "run")
        /\ ch' = [ch EXCEPT ![c].q = Tail(@)]
     \/ /\ Ended(c)
        /\ ans' = [ans EXCEPT !.rows = Row(IF "l" \in gone THEN "cancelled" ELSE "error", Delivered)]
        /\ State("handler", "over") /\ UNCHANGED ch
  /\ UNCHANGED <<conf, eng, wire, rd, gone>>

\* The body is written from what was gathered.
Body(reason) == [ans EXCEPT !.lines = <<Chunk(<<>>, <<>>, GatheredReason(ans.agg, reason), FALSE)>>,
                            !.shown = "finish"]
Refusal == [ans EXCEPT !.lines = <<ErrorLine("upstream_error")>>, !.shown = "error"]

\* aggregateResponse: only a caller who left turns a stream without its last
\* event into something other than an answer.
Aggregate ==
  LET c == Reads("handler") IN
  /\ conf.mode = "aggregate" /\ conf.route # "direct" /\ go["handler"].state = "run"
  /\ \/ /\ Take(c)
        /\ LET ev == ch[c].q[1]
           IN  /\ ans' = IF ev.err # None THEN [Refusal EXCEPT !.rows = Row("error", 0)]
                         ELSE IF ev.done THEN [Body(ev.reason) EXCEPT !.rows = Row("ok", EngineCount(ev))]
                         ELSE [ans EXCEPT !.agg = Gather(@, ev)]
               /\ State("handler", IF ev.err # None \/ ev.done THEN "drain" ELSE "run")
        /\ ch' = [ch EXCEPT ![c].q = Tail(@)]
     \/ /\ Ended(c)
        /\ ans' = IF "l" \in gone THEN [ans EXCEPT !.rows = Row("cancelled", 0)]
                  ELSE [Body(None) EXCEPT !.rows = Row("ok", 0)]
        /\ State("handler", "over") /\ UNCHANGED ch
  /\ UNCHANGED <<conf, eng, wire, rd, gone>>

\* writeAggregate: the worker's answer to a caller who did not ask for a stream.
WriteAggregate ==
  /\ conf.route = "direct" /\ go["handler"].state = "run"
  /\ \/ /\ Take("w")
        /\ LET ev == ch["w"].q[1]
           IN  /\ ans' = IF ev.err # None THEN Refusal
                         ELSE IF ev.done THEN Body(ev.reason)
                         ELSE [ans EXCEPT !.agg = Gather(@, ev)]
               /\ State("handler", IF ev.err # None \/ ev.done THEN "drain" ELSE "run")
        /\ ch' = [ch EXCEPT !["w"].q = Tail(@)]
     \/ /\ Ended("w")
        /\ ans' = Body(None)
        /\ State("handler", "over") /\ UNCHANGED ch
  /\ UNCHANGED <<conf, eng, wire, rd, gone>>

---------------------------------------------------------------------------
(* Faults (external).                                                      *)

\* The caller leaves: the context of its request is cancelled.
CallerLeaves ==
  /\ go["handler"].state = "run"
  /\ gone' = gone \cup {IF conf.route = "direct" THEN "w" ELSE "l"}
  /\ gone' # gone
  /\ UNCHANGED <<conf, eng, wire, ch, rd, go, ans>>

\* The server of a body that its reader closed early sees its request cancelled.
WorkerLeft ==
  /\ conf.route = "worker" /\ Unread("l") /\ go["writer"].state = "run" /\ "w" \notin gone
  /\ gone' = gone \cup {"w"}
  /\ UNCHANGED <<conf, eng, wire, ch, rd, go, ans>>

EngineLeft ==
  /\ rd[EngineWire].over /\ eng.state = "open"
  /\ eng' = [eng EXCEPT !.state = "failed"]
  /\ UNCHANGED <<conf, wire, ch, rd, go, gone, ans>>

\* The worker's process dies: its goroutines with it, and its connection breaks.
WorkerDies ==
  /\ conf.route = "worker" /\ go["writer"].state = "run"
  /\ wire' = [wire EXCEPT !["l"] = Append(@, [k |-> "broken"]), !["w"] = <<>>]
  /\ rd' = [rd EXCEPT !["w"].over = TRUE, !["w"].pend = <<>>]
  /\ go' = [go EXCEPT !["writer"].state = "over", !["guard"].state = "over"]
  /\ ch' = [ch EXCEPT !["w"] = [q |-> <<>>, closed |-> TRUE], !["g"] = [q |-> <<>>, closed |-> TRUE]]
  /\ UNCHANGED <<conf, eng, gone, ans>>

\* Everyone has returned: no goroutine is left behind, no channel is open.
Over ==
  /\ \A h \in Hops : rd[h].over
  /\ \A g \in DOMAIN go : go[g].state = "over"
  /\ eng.state # "open"

Next ==
  \/ EngineSends \/ EngineFinishes \/ EngineEnds
  \/ \E h \in Hops : Read(h) \/ ReadCancelled(h) \/ Send(h)
  \/ Guard \/ Writer \/ Relay
  \/ \E g \in DOMAIN go : Drain(g)
  \/ Stream \/ Aggregate \/ WriteAggregate
  \/ CallerLeaves \/ WorkerLeft \/ EngineLeft \/ WorkerDies
  \/ (Over /\ UNCHANGED vars)

Spec == Init /\ [][Next]_vars

---------------------------------------------------------------------------
(* Properties.                                                             *)

\* The pieces of text, and of each call, the engine sent.
SentText == SelectSeq([i \in DOMAIN eng.sent |-> i], LAMBDA i : eng.sent[i].text)
SentCall(k) == SelectSeq([i \in DOMAIN eng.sent |-> i], LAMBDA i : k \in eng.sent[i].calls)

\* The pieces in the answer: of a stream's chunks, or of the gathered body.
Flat(ss) == FoldLeft(LAMBDA a, b : a \o b, <<>>, ss)
Chunks == SelectSeq(ans.lines, LAMBDA l : l.k = "chunk")
GotText == IF conf.mode = "stream" THEN Flat([i \in DOMAIN Chunks |-> Chunks[i].text]) ELSE ans.agg.text
Fragments == Flat([i \in DOMAIN Chunks |-> Chunks[i].tools])
CallsOf(acc, k) == IF k \in ToSet(acc.order) THEN acc.args[At(acc.order, k)] ELSE <<>>
GotCall(k) == CallsOf(IF conf.mode = "stream" THEN AddCalls(NoCalls, Fragments) ELSE ans.agg.calls, k)

\* An answer is a beginning of what the engine said, in its order, and it is
\* shown as finished (a finish reason and [DONE], or a 200) only when the engine
\* ended its answer and all of it is there: an error of the engine, a broken
\* connection, a dead worker or a caller who left never looks like a short
\* answer; writeAggregate alone does not ask whether its caller left.  A
\* decode step that ends with neither token nor reason failed its KV load and
\* is no answer either (kvLoadGuard, consumeStream, writeSSE, streamResponse, aggregateResponse,
\* writeAggregate).
AnswerIsWhole ==
  /\ IsPrefix(GotText, SentText) /\ \A k \in {0, 1} : IsPrefix(GotCall(k), SentCall(k))
  /\ ans.shown = "finish" /\ ~(conf.route = "direct" /\ "w" \in gone) =>
       /\ eng.state = "ended"
       /\ GotText = SentText /\ \A k \in {0, 1} : GotCall(k) = SentCall(k)
       /\ conf.kv => eng.sent # <<>> \/ eng.fin # None

\* A request that is over left one usage row: "ok" for what was shown as
\* finished, with the engine's count if it gave one; the chunks the caller
\* got when a stream was cut short (recordUsage in streamResponse and
\* aggregateResponse).
OneUsageRow ==
  conf.route # "direct" =>
    /\ Len(ans.rows) = IF go["handler"].state = "run" THEN 0 ELSE 1
    /\ \A i \in DOMAIN ans.rows :
         /\ ans.rows[i].outcome = "ok" <=> ans.shown = "finish"
         /\ ans.rows[i].outcome = "cancelled" => "l" \in gone
         /\ ans.rows[i].outcome # "ok" /\ conf.mode = "stream" =>
              ans.rows[i].usage = Len(SelectSeq(Chunks, LAMBDA c : c.text # <<>> \/ c.tools # <<>>))

\* What an Anthropic caller is sent for the same lines is well formed: blocks
\* are numbered in order and never overlap, a delta is inside its block, the
\* text is whole, a call's fragments are a beginning of the call's and stand in
\* one block, and a finished message has closed its blocks (AnthropicWriter).
Events(a, kind) == SelectSeq(a.out, LAMBDA e : e[1] = kind)
OpenBefore(a, i) ==
  Len(SelectSeq(SubSeq(a.out, 1, i - 1), LAMBDA e : e[1] = "block_start")) -
  Len(SelectSeq(SubSeq(a.out, 1, i - 1), LAMBDA e : e[1] = "block_stop"))
AnthropicWellFormed ==
  conf.mode = "stream" =>
    LET a == AnthropicStream(ans.lines)
        deltas == Events(a, "delta")
        isText(b) == \A i \in 1..Len(a.toolBlock) : a.toolBlock[i][2] # b
        textOf == SelectSeq(deltas, LAMBDA e : isText(e[2]))
    IN  /\ \A i \in DOMAIN a.out :
             /\ a.out[i][1] = "block_start" => OpenBefore(a, i) = 0
             /\ a.out[i][1] = "block_stop" => OpenBefore(a, i) = 1
             /\ a.out[i][1] = "delta" =>
                  /\ OpenBefore(a, i) = 1
                  /\ a.out[i][2] + 1 = Len(Events([out |-> SubSeq(a.out, 1, i)], "block_start"))
             /\ a.out[i][1] = "message_stop" => OpenBefore(a, i) = 0 /\ i = Len(a.out)
        /\ [i \in DOMAIN textOf |-> textOf[i][3]] = GotText
        /\ \A i \in DOMAIN a.toolBlock :
             LET of == SelectSeq(deltas, LAMBDA e : e[2] = a.toolBlock[i][2])
             IN  IsPrefix([j \in DOMAIN of |-> of[j][3]], GotCall(a.toolBlock[i][1]))
        /\ a.finished <=> ans.shown \in {"finish", "error"}
=============================================================================
