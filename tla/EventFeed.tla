----------------------------- MODULE EventFeed -----------------------------
(***************************************************************************)
(* How what happens in the leader reaches those who watch it.  The bus     *)
(* (events/bus.go) hands an event to every subscriber that has room, and a *)
(* stream (leader/models_admin.go) writes it to its client until it leaves.*)
(* The event log (store/eventlog.go, leader/eventlog.go) keeps the events  *)
(* in a table that is trimmed, and a reader pages through it by the number *)
(* it was given last.                                                      *)
(***************************************************************************)
EXTENDS Integers, Sequences, FiniteSetsExt, SequencesExt

CONSTANTS
  Publishers, Streams, Readers,
  Buffer,       \* events a subscriber's channel holds
  Limit,        \* rows of a page
  Kept,         \* rows a trim keeps
  MaxEvents, MaxRows, MaxOpens, MaxTrims

VARIABLES
  subs,      \* channels the bus knows
  chan,      \* per stream: open, queue, on (the stream runs), got
  pub,       \* per publisher: event, the channels still to be tried; 0 = none
  events,    \* events published
  log,       \* the table's rows, in order
  lastId,    \* AUTOINCREMENT
  reader,    \* per reader: next, got, more
  opens, trims, panicked,
  gone       \* history: ids trimmed

vars == <<subs, chan, pub, events, log, lastId, reader, opens, trims, panicked, gone>>

NoChan == [open |-> FALSE, queue |-> <<>>, on |-> FALSE, leaving |-> FALSE, got |-> <<>>]
NoPub == [event |-> 0, left |-> {}]

Init ==
  /\ subs = {} /\ chan = [s \in Streams |-> NoChan] /\ pub = [p \in Publishers |-> NoPub] /\ events = 0
  /\ log = <<>> /\ lastId = 0 /\ reader = [r \in Readers |-> [next |-> 0, got |-> <<>>, more |-> FALSE]]
  /\ opens = 0 /\ trims = 0 /\ panicked = FALSE /\ gone = {}

-----------------------------------------------------------------------------
(* The bus.                                                                *)

\* The read lock: a subscriber comes or goes only when nobody publishes.
Publishing == \E p \in Publishers : pub[p] # NoPub

Publish(p) ==
  /\ pub[p] = NoPub /\ events < MaxEvents
  /\ events' = events + 1
  /\ pub' = [pub EXCEPT ![p] = [event |-> events + 1, left |-> subs]]
  /\ UNCHANGED <<subs, chan, log, lastId, reader, opens, trims, panicked, gone>>

\* One subscriber: the event, if its channel has room.  A closed channel panics.
Send(p, s) ==
  /\ pub[p] # NoPub /\ s \in pub[p].left
  /\ panicked' = (panicked \/ ~chan[s].open)
  /\ chan' = IF chan[s].open /\ Len(chan[s].queue) < Buffer
             THEN [chan EXCEPT ![s].queue = Append(@, pub[p].event)] ELSE chan
  /\ pub' = [pub EXCEPT ![p].left = @ \ {s}]
  /\ UNCHANGED <<subs, events, log, lastId, reader, opens, trims, gone>>

Published(p) ==
  /\ pub[p] # NoPub /\ pub[p].left = {}
  /\ pub' = [pub EXCEPT ![p] = NoPub]
  /\ UNCHANGED <<subs, chan, events, log, lastId, reader, opens, trims, panicked, gone>>

\* eventsStream subscribes.
Subscribe(s) ==
  /\ ~chan[s].on /\ opens < MaxOpens /\ ~Publishing
  /\ chan' = [chan EXCEPT ![s] = [NoChan EXCEPT !.open = TRUE, !.on = TRUE]]
  /\ subs' = subs \cup {s} /\ opens' = opens + 1
  /\ UNCHANGED <<pub, events, log, lastId, reader, trims, panicked, gone>>

\* The client is there: it is sent the next event.
Forward(s) ==
  /\ chan[s].on /\ ~chan[s].leaving /\ chan[s].queue # <<>>
  /\ chan' = [chan EXCEPT ![s].got = Append(@, Head(chan[s].queue)), ![s].queue = Tail(@)]
  /\ UNCHANGED <<subs, pub, events, log, lastId, reader, opens, trims, panicked, gone>>

\* Mutant: the channel is closed without waiting for those who publish.
CancelUnlocked(s) ==
  /\ chan[s].on /\ ~chan[s].leaving
  /\ subs' = subs \ {s} /\ chan' = [chan EXCEPT ![s].leaving = TRUE]
  /\ UNCHANGED <<pub, events, log, lastId, reader, opens, trims, panicked, gone>>

\* It left: cancel takes the channel out of the bus under the lock,
Cancel(s) ==
  /\ chan[s].on /\ ~chan[s].leaving /\ ~Publishing
  /\ subs' = subs \ {s} /\ chan' = [chan EXCEPT ![s].leaving = TRUE]
  /\ UNCHANGED <<pub, events, log, lastId, reader, opens, trims, panicked, gone>>

\* and closes it after.
Close(s) ==
  /\ chan[s].leaving
  /\ chan' = [chan EXCEPT ![s].open = FALSE, ![s].on = FALSE, ![s].leaving = FALSE]
  /\ UNCHANGED <<subs, pub, events, log, lastId, reader, opens, trims, panicked, gone>>

-----------------------------------------------------------------------------
(* The log.                                                                *)

\* Something of note happens.  The table never gives a number twice.
logEvent ==
  /\ lastId < MaxRows /\ lastId' = lastId + 1 /\ log' = Append(log, lastId + 1)
  /\ UNCHANGED <<subs, chan, pub, events, reader, opens, trims, panicked, gone>>

\* The rows past the number, oldest first.
After(id, n) == LET rows == SelectSeq(log, LAMBDA e : e > id) IN SubSeq(rows, 1, Min({n, Len(rows)}))

\* A page, the number to go on from, and whether there is more: one row past the
\* page is asked for to know.
eventLogStream(r) ==
  /\ LET rows == After(reader[r].next, Limit + 1)
         page == SubSeq(rows, 1, Min({Limit, Len(rows)}))
     IN  reader' = [reader EXCEPT ![r] = [next |-> IF page = <<>> THEN @.next ELSE Last(page),
                                          got |-> @.got \o page, more |-> Len(rows) > Limit]]
  /\ UNCHANGED <<subs, chan, pub, events, log, lastId, opens, trims, panicked, gone>>

\* The newest Kept rows stay.
Trim ==
  /\ trims < MaxTrims /\ Len(log) > Kept /\ trims' = trims + 1
  /\ log' = SubSeq(log, Len(log) - Kept + 1, Len(log))
  /\ gone' = gone \cup ToSet(SubSeq(log, 1, Len(log) - Kept))
  /\ UNCHANGED <<subs, chan, pub, events, lastId, reader, opens, panicked>>

Next ==
  \/ \E p \in Publishers : Publish(p) \/ Published(p) \/ (\E s \in Streams : Send(p, s))
  \/ \E s \in Streams : Subscribe(s) \/ Forward(s) \/ Cancel(s) \/ Close(s)
  \/ logEvent
  \/ \E r \in Readers : eventLogStream(r)
  \/ Trim

Spec == Init /\ [][Next]_vars

-----------------------------------------------------------------------------
(* Properties                                                              *)

\* However subscribers come and go while events are published, no event is sent
\* on a closed channel, which would end the leader's process, and the bus keeps
\* only channels that are open (Publish, Subscribe's cancel).  A stream is sent
\* no event twice.  A reader that pages through the log gets every event once and
\* in order up to its number, but for those trimmed before it came to them, and
\* is told there is more only when the page left something (eventLogStream).
FeedIsSound ==
  /\ ~panicked
  /\ \A s \in subs : chan[s].open
  /\ \A s \in Streams : IsInjective(chan[s].got \o chan[s].queue)
  /\ \A r \in Readers :
       /\ \A i, j \in DOMAIN reader[r].got : i < j => reader[r].got[i] < reader[r].got[j]
       /\ (1 .. reader[r].next) \ ToSet(reader[r].got) \subseteq gone
       /\ reader[r].more => reader[r].next < lastId
=============================================================================
