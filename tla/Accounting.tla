----------------------------- MODULE Accounting -----------------------------
(***************************************************************************)
(* The way of a usage row: from the request that ended at a door, through  *)
(* the door's queue and its pushes, into the leader's queue, to the        *)
(* collector the leader exports to.  A queue at its limit drops its oldest *)
(* rows and counts them; an answer may be lost, after which the same rows  *)
(* are sent again; the leader may restart.                                 *)
(***************************************************************************)
EXTENDS Integers, Sequences, FiniteSets, SequencesExt

CONSTANTS
  Doors,
  Big,          \* the rows (by number) whose record does not fit the leader's queue
  QueueLimit,   \* rows a door holds
  Batch,        \* rows of one push
  dedupWindow,  \* row ids the leader remembers
  QueueCap,     \* records the leader's queue holds
  MaxBatch,     \* records of one export
  MaxRows,      \* bound: requests ended at each door
  MaxFaults     \* bound: lost answers, refusals, restarts of the leader, doors that stop

VARIABLES
  made,     \* requests ended so far, by door
  queue,    \* the door's queue of row numbers
  post,     \* its push: "none", or the rows of it and how far it is
  tally,    \* what the door counts as dropped
  order,    \* the row ids the leader remembers, oldest first
  items,    \* the leader's queue: records seq, id, gateway
  seq,      \* its last sequence number
  flight,   \* the export under way
  boot,     \* the leader's boot
  out,      \* what the collector has
  faults,
  ended,    \* doors that stopped
  gone,     \* history: ids the leader took and dropped, refused or had rejected, all counted
  torn      \* history: doors that dropped rows while a push was under way, or ended with rows queued; leader restarts

vars == <<made, queue, post, tally, order, items, seq, flight, boot, out, faults, ended, gone, torn>>
door == <<made, queue, post, tally, ended>>
leader == <<order, items, seq, flight, boot, gone>>

NoPost == [at |-> "none", rows |-> <<>>]
NoFlight == [at |-> "none", recs |-> <<>>]

Init ==
  /\ made = [d \in Doors |-> 0] /\ queue = [d \in Doors |-> <<>>] /\ tally = [d \in Doors |-> {}]
  /\ post = [d \in Doors |-> NoPost]
  /\ order = <<>> /\ items = <<>> /\ seq = 0 /\ flight = NoFlight /\ boot = 1 /\ out = {}
  /\ faults = 0 /\ ended = {} /\ gone = {} /\ torn = {}

Over(s, limit) == IF Len(s) > limit THEN Len(s) - limit ELSE 0
Rest(s, n) == SubSeq(s, n + 1, Len(s))
First(s, n) == SubSeq(s, 1, IF n < Len(s) THEN n ELSE Len(s))
Fault == faults < MaxFaults /\ faults' = faults + 1

---------------------------------------------------------------------------
(* The door: gateway.Pusher.                                               *)

\* A request ends; the oldest rows make room.
Add(d) ==
  LET q == Append(queue[d], made[d] + 1)
      over == Over(q, QueueLimit) IN
  /\ d \notin ended /\ made[d] < MaxRows
  /\ made' = [made EXCEPT ![d] = @ + 1]
  /\ queue' = [queue EXCEPT ![d] = Rest(q, over)]
  /\ tally' = [tally EXCEPT ![d] = @ \cup ToSet(First(q, over))]
  /\ torn' = IF over > 0 /\ post[d] # NoPost THEN torn \cup {d} ELSE torn
  /\ UNCHANGED <<post, ended, leader, out, faults>>

\* Flush: up to batch rows are copied and posted; none is a heartbeat.
Flush(d) ==
  /\ d \notin ended /\ post[d] = NoPost
  /\ post' = [post EXCEPT ![d] = [at |-> "posted", rows |-> First(queue[d], Batch)]]
  /\ UNCHANGED <<made, queue, tally, ended, leader, out, faults, torn>>

\* The leader has answered 200: as many rows as were sent leave the queue.
Flushed(d) ==
  /\ post[d].at = "taken"
  /\ queue' = [queue EXCEPT ![d] = Rest(@, Len(post[d].rows))]
  /\ post' = [post EXCEPT ![d] = NoPost]
  /\ UNCHANGED <<made, tally, ended, leader, out, faults, torn>>

\* The push or its answer is lost: the rows stay.
FlushFails(d) ==
  /\ post[d] # NoPost /\ Fault
  /\ post' = [post EXCEPT ![d] = NoPost]
  /\ UNCHANGED <<made, queue, tally, ended, leader, out, torn>>

\* Run ends with one last Flush; what that does not send is lost.
Stop(d) ==
  /\ d \notin ended /\ post[d] = NoPost /\ Fault
  /\ ended' = ended \cup {d}
  /\ post' = [post EXCEPT ![d] = [at |-> "posted", rows |-> First(queue[d], Batch)]]
  /\ torn' = IF Len(queue[d]) > Batch THEN torn \cup {d} ELSE torn
  /\ UNCHANGED <<made, queue, tally, leader, out>>

---------------------------------------------------------------------------
(* The leader: gatewayFront.note and usage.Queue.                          *)

\* The leader's state while a push is taken in, row by row.
Now == [order |-> order, items |-> items, seq |-> seq, gone |-> gone]

Numbered(s, id) == [seq |-> s.seq + 1, id |-> id, gateway |-> id[1]]

\* Queue.Add: numbered; refused when it alone is too big; else the oldest make room.
QueueAdd(s, id) ==
  LET q == Append(s.items, Numbered(s, id))
      over == Over(q, QueueCap) IN
  IF id[2] \in Big THEN [s EXCEPT !.seq = @ + 1, !.gone = @ \cup {id}]
  ELSE [s EXCEPT !.seq = @ + 1, !.items = Rest(q, over),
                 !.gone = @ \cup {q[k].id : k \in 1..over}]

\* Mutant: the window forgets its newest ids.
NoteOldest(s, id) == First(Append(s.order, id), dedupWindow)

\* note: a row id seen before is a duplicate; the window forgets its oldest ids.
Note(s, id) == Rest(Append(s.order, id), Over(Append(s.order, id), dedupWindow))

Take(s, id) == IF id \in ToSet(s.order) THEN s ELSE QueueAdd([s EXCEPT !.order = Note(s, id)], id)

\* pushUsage, the whole request.
PushUsage(d) ==
  LET end == FoldLeft(Take, Now, [k \in DOMAIN post[d].rows |-> <<d, post[d].rows[k]>>]) IN
  /\ post[d].at = "posted"
  /\ order' = end.order /\ items' = end.items /\ seq' = end.seq /\ gone' = end.gone
  /\ post' = [post EXCEPT ![d].at = "taken"]
  /\ UNCHANGED <<made, queue, tally, ended, flight, boot, out, faults, torn>>

\* Flush of the exporter: the oldest records, as many as one request takes.
Peek ==
  /\ flight = NoFlight /\ items # <<>>
  /\ flight' = [at |-> "posted", recs |-> First(items, MaxBatch)]
  /\ UNCHANGED <<door, order, items, seq, boot, gone, out, faults, torn>>

\* ack: everything up to the last sequence number of the batch is freed.
Ack == SelectSeq(items, LAMBDA r : r.seq > flight.recs[Len(flight.recs)].seq)

\* toLog, and the resource's boot: what the collector tells rows apart by.
Exported == {[boot |-> boot, seq |-> flight.recs[k].seq, id |-> flight.recs[k].id, gateway |-> flight.recs[k].gateway]
             : k \in DOMAIN flight.recs}

ExportTaken ==
  /\ flight.at = "posted"
  /\ out' = out \cup Exported
  /\ flight' = [flight EXCEPT !.at = "taken"]
  /\ UNCHANGED <<door, order, items, seq, boot, gone, faults, torn>>

ExportDone ==
  /\ flight.at = "taken"
  /\ items' = Ack /\ flight' = NoFlight
  /\ UNCHANGED <<door, order, seq, boot, gone, out, faults, torn>>

\* 400: the receiver will never take them; they are freed and counted.
ExportRejected ==
  /\ flight.at = "posted" /\ Fault
  /\ items' = Ack /\ flight' = NoFlight
  /\ gone' = gone \cup {flight.recs[k].id : k \in DOMAIN flight.recs}
  /\ UNCHANGED <<door, order, seq, boot, out, torn>>

\* Unreachable, another status, or the answer lost: nothing is freed, and it is tried again.
ExportFails ==
  /\ flight # NoFlight /\ Fault
  /\ flight' = NoFlight
  /\ UNCHANGED <<door, order, items, seq, boot, gone, out, torn>>

\* The leader restarts with nothing in memory; requests it was answering fail.
Restart ==
  /\ Fault
  /\ boot' = boot + 1 /\ order' = <<>> /\ items' = <<>> /\ seq' = 0 /\ flight' = NoFlight
  /\ post' = [d \in Doors |-> NoPost]
  /\ torn' = torn \cup {"leader"}
  /\ UNCHANGED <<made, queue, tally, ended, gone, out>>

Next ==
  \/ \E d \in Doors : Add(d) \/ Flush(d) \/ PushUsage(d) \/ Flushed(d) \/ FlushFails(d) \/ Stop(d)
  \/ Peek \/ ExportTaken \/ ExportDone \/ ExportRejected \/ ExportFails \/ Restart
Spec == Init /\ [][Next]_vars

---------------------------------------------------------------------------
Rows(d) == {<<d, k>> : k \in 1..made[d]}
Collected == {r.id : r \in out}

\* One boot of the leader gives a row one sequence number, whatever was sent again (note, ack):
\* the collector, which tells rows apart by boot and number, charges it once.
ChargedOnce == \A a, b \in out : a.id = b.id /\ a.boot = b.boot => a = b

\* A row is in a queue, with the collector, or counted as dropped, refused or rejected (Add,
\* Flush, Queue.Add, ack).  Not so for a door that dropped rows while a push was under way, whose
\* next rows leave the queue in place of the ones that were sent, or that ended with a full queue.
NothingUncounted ==
  "leader" \notin torn => \A d \in Doors \ (torn \cup ended) :
      Rows(d) \subseteq {<<d, k>> : k \in tally[d] \cup ToSet(queue[d])}
                        \cup {items[k].id : k \in DOMAIN items} \cup Collected \cup gone
=============================================================================
