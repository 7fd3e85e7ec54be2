------------------------------ MODULE SlotGate ------------------------------
(***************************************************************************)
(* The admission gate of one model's pool (leader/admission.go): requests  *)
(* take a worker slot or wait for one in their class queue; a completion   *)
(* or a new capacity view grants the waiters that then fit.                *)
(*                                                                         *)
(* The gate's mutex makes every action that reads or writes `gate` atomic; *)
(* what a request read before it took the lock (its policy, whether the    *)
(* pool could serve) is kept in `rcfg` and `view` and may be stale when it *)
(* is used.  Where a view comes from is the module CapacityView: here any  *)
(* view the workers can produce may be installed at any time.              *)
(***************************************************************************)
EXTENDS Naturals, Integers, Sequences, SequencesExt, FiniteSets, FiniteSetsExt

CONSTANT Flows

(***************************************************************************)
(* One class queue of the admission gate: deficit round robin over the     *)
(* flows that have a request waiting (leader/admission_classes.go,         *)
(* drrQueue).  A queue is a record                                         *)
(*   reqs     flow -> its waiting requests, oldest first (<<>>: the flow   *)
(*            has no entry in the code's map)                              *)
(*   deficit  flow -> the credit left over from its visits                 *)
(*   ring     the flows with work, in round order                          *)
(*   pos      the flow whose visit is next, counted from 0 as in the code; *)
(*            Len(ring) means the round has just ended                     *)
(*   n        how many requests wait                                       *)
(***************************************************************************)

\* Mutant: a visit pays for two requests.
drrQuantumTwo == 2

\* A visit's credit; one request costs one.
drrQuantum == 1

EmptyQueue == [reqs |-> [f \in Flows |-> <<>>], deficit |-> [f \in Flows |-> 0],
               ring |-> <<>>, pos |-> 0, n |-> 0]

\* A flow that starts waiting joins at the end of the current round, just
\* behind the flow whose visit is next.
JoinRound(q, f) ==
    LET at == IF q.pos > Len(q.ring) THEN Len(q.ring) ELSE q.pos
    IN  IF q.reqs[f] # <<>> THEN q
        ELSE [q EXCEPT !.ring = InsertAt(@, at + 1, f), !.pos = at + 1]

Push(q, f, r) ==
    [JoinRound(q, f) EXCEPT !.reqs[f] = Append(@, r), !.n = @ + 1]

\* Drops the i-th flow of the ring (from 1); the next one slides into place.
DropFlow(q, i) ==
    LET ring == RemoveAt(q.ring, i)
        pos  == IF q.pos > i - 1 THEN q.pos - 1 ELSE q.pos
    IN  [q EXCEPT !.ring = ring, !.deficit[q.ring[i]] = 0,
                  !.pos = IF pos >= Len(ring) THEN 0 ELSE pos]

\* Where the next pop reads: a finished round starts over.
Visit(q) == IF q.pos >= Len(q.ring) THEN 0 ELSE q.pos

\* The request the next pop takes, for a queue with one.
PopHead(q) == Head(q.reqs[q.ring[Visit(q) + 1]])

\* The queue after that pop.
PopRest(q) ==
    LET at     == Visit(q)
        f      == q.ring[at + 1]
        credit == IF q.deficit[f] < 1 THEN q.deficit[f] + drrQuantum ELSE q.deficit[f]
        taken  == [q EXCEPT !.pos = at, !.n = @ - 1,
                            !.reqs[f] = Tail(@), !.deficit[f] = credit - 1]
    IN  IF taken.reqs[f] = <<>> THEN DropFlow(taken, at + 1)
        ELSE IF credit - 1 < 1 THEN [taken EXCEPT !.pos = at + 1]
        ELSE taken

\* Takes request r of flow f out wherever it waits.
RemoveReq(q, f, r) ==
    LET left == [q EXCEPT !.reqs[f] = SelectSeq(@, LAMBDA x : x # r), !.n = @ - 1]
    IN  IF r \notin ToSet(q.reqs[f]) THEN q
        ELSE IF left.reqs[f] # <<>> THEN left
        ELSE DropFlow(left, CHOOSE i \in DOMAIN q.ring : q.ring[i] = f)

\* The request a shed takes: the newest of the flow holding the most, the
\* earliest such flow in round order.
NewestOfLargest(q) ==
    LET size(i) == Len(q.reqs[q.ring[i]])
        best    == CHOOSE i \in DOMAIN q.ring :
                      /\ \A j \in DOMAIN q.ring : size(j) <= size(i)
                      /\ \A j \in 1..(i - 1) : size(j) < size(i)
    IN  Last(q.reqs[q.ring[best]])

\* The requests that wait in q.
Waiting(q) == UNION {ToSet(q.reqs[f]) : f \in Flows}

-----------------------------------------------------------------------------

\* The ring names exactly the flows with work, once each; the position is a
\* place of the ring or its end; n counts what waits; a flow without work
\* carries no credit.
WellFormed(q) ==
    /\ \A i, j \in DOMAIN q.ring : q.ring[i] = q.ring[j] => i = j
    /\ ToSet(q.ring) = {f \in Flows : q.reqs[f] # <<>>}
    /\ q.pos \in 0..Len(q.ring)
    /\ q.n = Cardinality(Waiting(q))
    /\ \A f \in Flows : q.reqs[f] = <<>> => q.deficit[f] = 0

-----------------------------------------------------------------------------

(***************************************************************************)
(* Request classes and the admission half of a policy snapshot             *)
(* (leader/admission_classes.go).  Classes are ranks, highest first; a     *)
(* share is a percentage (the code's floating product is exact for shares  *)
(* that are quarters, the ones used here); a class name is taken after the *)
(* trimming and lowering of parseClass.                                    *)
(***************************************************************************)

critical  == 0
standard  == 1
sheddable == 2
Classes   == critical..sheddable

NotAClass == 3

ParseClass(name) ==
    CASE name = "critical"  -> critical
      [] name = "standard"  -> standard
      [] name = "sheddable" -> sheddable
      [] OTHER              -> NotAClass

\* The key's class, standard when it names none, lowered by a header that
\* names a lower one.
EffectiveClass(keyClass, header) ==
    LET own == IF ParseClass(keyClass) = NotAClass THEN standard ELSE ParseClass(keyClass)
        ask == ParseClass(header)
    IN  IF ask # NotAClass /\ ask > own THEN ask ELSE own

\* The shares of a policy that lists classes and sets none, in percent.
classDefaultShare == [c \in Classes |-> IF c = sheddable THEN 25 ELSE 100]

\* The hold's cap when the policy sets none.
defaultMaxHeld == 64

\* The last entry of a policy's class list that names class c, or 0.
EntryOf(list, c) == Max({0} \cup {i \in DOMAIN list : ParseClass(list[i].name) = c})

\* The classConfig of policy p: [holdMs, maxHeld, classes], classes a
\* sequence of [name, holdMs, maxHeld, maxShare].
NewClassConfig(p) ==
    LET classed == p.classes # <<>>
        at(c)   == EntryOf(p.classes, c)
        share(c) ==
            IF ~classed THEN 100
            ELSE IF at(c) > 0 /\ p.classes[at(c)].maxShare \in 1..100
                 THEN p.classes[at(c)].maxShare ELSE classDefaultShare[c]
    IN  [classed  |-> classed,
         total    |-> IF p.maxHeld > 0 THEN p.maxHeld ELSE defaultMaxHeld,
         holdMs   |-> [c \in Classes |-> Max({0, IF at(c) > 0 THEN p.classes[at(c)].holdMs ELSE p.holdMs})],
         maxHeld  |-> [c \in Classes |-> Max({0, IF at(c) > 0 THEN p.classes[at(c)].maxHeld ELSE 0})],
         maxShare |-> [c \in Classes |-> share(c)]]

\* Without classes in the policy every request is standard.
ClassUnder(cfg, class) == IF cfg.classed THEN class ELSE standard

\* How many of a pool's slots a class may hold at once: never below one.
ShareCap(cfg, class, slots) == Max({1, (cfg.maxShare[class] * slots) \div 100})

-----------------------------------------------------------------------------
CONSTANTS Requests,  \* requests; each passes the gate once
          FlowOf,    \* Requests -> Flows: the key's team, else the key
          KeyClass,  \* Requests -> class name of the key
          Header,    \* Requests -> class name of X-Opod-Class
          Workers,   \* workers and gangs that may hold the model
          Reports,   \* what the holders may report: a set of functions from
                     \* Workers to [slots, kv]; 0 in either: it does not say
          Context,   \* the endpoint's context in tokens; 0: the plan has none
          Policies   \* the policy snapshots that may be applied

VARIABLES gate,  \* the pool, and the fate of every request it has queued
          pc,    \* where each request's goroutine is in admit
          node,  \* the worker the router sent it to; "" until it picks one
          view,  \* whether the pool could serve when the request last looked;
                 \* TRUE again once that look has been used
          cfg,   \* the policy in force
          rcfg   \* the policy each request started under
vars == <<gate, pc, node, view, cfg, rcfg>>

-----------------------------------------------------------------------------
(* Capacity views *)

\* How many requests a KV pool of kv tokens holds: at least one.
KvRequests(kv) == Max({kv \div Context, 1})

\* The requests a holder may have at once: its slots, lowered to what its KV
\* pool holds at the endpoint's context.  0: it reports no slots.
AdmitSlots(rep) ==
    IF rep.slots = 0 \/ rep.kv = 0 \/ Context = 0 THEN rep.slots
    ELSE Min({rep.slots, KvRequests(rep.kv)})

\* What computeCapacity finds when exactly the holders in S take requests.
CapOf(S, rep) ==
    [servable |-> S # {}, slots |-> MapThenSumSet(LAMBDA w : AdmitSlots(rep[w]), S),
     ungoverned |-> Cardinality({w \in S : AdmitSlots(rep[w]) = 0}), holders |-> S]

\* Servable with no holder counted: the leader's own engine, or a holder that
\* left between the two reads of the store.  Not governed.
LocalView == [servable |-> TRUE, slots |-> 0, ungoverned |-> 1, holders |-> {}]

\* A pool nobody has computed a view for.
ZeroView == [servable |-> TRUE, slots |-> 0, ungoverned |-> 0, holders |-> {}]

Views == {CapOf(S, rep) : S \in SUBSET Workers, rep \in Reports} \cup {LocalView}

-----------------------------------------------------------------------------
(* The pool *)

ClassOf(r) == ClassUnder(rcfg[r], EffectiveClass(KeyClass[r], Header[r]))

\* The granted requests in flight on a worker that left the pool.
Stranded(g) == {r \in g.grants : node[r] \notin g.cap.holders \cup {"", "local"}}

CanGrant(g, k, c) ==
    LET gone == Stranded(g)
    IN  /\ g.cap.servable
        /\ \/ g.cap.ungoverned > 0
           \/ /\ g.inUse - Cardinality(gone) < g.cap.slots
              /\ g.byClass[c] - Cardinality({r \in gone : ClassOf(r) = c}) < ShareCap(k, c, g.cap.slots)

Take(g, r) ==
    [g EXCEPT !.grants = @ \cup {r}, !.inUse = @ + 1, !.byClass[ClassOf(r)] = @ + 1,
              !.fate[r] = "granted"]

Give(g, r) ==
    IF r \notin g.grants THEN g
    ELSE [g EXCEPT !.grants = @ \ {r}, !.inUse = @ - 1, !.byClass[ClassOf(r)] = @ - 1]

\* A request leaves the queues for the reason why.
Leave(g, r, why) ==
    LET c == ClassOf(r)
    IN  [g EXCEPT !.q[c] = RemoveReq(@, FlowOf[r], r), !.held[c] = @ - 1, !.all = @ - 1,
                  !.fate[r] = why]

\* Mutant: the lowest class goes first.
GrantOneLowest(g, k) ==
    LET able == {c \in Classes : g.q[c].n > 0 /\ CanGrant(g, k, c)}
        c    == Max(able)
        r    == PopHead(g.q[c])
    IN  IF able = {} THEN g
        ELSE Take([g EXCEPT !.q[c] = PopRest(@), !.held[c] = @ - 1, !.all = @ - 1], r)

\* One round of dispatch: the highest class that has a waiter and may take a
\* slot gives it to its next flow; none is left as it is.
GrantOne(g, k) ==
    LET able == {c \in Classes : g.q[c].n > 0 /\ CanGrant(g, k, c)}
        c    == Min(able)
        r    == PopHead(g.q[c])
    IN  IF able = {} THEN g
        ELSE Take([g EXCEPT !.q[c] = PopRest(@), !.held[c] = @ - 1, !.all = @ - 1], r)

\* dispatch: grant while a waiter fits.
Dispatch(g, k) == FoldLeft(LAMBDA h, i : GrantOne(h, k), g, [i \in 1..g.all |-> i])

\* The classes below c that have a request to shed.
LowerWaiting(g, c) == {d \in Classes : d > c /\ g.q[d].n > 0}

\* enqueue refuses a request at its class's cap, or at the hold's cap with
\* nothing lower to shed.
CanEnqueue(g, k, c) ==
    /\ ~(k.maxHeld[c] > 0 /\ g.held[c] >= k.maxHeld[c])
    /\ g.all >= k.total => LowerWaiting(g, c) # {}

Enqueue(g, k, r) ==
    LET c    == ClassOf(r)
        room == IF g.all >= k.total
                THEN Leave(g, NewestOfLargest(g.q[Max(LowerWaiting(g, c))]), "evicted") ELSE g
    IN  [room EXCEPT !.q[c] = Push(@, FlowOf[r], r), !.held[c] = @ + 1, !.all = @ + 1,
                     !.fate[r] = "queued"]

\* Mutant: nobody is shed when nothing can serve.
ShedNobody(g, k) == g

\* Every waiting request of a class without a budget is shed.
ShedUnbudgeted(g, k) ==
    LET shed == {r \in Requests : g.fate[r] = "queued" /\ k.holdMs[ClassOf(r)] = 0}
    IN  FoldSet(LAMBDA r, h : Leave(h, r, "unavailable"), g, shed)

\* setCap: install a view and act on it under the policy in force.
SetCap(g, c, k) ==
    LET seen == [g EXCEPT !.cap = c]
    IN  Dispatch(IF c.servable THEN seen ELSE ShedUnbudgeted(seen, k), k)

-----------------------------------------------------------------------------
(* Requests, workers and policies *)

Init ==
    /\ gate = [cap |-> ZeroView, inUse |-> 0, byClass |-> [c \in Classes |-> 0], grants |-> {},
               q |-> [c \in Classes |-> EmptyQueue], held |-> [c \in Classes |-> 0], all |-> 0,
               fate |-> [r \in Requests |-> "none"]]
    /\ pc = [r \in Requests |-> "idle"]
    /\ node = [r \in Requests |-> ""]
    /\ view = [r \in Requests |-> TRUE]
    /\ cfg \in {NewClassConfig(p) : p \in Policies}
    /\ rcfg = [r \in Requests |-> cfg]

Goto(r, to) == pc' = [pc EXCEPT ![r] = to]

\* admit reads the policy and the request's class.
Arrive(r) ==
    /\ pc[r] = "idle"
    /\ rcfg' = [rcfg EXCEPT ![r] = cfg]
    /\ Goto(r, "arrived")
    /\ UNCHANGED <<gate, node, view, cfg>>

\* capacityFor: the cached view, or one computed now and installed.
CapacityFor ==
    \/ gate.cap # ZeroView /\ gate' = gate
    \/ \E c \in Views : gate' = SetCap(gate, c, cfg)

\* admit looks at the capacity before it takes the lock.
ReadCapacity(r) ==
    /\ pc[r] = "arrived"
    /\ CapacityFor
    /\ view' = [view EXCEPT ![r] = gate'.cap.servable]
    /\ Goto(r, "ready")
    /\ UNCHANGED <<node, cfg, rcfg>>

FastPath(r) == gate.all = 0 /\ CanGrant(gate, rcfg[r], ClassOf(r))
HasBudget(r) == rcfg[r].holdMs[ClassOf(r)] > 0

\* Nobody waits ahead and a slot of this class is free.
AdmitAtOnce(r) ==
    /\ pc[r] = "ready" /\ FastPath(r)
    /\ gate' = Take(gate, r)
    /\ Goto(r, "running")
    /\ view' = [view EXCEPT ![r] = TRUE]
    /\ UNCHANGED <<node, cfg, rcfg>>

\* The answers given without waiting: nothing can serve and the class has no
\* budget; the budget was spent on the way (a wake); the hold is full.
RefuseAtOnce(r) ==
    /\ pc[r] = "ready" /\ ~FastPath(r)
    /\ IF ~view[r] /\ ~HasBudget(r) THEN TRUE
       ELSE HasBudget(r) \/ ~CanEnqueue(gate, rcfg[r], ClassOf(r))
    /\ Goto(r, "refused")
    /\ view' = [view EXCEPT ![r] = TRUE]
    /\ UNCHANGED <<gate, node, cfg, rcfg>>

\* The request queues; dispatch may grant it, or others, at once.
Hold(r) ==
    /\ pc[r] = "ready" /\ ~FastPath(r)
    /\ view[r] \/ HasBudget(r)
    /\ CanEnqueue(gate, rcfg[r], ClassOf(r))
    /\ gate' = Dispatch(Enqueue(gate, rcfg[r], r), rcfg[r])
    /\ Goto(r, IF gate'.fate[r] = "granted" THEN "running" ELSE "waiting")
    /\ view' = [view EXCEPT ![r] = TRUE]
    /\ UNCHANGED <<node, cfg, rcfg>>

\* The wait ends by the gate's hand: h.done is closed.
Wake(r) ==
    /\ pc[r] = "waiting" /\ gate.fate[r] # "queued"
    /\ Goto(r, CASE gate.fate[r] = "granted" -> "running"
                 [] gate.fate[r] = "evicted" -> "explaining"
                 [] OTHER                    -> "refused")
    /\ UNCHANGED <<gate, node, view, cfg, rcfg>>

\* The deadline fires first: the request withdraws unless the gate has
\* already granted or shed it, which it then acts on (Wake).
Deadline(r) ==
    /\ pc[r] = "waiting" /\ HasBudget(r) /\ gate.fate[r] = "queued"
    /\ gate' = Leave(gate, r, "withdrawn")
    /\ Goto(r, "explaining")
    /\ UNCHANGED <<node, view, cfg, rcfg>>

\* A request past its deadline, or evicted, looks at the capacity once more
\* for the text of its 503.
Explain(r) ==
    /\ pc[r] = "explaining"
    /\ CapacityFor
    /\ Goto(r, "refused")
    /\ UNCHANGED <<node, view, cfg, rcfg>>

\* releaser: the slot goes back and the waiters that fit are granted, under
\* the policy in force now.
Release(r) == gate' = Dispatch(Give(gate, r), cfg)

\* Mutant: a slot granted as the client goes away is kept.
CancelKeepsSlot(r) ==
    /\ pc[r] = "waiting"
    /\ gate' = IF gate.fate[r] = "queued" THEN Leave(gate, r, "withdrawn") ELSE gate
    /\ Goto(r, "refused")
    /\ UNCHANGED <<node, view, cfg, rcfg>>

\* The client goes away while waiting.  A slot granted at the same moment is
\* given straight back.
Cancel(r) ==
    /\ pc[r] = "waiting"
    /\ CASE gate.fate[r] = "queued"  -> gate' = Leave(gate, r, "withdrawn")
         [] gate.fate[r] = "granted" -> Release(r)
         [] OTHER                    -> gate' = gate
    /\ Goto(r, "refused")
    /\ UNCHANGED <<node, view, cfg, rcfg>>

\* The router picks a worker for a granted request, or another one after a
\* failed attempt, by its own reading of the store.
Route(r, w) ==
    /\ pc[r] = "running" /\ node[r] # w
    /\ node' = [node EXCEPT ![r] = w]
    /\ UNCHANGED <<gate, pc, view, cfg, rcfg>>

\* The answer is written: the handler returns and releases the slot.
Complete(r) ==
    /\ pc[r] = "running"
    /\ Release(r)
    /\ Goto(r, "served")
    /\ node' = [node EXCEPT ![r] = ""]
    /\ UNCHANGED <<view, cfg, rcfg>>

\* Every other caller of capacityFor: capacityChanged's re-read after a
\* heartbeat, a drain, a load...; a /loadz poll; a request's look before it
\* wakes a sleeping engine.
Refresh ==
    /\ \E c \in Views : gate' = SetCap(gate, c, cfg)
    /\ UNCHANGED <<pc, node, view, cfg, rcfg>>

\* Another model's first request finds maxIdlePools pools: the idle ones are
\* deleted, and this pool starts over without a view.
ForgetPool ==
    /\ gate.inUse = 0 /\ gate.all = 0
    /\ gate' = [gate EXCEPT !.cap = ZeroView]
    /\ UNCHANGED <<pc, node, view, cfg, rcfg>>

\* A policy snapshot is applied: one pointer store, the queues are not read.
ApplyPolicy(p) ==
    /\ cfg' = NewClassConfig(p)
    /\ UNCHANGED <<gate, pc, node, view, rcfg>>

Step(r) ==
    \/ Arrive(r) \/ ReadCapacity(r) \/ AdmitAtOnce(r) \/ RefuseAtOnce(r) \/ Hold(r)
    \/ Wake(r) \/ Deadline(r) \/ Explain(r) \/ Cancel(r) \/ Complete(r)
    \/ \E w \in Workers \cup {"local"} : Route(r, w)

Next == Refresh \/ ForgetPool \/ (\E p \in Policies : ApplyPolicy(p)) \/ \E r \in Requests : Step(r)

Spec == Init /\ [][Next]_vars

\* A handler that may run runs, an answer ends, a deadline fires.
Progress(r) ==
    \/ Arrive(r) \/ ReadCapacity(r) \/ AdmitAtOnce(r) \/ RefuseAtOnce(r) \/ Hold(r)
    \/ Wake(r) \/ Deadline(r) \/ Explain(r) \/ Complete(r)

\* A heartbeat re-reads a pool that has waiters: what it finds may be what the
\* pool already holds, unless the pool has no view.
Heartbeat == gate.all > 0 /\ Refresh /\ (gate'.cap = gate.cap \/ gate.cap = ZeroView)

FairSpec == Spec /\ WF_vars(Heartbeat) /\ \A r \in Requests : WF_vars(Progress(r))

-----------------------------------------------------------------------------
(* Properties *)

Fates == {"none", "queued", "granted", "withdrawn", "evicted", "unavailable"}
States == {"idle", "arrived", "ready", "waiting", "running", "explaining", "served", "refused"}

\* Every field of the pool, and what each goroutine of admit keeps, has its
\* type; no counter of the pool goes below zero.
TypeOK ==
    /\ gate.cap \in Views \cup {ZeroView}
    /\ gate.inUse \in Nat /\ gate.all \in Nat
    /\ gate.byClass \in [Classes -> Nat] /\ gate.held \in [Classes -> Nat]
    /\ gate.grants \subseteq Requests
    /\ gate.fate \in [Requests -> Fates]
    /\ pc \in [Requests -> States]
    /\ node \in [Requests -> Workers \cup {"", "local"}]
    /\ view \in [Requests -> BOOLEAN]

\* No slot is lost or held twice (take, give, releaser, the grant racing a
\* cancel in admit): the slots in use are exactly those of the requests being
\* served and of those granted while their goroutine has yet to notice.
SlotsConserved ==
    /\ gate.grants = {r \in Requests : \/ pc[r] = "running"
                                       \/ pc[r] = "waiting" /\ gate.fate[r] = "granted"}
    /\ gate.inUse = Cardinality(gate.grants)
    /\ \A c \in Classes : gate.byClass[c] = Cardinality({r \in gate.grants : ClassOf(r) = c})

\* Every queue holds exactly the requests whose goroutine waits and that the
\* gate has not answered, each in its own class, and the caps count them
\* (count, uncount, shed, withdraw).
QueuesMatchWaiters ==
    /\ \A c \in Classes :
          /\ WellFormed(gate.q[c])
          /\ Waiting(gate.q[c]) = {r \in Requests : /\ pc[r] = "waiting" /\ gate.fate[r] = "queued"
                                                    /\ ClassOf(r) = c}
          /\ gate.held[c] = gate.q[c].n
    /\ gate.all = gate.held[critical] + gate.held[standard] + gate.held[sheddable]

\* What the plain counts of canGrant allow, stranded requests left in.
PlainEligible(c) ==
    /\ gate.cap.servable
    /\ \/ gate.cap.ungoverned > 0
       \/ gate.inUse < gate.cap.slots /\ gate.byClass[c] < ShareCap(cfg, c, gate.cap.slots)

\* No slot idles while a request that may use it waits (dispatch runs after
\* every event that frees a slot; a capped class is passed over).  For one
\* policy: a policy that is applied does not read the queues.
NoIdleSlot == \A c \in Classes : gate.held[c] > 0 => ~PlainEligible(c)

\* A waiter is never left in a working pool with nothing in flight whose
\* completion would reach it, even across policy changes.
WaitersHaveAReleaser == gate.all > 0 /\ gate.cap.servable /\ gate.cap.slots > 0 => gate.inUse > 0

Granted == {r \in Requests : r \in gate'.grants /\ r \notin gate.grants}

\* Strict order between classes (dispatch, the fast path): a request is never
\* granted a slot that a waiting request of a higher class could have had.
StrictOrder ==
    \A r \in Granted : \A d \in 0..(ClassOf(r)' - 1) :
       gate'.held[d] > 0 => ~CanGrant(Give(gate, r), cfg, d)'

\* A grant never takes the requests on the pool's own workers, or on their way
\* to one, over its slots, nor a class over its share, whatever left the pool
\* or came back since (canGrant, stranded).
NoOvercommit ==
    \A r \in Granted :
        LET live == {x \in gate'.grants : node'[x] \in gate'.cap.holders \cup {"", "local"}}
        IN  \/ gate'.cap.ungoverned > 0
            \/ /\ Cardinality(live) <= gate'.cap.slots
               /\ Cardinality({x \in live : ClassOf(x)' = ClassOf(r)'})
                      <= ShareCap(cfg, ClassOf(r)', gate'.cap.slots)

\* The hold's caps bound what waits (enqueue), and a full hold sheds a request
\* only for one of a higher class, from the lowest class waiting.
LowestShedFirst ==
    /\ gate'.all <= cfg.total
    /\ \A r \in Requests : gate'.fate[r] = "evicted" /\ gate.fate[r] # "evicted" =>
          /\ \A d \in (ClassOf(r) + 1)..sheddable : gate.held[d] = 0
          /\ \E x \in Requests : /\ gate'.fate[x] \in {"queued", "granted"}
                                 /\ gate.fate[x] = "none" /\ ClassOf(x) < ClassOf(r)

\* Every request that waits is answered: granted and served, shed, or past its
\* deadline.
InLine(r) == pc[r] \in {"waiting", "explaining", "running"}
EveryWaitEnds == \A r \in Requests : []<>~InLine(r)

\* "A budget of 0 never waits for a worker" (setCap): a request of a class
\* without a hold budget does not wait in a pool nothing can serve.
ZeroBudgetNeverWaits ==
    ~gate.cap.servable => \A r \in Requests : gate.fate[r] = "queued" => HasBudget(r)
=============================================================================
