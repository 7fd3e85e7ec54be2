----------------------------- MODULE Lifecycle -----------------------------
(***************************************************************************)
(* lifecycle.Manager: what the leader's own engine holds in memory.  A     *)
(* load that does not fit evicts models by priority and last use; each     *)
(* victim is drained, unloaded and forgotten.  One call at a time holds    *)
(* the manager's mutex; requests, the operator's adds and deletes, the     *)
(* engine's own loading on demand and the caller's departure interleave    *)
(* with its steps.  A catalogue id and its engine-native name are one      *)
(* model here.                                                             *)
(***************************************************************************)
EXTENDS Integers, Sequences, FiniteSets, FiniteSetsExt, SequencesExt

CONSTANTS
  Models,
  Weights,      \* Weights[m]: the bytes of the model's weights
  Total,        \* the machine's memory
  ReservePercent,
  Exclusive,    \* a load evicts every other model that is not pinned
  Plain,        \* an engine that neither lists what is resident nor loads nor unloads
  Options,      \* the operator's loads: records swap, pin, pri, by = "admin"
  MaxCalls,     \* bound: calls of the manager
  MaxInflight   \* bound: requests in flight for a model

VARIABLES
  installed,   \* the models table
  status,      \* the placement rows: "none" | "ready" | "draining"
  desired,     \* the desired rows, oldest first
  resident,    \* what the engine holds (external)
  inflight,    \* requests in flight, by model
  lru,         \* the models, least recently used first
  op,          \* the call that holds the mutex
  left,        \* its caller left: the context of its engine calls and writes is done
  restoring,   \* what Restore has still to load
  calls,       \* calls so far
  moved,       \* history: the engine held too much when the call planned, or changed what it holds since
  cut          \* history: models whose drain a departed caller cut short, since the start

vars == <<installed, status, desired, resident, inflight, lru, op, left, restoring, calls, moved, cut>>

DefaultReservePercent == 20
Footprint(weights) == IF weights <= 0 THEN 0 ELSE weights + weights \div 5
BudgetOf(total, reserve) ==
  (total * (100 - (IF reserve <= 0 \/ reserve >= 100 THEN DefaultReservePercent ELSE reserve))) \div 100

Budget == BudgetOf(Total, ReservePercent)
Need(m) == Footprint(Weights[m])
Held(S) == MapThenSumSet(Need, S)

Idle == [kind |-> "none", m |-> "none"]
Off  == [kind |-> "off", m |-> "none"]     \* the leader is not running

Init ==
  /\ installed = Models
  /\ status = [m \in Models |-> "ready"] /\ desired = <<>> /\ resident = {}
  /\ inflight = [m \in Models |-> 0] /\ lru = SetToSeq(Models)
  /\ op = Idle /\ left = FALSE /\ restoring = <<>> /\ calls = 0 /\ moved = FALSE /\ cut = {}

---------------------------------------------------------------------------
(* The tables.                                                             *)

RowOf(m) == {r \in ToSet(desired) : r.m = m}
Pinned(m) == \E r \in RowOf(m) : r.pin
Priority(m) == IF RowOf(m) = {} THEN 0 ELSE (CHOOSE r \in RowOf(m) : TRUE).pri
Without(rows, m) == SelectSeq(rows, LAMBDA r : r.m # m)
\* An update keeps the row's place: its created_at.
Upsert(rows, row) ==
  IF \E i \in DOMAIN rows : rows[i].m = row.m
  THEN [i \in DOMAIN rows |-> IF rows[i].m = row.m THEN row ELSE rows[i]]
  ELSE Append(rows, row)
\* ListByNode: by priority, then by age.
ByPriority(rows) ==
  LET at(r) == CHOOSE i \in DOMAIN rows : rows[i] = r
  IN  SetToSortSeq(ToSet(rows), LAMBDA r, s : r.pri > s.pri \/ (r.pri = s.pri /\ at(r) < at(s)))
SetStatus(m, s) == status' = IF left \/ status[m] = "none" THEN status ELSE [status EXCEPT ![m] = s]

---------------------------------------------------------------------------
(* Planning.                                                               *)

Used(m) == CHOOSE i \in DOMAIN lru : lru[i] = m

\* Mutant: the pins are not read.
RankAll(m) ==
  SetToSortSeq(resident \ {m},
    LAMBDA a, b : Priority(a) < Priority(b) \/ (Priority(a) = Priority(b) /\ Used(a) < Used(b)))

\* The models a load of m may evict, first the one to go first.
RankVictims(m) ==
  SetToSortSeq({v \in resident \ {m} : ~Pinned(v)},
    LAMBDA a, b : Priority(a) < Priority(b) \/ (Priority(a) = Priority(b) /\ Used(a) < Used(b)))

Freed(victims, n) == Held(ToSet(SubSeq(victims, 1, n)))

PlanLoad(m) ==
  LET free    == IF Held(resident) > Budget THEN 0 ELSE Budget - Held(resident)
      ranked  == RankVictims(m)
      enough  == {n \in 0..Len(ranked) : Freed(ranked, n) >= Need(m) - free}
      taken   == IF Exclusive \/ enough = {} THEN Len(ranked) ELSE Min(enough)
      verdict == CASE Need(m) > Budget -> "impossible"
                   [] Plain \/ m \in resident \/ (free >= Need(m) /\ ~Exclusive) -> "fits"
                   [] free + Freed(ranked, taken) >= Need(m) -> "swap"
                   [] OTHER -> "blocked"
  IN  [verdict |-> verdict,
       victims |-> IF verdict = "swap" THEN SubSeq(ranked, 1, taken) ELSE <<>>]

\* Exclusive implies Swap; with nothing to evict no swap is asked for.
Accepts(p, swap) == p.verdict = "fits" \/ (p.verdict = "swap" /\ (p.victims = <<>> \/ swap \/ Exclusive))

---------------------------------------------------------------------------
(* Load.                                                                   *)

\* The model the call is draining: a load's next victim, or an unload's own.
Target == IF op.kind = "load" THEN op.victims[1] ELSE op.m

\* The call returns.
End == op' = Idle /\ left' = FALSE /\ cut' = IF left THEN cut \cup {Target} ELSE cut

Phase(victims) == IF victims = <<>> THEN "load" ELSE "mark"

BeginLoad(m, o) ==
  /\ m \in installed
  /\ LET p == PlanLoad(m)
     IN  /\ Accepts(p, o.swap)
         /\ op' = [kind |-> "load", m |-> m, pin |-> o.pin, pri |-> o.pri, by |-> o.by,
                   victims |-> p.victims, phase |-> Phase(p.victims)]
  /\ left' = FALSE /\ moved' = (Held(resident) > Budget)

Load(m) ==
  /\ op = Idle /\ calls < MaxCalls
  /\ \E o \in Options : BeginLoad(m, o)
  /\ calls' = calls + 1
  /\ UNCHANGED <<installed, status, desired, resident, inflight, lru, restoring, cut>>

Draining(phase) == op.kind \in {"load", "unload"} /\ op.phase = phase

Mark ==
  /\ Draining("mark")
  /\ SetStatus(Target, "draining")
  /\ op' = [op EXCEPT !.phase = "settle"]
  /\ UNCHANGED <<installed, desired, resident, inflight, lru, left, restoring, calls, moved, cut>>

\* Nothing in flight, or DrainTimeout is over, or the caller left.
Settle ==
  /\ Draining("settle")
  /\ op' = [op EXCEPT !.phase = "unload"]
  /\ UNCHANGED <<installed, status, desired, resident, inflight, lru, left, restoring, calls, moved, cut>>

\* Engine.Unload; a done context fails it.
Unload ==
  /\ Draining("unload")
  /\ \/ /\ ~left /\ ~Plain
        /\ resident' = resident \ {Target}
        /\ op' = [op EXCEPT !.phase = "unloaded"]
     \/ /\ UNCHANGED resident
        /\ op' = [op EXCEPT !.phase = "failed"]
  /\ UNCHANGED <<installed, status, desired, inflight, lru, left, restoring, calls, moved, cut>>

Forget(m) == desired' = IF left THEN desired ELSE Without(desired, m)

\* evict: a victim the engine did not release aborts the load; routing is restored.
EvictFailed ==
  /\ op.kind = "load" /\ op.phase = "failed"
  /\ SetStatus(Target, "ready")
  /\ End
  /\ UNCHANGED <<installed, desired, resident, inflight, lru, restoring, calls, moved>>

Evicted ==
  /\ op.kind = "load" /\ op.phase = "unloaded"
  /\ SetStatus(Target, "ready") /\ Forget(Target)
  /\ op' = [op EXCEPT !.victims = Tail(@), !.phase = Phase(Tail(op.victims))]
  /\ cut' = IF left THEN cut \cup {Target} ELSE cut
  /\ UNCHANGED <<installed, resident, inflight, lru, left, restoring, calls, moved>>

\* The engine's load; a failure leaves the victims evicted.
EngineLoad ==
  /\ op.kind = "load" /\ op.phase = "load"
  /\ \/ /\ ~left \/ Plain
        /\ resident' = IF Plain THEN resident ELSE resident \cup {op.m}
        /\ op' = [op EXCEPT !.phase = "record"]
        /\ UNCHANGED left
     \/ /\ ~Plain /\ op' = Idle /\ left' = FALSE /\ UNCHANGED resident
  /\ UNCHANGED <<installed, status, desired, inflight, lru, restoring, calls, moved, cut>>

Record ==
  /\ op.kind = "load" /\ op.phase = "record"
  /\ status' = IF left THEN status ELSE [status EXCEPT ![op.m] = "ready"]
  /\ desired' = IF left THEN desired ELSE Upsert(desired, [m |-> op.m, pri |-> op.pri, pin |-> op.pin])
  /\ op' = Idle /\ left' = FALSE
  /\ UNCHANGED <<installed, resident, inflight, lru, restoring, calls, moved, cut>>

---------------------------------------------------------------------------
(* Unload, `opod down`, Restore.                                           *)

UnloadModel(m) ==
  /\ op = Idle /\ calls < MaxCalls /\ m \in installed
  /\ op' = [kind |-> "unload", m |-> m, by |-> "admin", phase |-> "mark"]
  /\ left' = FALSE /\ moved' = FALSE /\ calls' = calls + 1
  /\ UNCHANGED <<installed, status, desired, resident, inflight, lru, restoring, cut>>

\* The desired row goes whether or not the engine released the model.
Unloaded ==
  /\ op.kind = "unload" /\ op.phase \in {"unloaded", "failed"}
  /\ SetStatus(op.m, "ready") /\ Forget(op.m)
  /\ End
  /\ UNCHANGED <<installed, resident, inflight, lru, restoring, calls, moved>>

\* `opod down` or a crash.  UnloadAll asks for every resident model, passes over
\* one the engine fails to unload, and keeps the desired rows.
Down ==
  /\ op # Off /\ calls < MaxCalls
  /\ op' = Off /\ calls' = calls + 1
  /\ resident' \in (IF Plain THEN {resident} ELSE SUBSET resident)
  /\ restoring' = <<>> /\ inflight' = [m \in Models |-> 0]
  /\ left' = FALSE /\ moved' = FALSE
  /\ UNCHANGED <<installed, status, desired, lru, cut>>

\* `opod up`: draining marks are reset, the desired rows listed for Restore.
Up ==
  /\ op = Off
  /\ op' = Idle /\ restoring' = ByPriority(desired)
  /\ status' = [m \in Models |-> IF status[m] = "draining" THEN "ready" ELSE status[m]]
  /\ cut' = {}
  /\ UNCHANGED <<installed, desired, resident, inflight, lru, left, calls, moved>>

\* The next desired model; one that cannot be loaded is logged and passed over.
RestoreNext ==
  /\ op = Idle /\ restoring # <<>>
  /\ LET d == restoring[1]
         o == [swap |-> TRUE, pin |-> d.pin, pri |-> d.pri, by |-> "restore"]
     IN  \/ BeginLoad(d.m, o)
         \/ /\ ~(d.m \in installed /\ Accepts(PlanLoad(d.m), TRUE))
            /\ UNCHANGED <<op, left, moved>>
  /\ restoring' = Tail(restoring)
  /\ UNCHANGED <<installed, status, desired, resident, inflight, lru, calls, cut>>

---------------------------------------------------------------------------
(* Around the manager.                                                     *)

\* The operator's client goes; Restore's context is the server's.
CallerLeaves ==
  /\ op.kind \in {"load", "unload"} /\ op.by = "admin" /\ ~left
  /\ left' = TRUE
  /\ UNCHANGED <<installed, status, desired, resident, inflight, lru, op, restoring, calls, moved, cut>>

\* A request: routed by the placement row, loaded by the engine on demand, which
\* drops models of its own choice when it is short.
Request(m) ==
  /\ op # Off /\ status[m] = "ready" /\ inflight[m] < MaxInflight
  /\ inflight' = [inflight EXCEPT ![m] = @ + 1]
  /\ lru' = Append(SelectSeq(lru, LAMBDA x : x # m), m)
  /\ resident' \in IF m \in resident THEN {resident}
                   ELSE {S \cup {m} : S \in {T \in SUBSET resident : Held(T \cup {m}) <= Budget}}
  /\ moved' = (moved \/ resident' # resident)
  /\ UNCHANGED <<installed, status, desired, op, left, restoring, calls, cut>>

Answered(m) ==
  /\ inflight[m] > 0
  /\ inflight' = [inflight EXCEPT ![m] = @ - 1]
  /\ UNCHANGED <<installed, status, desired, resident, lru, op, left, restoring, calls, moved, cut>>

\* DeleteModel and AddModel take no part in the manager's mutex.
DeleteModel(m) ==
  /\ op # Off /\ m \in installed /\ calls < MaxCalls
  /\ installed' = installed \ {m} /\ resident' = resident \ {m}
  /\ status' = [status EXCEPT ![m] = "none"] /\ desired' = Without(desired, m)
  /\ calls' = calls + 1
  /\ moved' = TRUE
  /\ UNCHANGED <<inflight, lru, op, left, restoring, cut>>

AddModel(m) ==
  /\ op # Off /\ m \notin installed
  /\ installed' = installed \cup {m} /\ status' = [status EXCEPT ![m] = "ready"]
  /\ UNCHANGED <<desired, resident, inflight, lru, op, left, restoring, calls, moved, cut>>

Next ==
  \/ \E m \in Models : Load(m) \/ UnloadModel(m) \/ Request(m) \/ Answered(m) \/ DeleteModel(m) \/ AddModel(m)
  \/ Mark \/ Settle \/ Unload \/ EvictFailed \/ Evicted \/ EngineLoad \/ Record \/ Unloaded
  \/ Down \/ Up \/ RestoreNext \/ CallerLeaves

Spec == Init /\ [][Next]_vars

---------------------------------------------------------------------------
(* Properties.                                                             *)

\* When the manager asks the engine for a model, the model fits into the budget
\* beside everything the engine then holds, although victims may fail to go
\* away; and it evicts no model that is pinned (PlanLoad, rankVictims, evict).
\* Not so when the engine itself loaded another model since the plan was made,
\* or held more than the budget before it: PlanLoad takes the free memory for 0 then.
LoadFits ==
  /\ Draining("load") /\ ~moved /\ ~Plain /\ op.m \notin resident => Held(resident \cup {op.m}) <= Budget
  /\ op.kind = "load" /\ ~moved => \A i \in DOMAIN op.victims : ~Pinned(op.victims[i])

\* A placement says "draining", which keeps requests from the model, only while
\* a call drains it: every way out of an eviction or an unload restores routing,
\* and so does a restart (evict, Unload).  A caller who left takes the context
\* of that last write along.
DrainingIsDriven ==
  \A m \in Models :
    status[m] = "draining" =>
      \/ op = Off \/ m \in cut
      \/ op.kind \in {"load", "unload"} /\ op.phase # "mark" /\ op.phase # "load" /\ op.phase # "record" /\ Target = m

\* A restart: what Restore loads never takes the place of a desired model of a
\* higher priority.  The code does not promise it: the models are loaded in
\* order of priority, each with leave to evict.
RestoreKeepsPriority ==
  op.kind = "load" /\ op.by = "restore" /\ op.phase = "mark" => Priority(Target) <= op.pri
=============================================================================
