---------------------------- MODULE WatchedFiles ----------------------------
(***************************************************************************)
(* The two files a managed leader is steered by: the plan (leader/         *)
(* planfile.go) and the policy snapshot (leader/policyfile.go).  Each has  *)
(* a watcher that looks at the file's time, reads it and puts it in force  *)
(* while the file is replaced and requests are judged by it.  The plan is  *)
(* put in force under one lock; the policy setting by setting, in order.   *)
(*                                                                         *)
(* A document is a model value with what the leader takes from it; Bad is  *)
(* one that does not parse.  A request's model is the plan's, the plan's   *)
(* with an adapter after it, or another.                                   *)
(***************************************************************************)
EXTENDS Integers, Sequences, FiniteSets

CONSTANTS
  Plans,       \* [id, revision, model, adapters, context, floor, max, gangs]
  Policies,    \* [id, sticky, isolation, marks]; of the other settings, that they
               \* are this document's
  Callers,
  Models,      \* what a request may name: [base, adapter]; "" is none
  StickyConfigured,
  MaxWrites, MaxTime, MaxChecks

VARIABLES
  file,       \* per file: there, time, doc
  watch,      \* per watcher: on, stage, stat, lastMod
  plan,       \* planFileState
  policy,     \* what is in force, per setting
  todo,       \* the policy being applied, and the settings still to store
  told,       \* the context the admission's waiters were last woken for
  call,       \* per caller: stage, model, planModel, allowed; history: could, a
              \* plan in force during its check allows it
  now, writes, checks,
  blurred,    \* history: per file, replaced with its time not moved on
  turned      \* history: per caller, the plan changed during its check

vars == <<file, watch, plan, policy, todo, told, call, now, writes, checks, blurred, turned>>

Bad == 0
PlanOf(d)   == CHOOSE p \in Plans : p.id = d
PolicyOf(d) == CHOOSE p \in Policies : p.id = d
Docs == [plan |-> {p.id : p \in Plans} \cup {Bad}, policy |-> {p.id : p \in Policies} \cup {Bad}]
Kinds == {"plan", "policy"}

NoPlan == [id |-> 0, revision |-> 0, model |-> "", adapters |-> {}, gangs |-> {},
           present |-> FALSE, zeroFloor |-> FALSE, context |-> 0]
Settings == <<"url", "sticky", "isolation", "maxAge", "marks", "log", "revisions">>
NotSet == [url |-> 0, sticky |-> StickyConfigured, isolation |-> "team", maxAge |-> 0, marks |-> {},
           log |-> 0, revisions |-> 0]
NoCall == [stage |-> "idle", model |-> [base |-> "", adapter |-> ""], planModel |-> "", allowed |-> FALSE, could |-> FALSE]

Init ==
  /\ \E there \in BOOLEAN, d \in Docs.plan :
       file = [k \in Kinds |-> [there |-> k = "plan" /\ there, time |-> 1, doc |-> IF k = "plan" THEN d ELSE Bad]]
  /\ watch = [k \in Kinds |-> [on |-> FALSE, stage |-> "idle", stat |-> 0, lastMod |-> 0]]
  /\ plan = NoPlan /\ policy = NotSet /\ todo = [doc |-> 0, left |-> <<>>] /\ told = 0
  /\ call = [c \in Callers |-> NoCall]
  /\ now = 1 /\ writes = 0 /\ checks = 0
  /\ blurred = [k \in Kinds |-> FALSE] /\ turned = [c \in Callers |-> FALSE]

-----------------------------------------------------------------------------
(* The watchers.                                                           *)

\* StartPlanWatcher watches a plan that is there when it starts;
\* StartPolicyWatcher watches in any case.
Start(k) ==
  /\ ~watch[k].on /\ (k = "plan" => file[k].there)
  /\ k = "plan" => writes = 0
  /\ watch' = [watch EXCEPT ![k].on = TRUE]
  /\ UNCHANGED <<file, plan, policy, todo, told, call, now, writes, checks, blurred, turned>>

\* A look at the file: nothing, unless its time is past the one taken last.
Stat(k) ==
  /\ watch[k].on /\ watch[k].stage = "idle" /\ file[k].there /\ file[k].time > watch[k].lastMod
  /\ watch' = [watch EXCEPT ![k].stage = "read", ![k].stat = file[k].time]
  /\ UNCHANGED <<file, plan, policy, todo, told, call, now, writes, checks, blurred, turned>>

Read(k) == watch[k].stage = "read" /\ UNCHANGED <<file, now, writes, checks, blurred>>
Unread(k) == ~file[k].there \/ file[k].doc = Bad

\* Mutant: the time is looked up again once the file is read.
TakenLate(k) == watch' = [watch EXCEPT ![k].stage = "idle", ![k].lastMod = now]

\* Read and understood: its time is the one seen before it was read.
Taken(k) == watch' = [watch EXCEPT ![k].stage = "idle", ![k].lastMod = watch[k].stat]

\* A file that is gone, or does not parse, keeps what is in force, and is read
\* again.
KeepsLastGood(k) ==
  /\ Read(k) /\ Unread(k)
  /\ watch' = [watch EXCEPT ![k].stage = "idle"]
  /\ UNCHANGED <<plan, policy, todo, told, call, turned>>

Judge(m, planModel, names) ==
  \/ planModel = "" \/ (m.base = planModel /\ m.adapter = "")
  \/ m.base = planModel /\ m.adapter # "" /\ (names = {} \/ m.adapter \in names)

\* The longest request: stated, or the sum of the two lengths; never negative.
Context(p) == IF p.context < 0 THEN 0 ELSE p.context

PlanInForce(p) ==
  [id |-> p.id, revision |-> p.revision, model |-> p.model, adapters |-> p.adapters,
   gangs |-> p.gangs, present |-> TRUE, zeroFloor |-> (p.max > 0 /\ p.floor = 0), context |-> Context(p)]

\* The plan, under its lock, and capacityChanged when the context moved.
ApplyPlan ==
  /\ Read("plan") /\ ~Unread("plan") /\ Taken("plan")
  /\ plan' = PlanInForce(PlanOf(file.plan.doc))
  /\ told' = IF plan'.context # plan.context THEN plan'.context ELSE told
  /\ turned' = [c \in Callers |-> turned[c] \/ call[c].stage = "named"]
  /\ call' = [c \in Callers |-> [call[c] EXCEPT !.could =
                @ \/ (call[c].stage = "named" /\ Judge(call[c].model, plan'.model, plan'.adapters))]]
  /\ UNCHANGED <<policy, todo>>

\* applyPolicySnapshot begins: its lock keeps other snapshots out.
BeginPolicy ==
  /\ Read("policy") /\ ~Unread("policy")
  /\ watch' = [watch EXCEPT !.policy.stage = "apply", !.policy.lastMod = watch.policy.stat]
  /\ todo' = [doc |-> file.policy.doc, left |-> Settings]
  /\ UNCHANGED <<plan, policy, told, call, turned>>

\* Seconds the policy gives, or the configured ones.
stickyTTLFor(seconds) == IF seconds > 0 THEN seconds ELSE StickyConfigured

\* An unknown value isolates per team.
cacheIsolationMode(v) == IF v \in {"none", "key", "team"} THEN v ELSE "team"

\* applyWakeMarks stores the marks when they differ: what is in force is theirs.
applyWakeMarks(marks) == IF policy.marks = marks THEN policy.marks ELSE marks

Value(s, d) ==
  CASE s = "sticky"    -> stickyTTLFor(PolicyOf(d).sticky)
    [] s = "isolation" -> cacheIsolationMode(PolicyOf(d).isolation)
    [] s = "marks"     -> applyWakeMarks(PolicyOf(d).marks)
    [] OTHER           -> d

\* The next setting is stored; revision weights come after the lock.
ApplySetting ==
  /\ todo.left # <<>>
  /\ policy' = [policy EXCEPT ![Head(todo.left)] = Value(Head(todo.left), todo.doc)]
  /\ todo' = [todo EXCEPT !.left = Tail(@)]
  /\ watch' = IF Len(todo.left) = 1 THEN [watch EXCEPT !.policy.stage = "idle"] ELSE watch
  /\ UNCHANGED <<file, plan, told, call, now, writes, checks, blurred, turned>>

-----------------------------------------------------------------------------
(* planAllowsModel: two looks at the plan.                                 *)

\* The plan's model; most requests are judged by it alone.
Named(c, m) ==
  /\ call[c].stage # "named" /\ checks < MaxChecks
  /\ call' = [call EXCEPT ![c] =
       [stage |-> IF plan.model # "" /\ m.base = plan.model /\ m.adapter # "" THEN "named" ELSE "judged",
        model |-> m, planModel |-> plan.model, allowed |-> Judge(m, plan.model, {"none"}),
        could |-> Judge(m, plan.model, plan.adapters)]]
  /\ checks' = checks + 1 /\ turned' = [turned EXCEPT ![c] = FALSE]
  /\ UNCHANGED <<file, watch, plan, policy, todo, told, now, writes, blurred>>

\* adapterNames, for one with an adapter.
Judged(c) ==
  /\ call[c].stage = "named"
  /\ call' = [call EXCEPT ![c].stage = "judged",
                          ![c].allowed = Judge(call[c].model, call[c].planModel, plan.adapters)]
  /\ UNCHANGED <<file, watch, plan, policy, todo, told, now, writes, checks, blurred, turned>>

-----------------------------------------------------------------------------
(* Whoever writes the files, and time.                                     *)

Write(k, d) ==
  /\ writes < MaxWrites /\ writes' = writes + 1
  /\ file' = [file EXCEPT ![k] = [there |-> TRUE, time |-> now, doc |-> d]]
  /\ blurred' = [blurred EXCEPT ![k] = file[k].there /\ file[k].time = now]
  /\ UNCHANGED <<watch, plan, policy, todo, told, call, now, checks, turned>>

Tick ==
  /\ now < MaxTime /\ now' = now + 1
  /\ UNCHANGED <<file, watch, plan, policy, todo, told, call, writes, checks, blurred, turned>>

Next ==
  \/ \E k \in Kinds : Start(k) \/ Stat(k) \/ KeepsLastGood(k) \/ (\E d \in Docs[k] : Write(k, d))
  \/ ApplyPlan \/ BeginPolicy \/ ApplySetting
  \/ \E c \in Callers : (\E m \in Models : Named(c, m)) \/ Judged(c)
  \/ Tick

Spec == Init /\ [][Next]_vars

-----------------------------------------------------------------------------
(* Properties                                                              *)

\* What is in force comes whole from one document, the last good one the file
\* was seen with.  No plan mixes two documents, and when no snapshot is being
\* applied neither does the policy, bad files included ("never a half-applied
\* one"); a good file whose time was taken is in force, unless it was replaced
\* within one tick of its clock; the admission was told of the context in
\* force (capacityChanged).
InForceIsWhole ==
  /\ plan.present => plan = PlanInForce(PlanOf(plan.id))
  /\ \A k \in Kinds :
       watch[k].stage = "idle" /\ watch[k].lastMod = file[k].time /\ ~blurred[k] /\ file[k].doc # Bad =>
         IF k = "plan" THEN plan.id = file[k].doc ELSE policy["url"] = file[k].doc
  /\ todo.left = <<>> /\ policy.url # 0 =>
       LET p == PolicyOf(policy.url) IN
       /\ {policy.maxAge, policy.log, policy.revisions} = {p.id} /\ policy.marks = p.marks
       /\ policy.sticky = IF p.sticky > 0 THEN p.sticky ELSE StickyConfigured
       /\ policy.isolation = p.isolation \/ (policy.isolation = "team" /\ p.isolation = "unknown")
  /\ told = plan.context

\* A request is let through (planAllowsModel) exactly when a plan in force
\* during its check allows it: it names the plan's model, alone or with an
\* adapter the plan declares, or any where the plan declares none.  Not so when
\* the plan changes between the two looks, which the code does not exclude.
JudgedByThePlan ==
  \A c \in Callers : call[c].stage = "judged" /\ ~turned[c] => (call[c].allowed <=> call[c].could)

\* What is in force is whole (the watchers), and requests are judged by it
\* (planAllowsModel).
FilesSteer == InForceIsWhole /\ JudgedByThePlan
=============================================================================
