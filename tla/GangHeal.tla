------------------------------ MODULE GangHeal ------------------------------
(***************************************************************************)
(* The leader's gang healer (leader/planheal.go): every 15 s it looks for  *)
(* a gang that the plan declares and that has no part on record, waits out *)
(* 45 s, and forms it when enough workers are free; a heal that failed is  *)
(* tried again after 15 s, then 30 s, three times in all.                  *)
(*                                                                         *)
(* Time runs in ticks of 15 s: a clock is the ticks since its start (up to *)
(* healAfter, beyond which it is not told apart), a back-off the ticks     *)
(* that are left of it.  The ticker drops the ticks of a pass that is      *)
(* still forming a gang, and queues one.                                   *)
(***************************************************************************)
EXTENDS Naturals, FiniteSets, FiniteSetsExt, Sequences, SequencesExt

CONSTANTS Gangs,      \* the gangs, in the order the plan lists them
          Size,       \* gang -> its parts
          Workers,    \* how many workers take new work
          Doomed,     \* the gangs whose creates fail
          MaxPlans,   \* bound on the changes of the plan
          MaxHands    \* bound on what a manager does by hand

healAfter == 3
healMaxAttempts == 3
healBackoffAfter(n) == CASE n = 1 -> 1 [] n = 2 -> 2 [] OTHER -> 4

Never == [on |-> FALSE, age |-> 0]
None == [shape |-> 0, failures |-> 0, wait |-> 0]
NoPass == [gang |-> "", shape |-> 0]
Names == ToSet(Gangs)

VARIABLES shape,    \* gang -> its shape in the plan, 0 when it is not in it
          held,     \* the gangs with parts on record
          absent,   \* gang -> its absence clock
          failed,   \* gang -> its back-off
          forming,  \* the gang a pass is forming, and its shape as the pass read it
          tick,     \* a tick is queued
          plans, hands
vars == <<shape, held, absent, failed, forming, tick, plans, hands>>
outside == <<shape, plans, hands>>

Init ==
  /\ shape = [g \in Names |-> 1] /\ held \in SUBSET Names
  /\ absent = [g \in Names |-> Never] /\ failed = [g \in Names |-> None]
  /\ forming = NoPass /\ tick = FALSE
  /\ plans = 0 /\ hands = 0

InPlan(g) == shape[g] # 0
Idle == forming = NoPass

\* freeWorkers: those that take new work and hold no part.
Free == LET used == MapThenSumSet(LAMBDA g : Size[g], held) IN IF used < Workers THEN Workers - used ELSE 0

\* Mutant: a gang that was given up is asked about afresh.
AdmitAfresh(g) ==
  IF ~InPlan(g) \/ g \in held \/ failed[g].shape # shape[g] \/ failed[g].failures >= healMaxAttempts
  THEN [ok |-> InPlan(g), failed |-> None]
  ELSE [ok |-> failed[g].wait = 0, failed |-> failed[g]]

\* admit: a back-off is forgotten when the gang is there, has another shape or
\* has left the plan; one given up or still backing off is not looked at.
Admit(g) ==
  IF ~InPlan(g) \/ g \in held \/ failed[g].shape # shape[g]
  THEN [ok |-> InPlan(g), failed |-> None]
  ELSE [ok |-> failed[g].failures < healMaxAttempts /\ failed[g].wait = 0, failed |-> failed[g]]

Ready(g) == g \notin held /\ absent[g].on /\ absent[g].age >= healAfter /\ Free >= Size[g]

\* pickGangToHeal: the first gang of the plan that is ready; the clocks of the
\* gangs before it are started and stopped on the way.
PickGangToHeal ==
  {i \in DOMAIN Gangs : Admit(Gangs[i]).ok /\ Ready(Gangs[i])
                        /\ \A j \in 1 .. i - 1 : ~(Admit(Gangs[j]).ok /\ Ready(Gangs[j]))}

\* healGangs, up to the create.
Pass ==
  /\ tick /\ Idle /\ tick' = FALSE
  /\ LET pick == PickGangToHeal
         seen(i) == Admit(Gangs[i]).ok /\ \A p \in pick : i < p
         clock(g) == IF g \in held THEN Never
                     ELSE IF absent[g].on THEN absent[g] ELSE [Never EXCEPT !.on = TRUE]
     IN  IF \A g \in Names : ~InPlan(g) THEN UNCHANGED <<absent, failed, forming>>
         ELSE /\ absent' = [g \in Names |-> IF \E i \in DOMAIN Gangs : Gangs[i] = g /\ seen(i) THEN clock(g) ELSE absent[g]]
              /\ failed' = [g \in Names |-> Admit(g).failed]
              /\ forming' = IF pick = {} THEN NoPass ELSE LET g == Gangs[CHOOSE p \in pick : TRUE] IN [gang |-> g, shape |-> shape[g]]
  /\ UNCHANGED <<held, outside>>

\* failedHeal.
FailedHeal(g, s) ==
  LET n == IF failed[g].shape = s THEN failed[g].failures + 1 ELSE 1
  IN  [shape |-> s, failures |-> n, wait |-> healBackoffAfter(n)]

\* The rest of healGangs: formed; another create was forming it; or it failed,
\* with the shape the pass had read (a plan applied since does not matter).
Formed ==
  /\ ~Idle /\ forming.gang \notin Doomed /\ forming' = NoPass
  /\ held' = held \cup {forming.gang}
  /\ absent' = [absent EXCEPT ![forming.gang] = Never] /\ failed' = [failed EXCEPT ![forming.gang] = None]
  /\ UNCHANGED <<tick, outside>>

InFlight ==
  /\ ~Idle /\ hands < MaxHands /\ hands' = hands + 1 /\ forming' = NoPass
  /\ UNCHANGED <<shape, held, absent, failed, tick, plans>>

HealFails ==
  /\ forming.gang \in Doomed /\ forming' = NoPass
  /\ failed' = [failed EXCEPT ![forming.gang] = FailedHeal(forming.gang, forming.shape)]
  /\ UNCHANGED <<held, absent, tick, outside>>

-----------------------------------------------------------------------------
(* Time, the plan and the manager                                          *)

\* A tick of the healer's ticker, 15 s after the one before it.
Tick ==
  /\ ~tick /\ tick' = TRUE
  /\ absent' = [g \in Names |-> IF absent[g].on /\ absent[g].age < healAfter THEN [absent[g] EXCEPT !.age = @ + 1] ELSE absent[g]]
  /\ failed' = [g \in Names |-> [failed[g] EXCEPT !.wait = IF @ > 0 THEN @ - 1 ELSE 0]]
  /\ UNCHANGED <<shape, held, forming, plans, hands>>

\* The plan file parks a gang, or gives it another shape.
PlanChanges(g) ==
  /\ plans < MaxPlans /\ plans' = plans + 1
  /\ \E s \in {0, plans + 2} : s # shape[g] /\ shape' = [shape EXCEPT ![g] = s]
  /\ UNCHANGED <<held, absent, failed, forming, tick, hands>>

\* The manager forms a gang, or takes one down.
ManagerForms(g) ==
  /\ hands < MaxHands /\ hands' = hands + 1 /\ g \notin held /\ forming.gang # g /\ Free >= Size[g]
  /\ held' = held \cup {g}
  /\ UNCHANGED <<shape, absent, failed, forming, tick, plans>>

ManagerRemoves(g) ==
  /\ hands < MaxHands /\ hands' = hands + 1 /\ g \in held /\ held' = held \ {g}
  /\ UNCHANGED <<shape, absent, failed, forming, tick, plans>>

Loop == Tick \/ Pass \/ Formed \/ HealFails

Next ==
  \/ Loop \/ InFlight
  \/ \E g \in Names : PlanChanges(g) \/ ManagerForms(g) \/ ManagerRemoves(g)

Spec == Init /\ [][Next]_vars /\ WF_vars(Loop)

-----------------------------------------------------------------------------
(* Properties *)

\* The healer comes to rest: once the plan and the manager leave things alone,
\* every gang of the plan is formed, or was given up, or has not the workers it
\* needs -- none is starved by one before it in the plan, and none is tried for
\* ever (healMaxAttempts, "it GIVES UP").
Settled ==
  Idle /\ \A g \in Names :
    InPlan(g) => g \in held \/ failed[g].failures >= healMaxAttempts \/ Free < Size[g]
=============================================================================
