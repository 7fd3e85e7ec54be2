---------------------------- MODULE CapacityView ----------------------------
(***************************************************************************)
(* How a pool learns what it can serve (capacityFor, computeCapacity,      *)
(* capacityChanged, setCap in leader/admission.go).                        *)
(*                                                                         *)
(* The registry says how many slots can serve a model; a writer (a         *)
(* heartbeat, a drain, a load...) changes it, then announces the change by *)
(* bumping the generation, then re-reads the pool if a request waits       *)
(* there.  A view is computed outside the lock by two reads of the         *)
(* registry and labelled with the generation loaded before them.  Liveness *)
(* also lapses by the clock, which nothing announces.                      *)
(*                                                                         *)
(* `ver` counts the changes, announced or not; it and the versions a view  *)
(* was read at are history, the code compares generations only.  Slot      *)
(* counting is the module SlotGate: here a pool that can serve grants.     *)
(***************************************************************************)
EXTENDS Naturals, FiniteSets, TLAPS

CONSTANTS Requests, Writers,
          Patient,   \* the requests whose class has a hold budget
          MaxSlots,  \* bound on the slots the registry may hold
          MaxWrites  \* bound on the changes of the registry

ASSUME ThreadAssumption == Requests \cap Writers = {} /\ Patient \subseteq Requests
ASSUME BoundAssumption == MaxSlots \in Nat /\ MaxWrites \in Nat

Threads == Requests \cup Writers

VARIABLES slots,   \* the slots able to serve now; 0: nothing can
          ver,     \* how often the registry changed
          silent,  \* the changes made by the clock, never announced
          wrote,   \* Writers -> the version of the write it is to announce
          gen,     \* slotGate.gen
          cap,     \* the pool's cached view; known = FALSE: no view yet
          pc,      \* Threads -> where it is
          call,    \* Threads -> its call of capacityFor: label, reads, result
          since    \* Requests -> the generation when it was queued
vars == <<slots, ver, silent, wrote, gen, cap, pc, call, since>>

\* computeCapacity from its first read (is anything able to serve) and its
\* second (count the slots).  Servable with nothing counted is ungoverned.
Computed(up, n) ==
    [servable |-> up, slots |-> IF up THEN n ELSE 0, ungoverned |-> IF up /\ n = 0 THEN 1 ELSE 0]

TrueView(n) == IF n > 0 THEN Computed(TRUE, n) ELSE Computed(FALSE, 0)

NoView == [known |-> FALSE, young |-> FALSE, gen |-> 0, read |-> 0, view |-> Computed(TRUE, 0)]
NoCall == [gen |-> 0, read |-> 0, view |-> Computed(FALSE, 0)]

Waiters == {r \in Requests : pc[r] = "waiting"}

\* The changes a writer has made and not yet announced.
Unannounced == {wrote[w] : w \in {x \in Writers : pc[x] = "wrote"}}

Init ==
    /\ slots \in 0..MaxSlots /\ ver = 0 /\ silent = {} /\ gen = 0
    /\ wrote = [w \in Writers |-> 0]
    /\ cap = NoView
    /\ pc = [t \in Threads |-> "idle"]
    /\ call = [t \in Threads |-> NoCall]
    /\ since = [r \in Requests |-> 0]

-----------------------------------------------------------------------------
(* Writers *)

\* A write that adds or removes a worker, a placement or a gang; it may leave
\* the slots as they are (most heartbeats).
Write(w) ==
    /\ pc[w] = "idle" /\ ver < MaxWrites
    /\ \E n \in 0..MaxSlots : slots' = n
    /\ ver' = ver + 1
    /\ wrote' = [wrote EXCEPT ![w] = ver + 1]
    /\ pc' = [pc EXCEPT ![w] = "wrote"]
    /\ UNCHANGED <<silent, gen, cap, call, since>>

\* capacityChanged announces it...
Bump(w) ==
    /\ pc[w] = "wrote"
    /\ gen' = gen + 1
    /\ wrote' = [wrote EXCEPT ![w] = 0]
    /\ pc' = [pc EXCEPT ![w] = "bumped"]
    /\ UNCHANGED <<slots, ver, silent, cap, call, since>>

\* ...and re-reads the pool when a request waits in it.
Look(w) ==
    /\ pc[w] = "bumped"
    /\ pc' = [pc EXCEPT ![w] = IF Waiters # {} THEN "load" ELSE "idle"]
    /\ UNCHANGED <<slots, ver, silent, wrote, gen, cap, call, since>>

\* A worker's heartbeat ages out: who can serve changes without a write.
Lapse ==
    /\ ver < MaxWrites
    /\ \E n \in 0..MaxSlots : slots' = n
    /\ ver' = ver + 1
    /\ silent' = silent \cup {ver + 1}
    /\ UNCHANGED <<wrote, gen, cap, pc, call, since>>

\* The view gets older than capacityTTL.
Age ==
    /\ cap.young
    /\ cap' = [cap EXCEPT !.young = FALSE]
    /\ UNCHANGED <<slots, ver, silent, wrote, gen, pc, call, since>>

-----------------------------------------------------------------------------
(* capacityFor *)

\* Where a thread goes when capacityFor returns.
After(t) == IF t \in Requests THEN "gate" ELSE "idle"

\* What it keeps of the call: a request the view it got, a writer nothing.
Returned(t, v) == IF t \in Requests THEN [NoCall EXCEPT !.view = v] ELSE NoCall

Load(t) ==
    /\ pc[t] = "load"
    /\ call' = [call EXCEPT ![t].gen = gen]
    /\ pc' = [pc EXCEPT ![t] = "check"]
    /\ UNCHANGED <<slots, ver, silent, wrote, gen, cap, since>>

\* Under the lock: a young view of that generation is returned as it is.
Check(t) ==
    LET hit == cap.known /\ cap.young /\ cap.gen = call[t].gen
    IN  /\ pc[t] = "check"
        /\ pc' = [pc EXCEPT ![t] = IF hit THEN After(t) ELSE "read"]
        /\ call' = IF hit THEN [call EXCEPT ![t] = Returned(t, cap.view)] ELSE call
        /\ UNCHANGED <<slots, ver, silent, wrote, gen, cap, since>>

\* unavailable: can anything serve?  If not, nothing more is read.
ReadServable(t) ==
    /\ pc[t] = "read"
    /\ call' = [call EXCEPT ![t].read = ver, ![t].view = Computed(FALSE, 0)]
    /\ pc' = [pc EXCEPT ![t] = IF slots > 0 THEN "count" ELSE "install"]
    /\ UNCHANGED <<slots, ver, silent, wrote, gen, cap, since>>

\* slotsOf: count the slots.
ReadSlots(t) ==
    /\ pc[t] = "count"
    /\ call' = [call EXCEPT ![t].view = Computed(TRUE, slots)]
    /\ pc' = [pc EXCEPT ![t] = "install"]
    /\ UNCHANGED <<slots, ver, silent, wrote, gen, cap, since>>

\* What setCap makes of a waiter: granted when the pool can serve, shed when
\* it cannot and the waiter has no budget.
Answered(r, v) ==
    IF v.servable THEN "granted" ELSE IF r \in Patient THEN "waiting" ELSE "refused"

\* Mutant: the view is labelled with the generation it lands in.
InstallRelabelled(t) ==
    /\ pc[t] = "install"
    /\ cap' = [known |-> TRUE, young |-> TRUE, gen |-> gen, read |-> call[t].read,
               view |-> call[t].view]
    /\ call' = [call EXCEPT ![t] = Returned(t, cap'.view)]
    /\ pc' = [x \in Threads |-> IF x = t THEN After(t)
                                ELSE IF x \in Waiters THEN Answered(x, call[t].view) ELSE pc[x]]
    /\ UNCHANGED <<slots, ver, silent, wrote, gen, since>>

\* setCap under the lock: an older generation is refused.  The caller gets the
\* pool's view, whoever computed it.
Install(t) ==
    LET c    == [known |-> TRUE, young |-> TRUE, gen |-> call[t].gen, read |-> call[t].read,
                 view |-> call[t].view]
        late == call[t].gen < cap.gen
    IN  /\ pc[t] = "install"
        /\ cap' = IF late THEN cap ELSE c
        /\ call' = [call EXCEPT ![t] = Returned(t, cap'.view)]
        /\ pc' = [x \in Threads |->
                    IF x = t THEN After(t)
                    ELSE IF x \in Waiters /\ ~late THEN Answered(x, call[t].view) ELSE pc[x]]
        /\ UNCHANGED <<slots, ver, silent, wrote, gen, since>>

-----------------------------------------------------------------------------
(* Requests *)

Arrive(r) ==
    /\ pc[r] = "idle"
    /\ pc' = [pc EXCEPT ![r] = "load"]
    /\ UNCHANGED <<slots, ver, silent, wrote, gen, cap, call, since>>

CanGrant == cap.known /\ cap.view.servable

\* admit under the lock.  Grants go by the pool's view; a refusal at once goes
\* by the view the request brought with it.
Gate(r) ==
    /\ pc[r] = "gate"
    /\ pc' = [pc EXCEPT ![r] = IF CanGrant THEN "granted"
                               ELSE IF ~call[r].view.servable /\ r \notin Patient THEN "refused"
                               ELSE "waiting"]
    /\ since' = [since EXCEPT ![r] = gen]
    /\ call' = [call EXCEPT ![r] = NoCall]
    /\ UNCHANGED <<slots, ver, silent, wrote, gen, cap>>

\* The deadline of a class with a budget, or the client going away.
Withdraw(r) ==
    /\ pc[r] = "waiting"
    /\ pc' = [pc EXCEPT ![r] = "refused"]
    /\ UNCHANGED <<slots, ver, silent, wrote, gen, cap, call, since>>

\* The slot goes back; whoever could be granted already was.
Complete(r) ==
    /\ pc[r] = "granted"
    /\ pc' = [pc EXCEPT ![r] = "served"]
    /\ UNCHANGED <<slots, ver, silent, wrote, gen, cap, call, since>>

\* An idle pool is deleted to make room for another model's.
ForgetPool ==
    /\ \A r \in Requests : pc[r] \notin {"waiting", "granted"}
    /\ cap' = NoView
    /\ UNCHANGED <<slots, ver, silent, wrote, gen, pc, call, since>>

Next ==
    \/ Lapse \/ Age \/ ForgetPool
    \/ \E w \in Writers : Write(w) \/ Bump(w) \/ Look(w)
    \/ \E t \in Threads : Load(t) \/ Check(t) \/ ReadServable(t) \/ ReadSlots(t) \/ Install(t)
    \/ \E r \in Requests : Arrive(r) \/ Gate(r) \/ Withdraw(r) \/ Complete(r)

Spec == Init /\ [][Next]_vars

-----------------------------------------------------------------------------
(* Properties *)

InCall == {"load", "check", "read", "count", "install"}
States == InCall \cup {"idle", "wrote", "bumped", "gate", "waiting", "granted", "served", "refused"}
CapViews == [servable : BOOLEAN, slots : Nat, ungoverned : {0, 1}]

\* The registry, the pool's view and every call of capacityFor have their
\* types; a computed view never counts fewer than no slots.
TypeOK ==
    /\ slots \in Nat /\ ver \in Nat /\ gen \in Nat
    /\ silent \subseteq Nat
    /\ wrote \in [Writers -> Nat]
    /\ cap \in [known : BOOLEAN, young : BOOLEAN, gen : Nat, read : Nat, view : CapViews]
    /\ pc \in [Threads -> States]
    /\ call \in [Threads -> [gen : Nat, read : Nat, view : CapViews]]
    /\ since \in [Requests -> Nat]

\* Every change after version v is one nobody has announced.
OnlyUnannouncedSince(v) == \A u \in 1..ver : v < u => u \in Unannounced \cup silent

\* A cached view that carries the current generation is the truth, but for
\* changes not announced yet and lapses of the clock: not even a view whose
\* two reads straddle a change, or a slow computation landing over a fast one,
\* is taken for current once the change is announced (capacityFor loads the
\* generation before it reads; setCap refuses an older one).
CurrentViewIsTrue ==
    cap.known /\ cap.gen = gen =>
        /\ OnlyUnannouncedSince(cap.read)
        /\ cap.read = ver => cap.view = TrueView(slots)

\* Nothing is under way: every change announced, every re-read done.
Quiet == \A w \in Writers : pc[w] = "idle"

\* A change announced while a request waits reaches the pool: once the
\* announcers are done, the pool that request waits in holds the registry's
\* present state (capacityChanged), if only writes changed it.
AnnouncedReachesWaiters ==
    Quiet /\ silent = {} /\ (\E r \in Waiters : since[r] < gen) => cap.view = TrueView(slots)

\* The cache of views as a whole: what it calls current is true, and what is
\* announced gets to those who wait.
ViewIsCurrent == CurrentViewIsTrue /\ AnnouncedReachesWaiters

\* "It [...] re-reads the pools that have requests waiting, granting what the
\* change freed" (capacityChanged): with every change announced and every
\* computation done, no request waits while the registry has slots for it.
NoLostWakeup ==
    Quiet /\ silent = {} /\ cap.known /\ (\A r \in Requests : pc[r] \notin InCall)
        => Waiters = {} \/ slots = 0

-----------------------------------------------------------------------------
(* The label of a capacity view can be trusted, for any number of requests *)
(* and writers and any history of changes.                                 *)

Reading == {"count", "install"}

\* Labels and reads are of the past.
Past ==
    /\ cap.gen <= gen /\ cap.read <= ver
    /\ \A t \in Threads : call[t].gen <= gen /\ call[t].read <= ver
    /\ \A r \in Requests : since[r] <= gen

\* What a computation under the current generation has read so far is true,
\* but for what is not announced.
ReadsTrue ==
    \A t \in Threads : pc[t] \in Reading /\ call[t].gen = gen =>
        /\ OnlyUnannouncedSince(call[t].read)
        /\ call[t].read = ver =>
              IF pc[t] = "count" THEN slots > 0 ELSE call[t].view = TrueView(slots)

\* Somebody is about to install a view of the current generation.
Coming(w) ==
    \/ pc[w] \in {"bumped", "load"}
    \/ pc[w] \in {"check", "read", "count", "install"} /\ call[w].gen = gen

\* A waiter queued before the last announcement has, or will have, a view of
\* the current generation.
Covered ==
    (\E r \in Waiters : since[r] < gen) =>
        (cap.known /\ cap.gen = gen) \/ \E w \in Writers : Coming(w)

IInv == TypeOK /\ Past /\ CurrentViewIsTrue /\ ReadsTrue /\ Covered

-----------------------------------------------------------------------------

\* computeCapacity always produces a view (Computed, for any read).
LEMMA ComputedType == ASSUME NEW up \in BOOLEAN, NEW n \in Nat PROVE Computed(up, n) \in CapViews
  BY DEF Computed, CapViews

\* The program starts with no view, no call and no change behind it.
LEMMA InitIInv == Init => IInv
  <1> SUFFICES ASSUME Init PROVE IInv  OBVIOUS
  <1> USE BoundAssumption DEF Init
  <1>1. TypeOK
    <2>1. NoView \in [known : BOOLEAN, young : BOOLEAN, gen : Nat, read : Nat, view : CapViews]
      BY Zenon, ComputedType DEF NoView
    <2>2. NoCall \in [gen : Nat, read : Nat, view : CapViews]
      BY Zenon, ComputedType DEF NoCall
    <2> QED BY <2>1, <2>2 DEF TypeOK, States, Threads
  <1>2. Past  BY DEF Past, NoView, NoCall, Threads
  <1>3. CurrentViewIsTrue  BY DEF CurrentViewIsTrue, NoView
  <1>4. ReadsTrue  BY DEF ReadsTrue, Reading, Threads
  <1>5. Covered  BY DEF Covered, Waiters, Threads
  <1> QED BY <1>1, <1>2, <1>3, <1>4, <1>5 DEF IInv

\* Every step keeps the variables in their types.
LEMMA TypeStep == TypeOK /\ [Next]_vars => TypeOK'
  <1> SUFFICES ASSUME TypeOK, [Next]_vars PROVE TypeOK'  OBVIOUS
  <1> USE BoundAssumption DEF TypeOK
  <1>0. NoCall \in [gen : Nat, read : Nat, view : CapViews]
    BY Zenon, ComputedType DEF NoCall
  <1>00. NoView \in [known : BOOLEAN, young : BOOLEAN, gen : Nat, read : Nat, view : CapViews]
    BY Zenon, ComputedType DEF NoView
  <1>000. \A t, v : v \in CapViews => Returned(t, v) \in [gen : Nat, read : Nat, view : CapViews]
    BY <1>0 DEF Returned
  <1>1. CASE Lapse  BY <1>1 DEF Lapse
  <1>2. CASE Age  BY Zenon, <1>2 DEF Age
  <1>3. CASE ForgetPool  BY <1>3, <1>00 DEF ForgetPool
  <1>4. ASSUME NEW w \in Writers, Write(w) \/ Bump(w) \/ Look(w) PROVE TypeOK'
    <2>1. CASE Write(w)
      <3>1. slots' \in Nat /\ ver' \in Nat  BY <2>1 DEF Write
      <3>2. wrote' \in [Writers -> Nat]  BY <2>1 DEF Write
      <3>3. pc' \in [Threads -> States]  BY Zenon, <2>1 DEF Write, States
      <3> QED BY <2>1, <3>1, <3>2, <3>3 DEF Write
    <2>2. CASE Bump(w)
      <3>1. gen' \in Nat /\ wrote' \in [Writers -> Nat]  BY <2>2 DEF Bump
      <3>2. pc' \in [Threads -> States]  BY Zenon, <2>2 DEF Bump, States
      <3> QED BY <2>2, <3>1, <3>2 DEF Bump
    <2>3. CASE Look(w)  BY Zenon, <2>3 DEF Look, States, InCall
    <2> QED BY <1>4, <2>1, <2>2, <2>3
  <1>5. ASSUME NEW t \in Threads, Load(t) PROVE TypeOK'
    BY <1>5 DEF Load, States, InCall
  <1>6. ASSUME NEW t \in Threads, Check(t) PROVE TypeOK'
    <2>1. After(t) \in States  BY DEF After, States
    <2>2. Returned(t, cap.view) \in [gen : Nat, read : Nat, view : CapViews]  BY <1>000
    <2> QED BY <1>6, <2>1, <2>2 DEF Check, States, InCall
  <1>7. ASSUME NEW t \in Threads, ReadServable(t) PROVE TypeOK'
    <2>1. Computed(FALSE, 0) \in CapViews  BY Zenon, ComputedType
    <2>2. pc' \in [Threads -> States]  BY <1>7 DEF ReadServable, States, InCall
    <2>3. call' \in [Threads -> [gen : Nat, read : Nat, view : CapViews]]  BY Zenon, <1>7, <2>1 DEF ReadServable
    <2> QED BY <1>7, <2>2, <2>3 DEF ReadServable
  <1>8. ASSUME NEW t \in Threads, ReadSlots(t) PROVE TypeOK'
    BY Zenon, <1>8, ComputedType DEF ReadSlots, States, InCall
  <1>9. ASSUME NEW t \in Threads, Install(t) PROVE TypeOK'
    <2>1. cap' \in [known : BOOLEAN, young : BOOLEAN, gen : Nat, read : Nat, view : CapViews]
      BY <1>9 DEF Install
    <2>2. Returned(t, cap'.view) \in [gen : Nat, read : Nat, view : CapViews]  BY <2>1, <1>000
    <2>3. call' \in [Threads -> [gen : Nat, read : Nat, view : CapViews]]
      BY <1>9, <2>2 DEF Install
    <2>4. pc' \in [Threads -> States]
      BY <1>9 DEF Install, After, Answered, States
    <2> QED BY <1>9, <2>1, <2>3, <2>4 DEF Install
  <1>10. ASSUME NEW r \in Requests, Arrive(r) \/ Withdraw(r) \/ Complete(r) PROVE TypeOK'
    BY Zenon, <1>10 DEF Arrive, Withdraw, Complete, States, InCall, Threads
  <1>11. ASSUME NEW r \in Requests, Gate(r) PROVE TypeOK'
    BY <1>11, <1>0 DEF Gate, States, Threads
  <1>12. CASE UNCHANGED vars  BY <1>12 DEF vars
  <1> QED
    BY <1>1, <1>2, <1>3, <1>4, <1>5, <1>6, <1>7, <1>8, <1>9, <1>10, <1>11, <1>12 DEF Next

-----------------------------------------------------------------------------

\* A step that makes no change and announces none leaves the unannounced
\* changes alone: they are those of the writers between Write and Bump.
LEMMA UnannouncedKept ==
    ASSUME wrote' = wrote, ver' = ver, silent' = silent,
           \A w \in Writers : pc[w] = "wrote" <=> pc'[w] = "wrote",
           NEW v
    PROVE  OnlyUnannouncedSince(v)' <=> OnlyUnannouncedSince(v)
  BY DEF OnlyUnannouncedSince, Unannounced

\* A write, and a lapse of the clock, adds its own version to what nobody has
\* announced, so what was true but for those stays so.
LEMMA ChangeKept ==
    ASSUME TypeOK, NEW v, OnlyUnannouncedSince(v),
           Lapse \/ \E w \in Writers : Write(w)
    PROVE  OnlyUnannouncedSince(v)'
  <1>1. ver' = ver + 1 /\ ver \in Nat  BY DEF Lapse, Write, TypeOK
  <1>2. CASE Lapse
    <2>1. Unannounced' = Unannounced /\ silent' = silent \cup {ver + 1}
      BY <1>2 DEF Lapse, Unannounced
    <2> QED BY <1>1, <2>1 DEF OnlyUnannouncedSince
  <1>3. ASSUME NEW w \in Writers, Write(w) PROVE OnlyUnannouncedSince(v)'
    <2>1. \A x \in Writers : pc[x] = "wrote" => pc'[x] = "wrote" /\ wrote'[x] = wrote[x]
      BY <1>3 DEF Write, TypeOK, Threads
    <2>2. pc'[w] = "wrote" /\ wrote'[w] = ver + 1
      BY <1>3 DEF Write, TypeOK, Threads
    <2>3. Unannounced \subseteq Unannounced' /\ ver + 1 \in Unannounced'
      BY <2>1, <2>2 DEF Unannounced
    <2>4. silent' = silent  BY <1>3 DEF Write
    <2> QED BY <1>1, <2>3, <2>4 DEF OnlyUnannouncedSince
  <1> QED BY <1>2, <1>3

\* The part of the invariant the label's truth rests on.
Labels == Past /\ CurrentViewIsTrue /\ ReadsTrue

\* A change of the registry: every read made before it is older than `ver`.
LEMMA LabelsChange ==
    ASSUME TypeOK, Labels, Lapse \/ \E w \in Writers : Write(w)
    PROVE  Labels'
  <1>1. /\ ver' = ver + 1 /\ gen' = gen /\ cap' = cap /\ call' = call /\ since' = since
        /\ \A t \in Threads : pc'[t] \in Reading => pc'[t] = pc[t]
    BY DEF Lapse, Write, TypeOK, Threads, Reading
  <1>2. Past'  BY <1>1 DEF Labels, Past, TypeOK
  <1>3. CurrentViewIsTrue'
    <2>1. cap.read # ver'  BY <1>1 DEF Labels, Past, TypeOK
    <2>2. cap.known /\ cap.gen = gen => OnlyUnannouncedSince(cap.read)'
      <3> SUFFICES ASSUME cap.known, cap.gen = gen PROVE OnlyUnannouncedSince(cap.read)'
        BY <1>1
      <3>1. OnlyUnannouncedSince(cap.read)  BY DEF Labels, CurrentViewIsTrue
      <3>2. \A v : OnlyUnannouncedSince(v) => (\A u \in 1..ver' : v < u => u \in Unannounced' \cup silent')
        BY ChangeKept DEF OnlyUnannouncedSince
      <3> QED BY <3>1, <3>2, <1>1 DEF OnlyUnannouncedSince
    <2> QED BY <1>1, <2>1, <2>2 DEF CurrentViewIsTrue
  <1>4. ReadsTrue'
    <2> SUFFICES ASSUME NEW t \in Threads, pc'[t] \in Reading, call'[t].gen = gen'
                 PROVE  OnlyUnannouncedSince(call[t].read)' /\ call[t].read # ver'
      BY <1>1 DEF ReadsTrue
    <2>1. call[t].read # ver'  BY <1>1 DEF Labels, Past, TypeOK
    <2>2. OnlyUnannouncedSince(call[t].read)  BY <1>1 DEF Labels, ReadsTrue
    <2>3. \A v : OnlyUnannouncedSince(v) => (\A u \in 1..ver' : v < u => u \in Unannounced' \cup silent')
      BY ChangeKept DEF OnlyUnannouncedSince
    <2> QED BY <2>1, <2>2, <2>3, <1>1 DEF OnlyUnannouncedSince
  <1> QED BY <1>2, <1>3, <1>4 DEF Labels

\* An announcement: every label is older than the new generation.
LEMMA LabelsBump ==
    ASSUME TypeOK, Labels, NEW w \in Writers, Bump(w)
    PROVE  Labels'
  <1>1. gen' = gen + 1 /\ cap' = cap /\ call' = call /\ since' = since /\ ver' = ver
    BY DEF Bump
  <1>2. Past'  BY <1>1 DEF Labels, Past, TypeOK
  <1>3. cap.gen # gen' /\ \A t \in Threads : call[t].gen # gen'
    BY <1>1 DEF Labels, Past, TypeOK
  <1> QED BY <1>1, <1>2, <1>3 DEF Labels, CurrentViewIsTrue, ReadsTrue

\* Steps that neither change the registry nor announce.
Kept == slots' = slots /\ ver' = ver /\ silent' = silent /\ wrote' = wrote /\ gen' = gen

\* A step of capacityFor short of installing.
LEMMA LabelsRead ==
    ASSUME TypeOK, Labels, NEW t \in Threads,
           Load(t) \/ Check(t) \/ ReadServable(t) \/ ReadSlots(t)
    PROVE  Labels'
  <1> USE DEF TypeOK
  <1>1. Kept /\ cap' = cap /\ since' = since
    BY Zenon DEF Load, Check, ReadServable, ReadSlots, Kept
  <1>2. \A x \in Threads \ {t} : pc'[x] = pc[x] /\ call'[x] = call[x]
    BY Zenon DEF Load, Check, ReadServable, ReadSlots
  <1>3. pc[t] # "wrote" /\ pc'[t] # "wrote"
    BY Zenon DEF Load, Check, ReadServable, ReadSlots, After
  <1>4. \A w \in Writers : pc[w] = "wrote" <=> pc'[w] = "wrote"
    BY <1>2, <1>3 DEF Threads
  <1>5. \A v : OnlyUnannouncedSince(v) => (\A u \in 1..ver' : v < u => u \in Unannounced' \cup silent')
    BY <1>1, <1>4, UnannouncedKept DEF Kept, OnlyUnannouncedSince
  <1>6. call'[t].gen <= gen /\ call'[t].read <= ver
    <2>1. call[t].gen <= gen /\ call[t].read <= ver  BY DEF Labels, Past
    <2>2. \A v : Returned(t, v).gen = 0 /\ Returned(t, v).read = 0  BY DEF Returned, NoCall
    <2>3. CASE Load(t)  BY <2>1, <2>3 DEF Load
    <2>4. CASE Check(t)  BY <2>1, <2>2, <2>4 DEF Check
    <2>5. CASE ReadServable(t)  BY <2>1, <2>5 DEF ReadServable
    <2>6. CASE ReadSlots(t)  BY <2>1, <2>6 DEF ReadSlots
    <2> QED BY <2>3, <2>4, <2>5, <2>6
  <1>7. Past'
    BY <1>1, <1>2, <1>6 DEF Labels, Past, Kept
  <1>8. CurrentViewIsTrue'
    BY <1>1, <1>5 DEF Labels, CurrentViewIsTrue, Kept, OnlyUnannouncedSince
  <1>9. ASSUME pc'[t] \in Reading, call'[t].gen = gen
        PROVE  /\ \A u \in 1..ver' : call'[t].read < u => u \in Unannounced' \cup silent'
               /\ call'[t].read = ver =>
                     IF pc'[t] = "count" THEN slots > 0 ELSE call'[t].view = TrueView(slots)
    <2>1. CASE ReadServable(t)
      <3>1. call'[t].read = ver /\ call'[t].view = Computed(FALSE, 0)
            /\ pc'[t] = IF slots > 0 THEN "count" ELSE "install"
        BY <2>1 DEF ReadServable
      <3>2. ~(slots > 0) => TrueView(slots) = Computed(FALSE, 0)  BY DEF TrueView
      <3>3. \A u \in 1..ver' : ~(ver < u)  BY <1>1 DEF Kept
      <3> QED BY Zenon, <3>1, <3>2, <3>3
    <2>2. CASE ReadSlots(t)
      <3>1. /\ call'[t].read = call[t].read /\ call'[t].gen = call[t].gen
            /\ call'[t].view = Computed(TRUE, slots) /\ pc[t] = "count" /\ pc'[t] = "install"
        BY <2>2 DEF ReadSlots
      <3>2. OnlyUnannouncedSince(call[t].read) /\ (call[t].read = ver => slots > 0)
        BY Zenon, <3>1, <1>9 DEF Labels, ReadsTrue, Reading
      <3>3. slots > 0 => TrueView(slots) = Computed(TRUE, slots)  BY DEF TrueView
      <3> QED BY Zenon, <3>1, <3>2, <3>3, <1>5
    <2>3. CASE Load(t) \/ Check(t)  BY <1>9, <2>3 DEF Load, Check, After, Reading
    <2> QED BY <2>1, <2>2, <2>3
  <1>10. ReadsTrue'
    <2> SUFFICES ASSUME NEW x \in Threads, pc'[x] \in Reading, call'[x].gen = gen'
                 PROVE  /\ OnlyUnannouncedSince(call[x].read)'
                        /\ call'[x].read = ver' =>
                              IF pc'[x] = "count" THEN slots' > 0 ELSE call'[x].view = TrueView(slots')
      BY Zenon DEF ReadsTrue, TrueView
    <2>1. CASE x = t  BY <2>1, <1>9, <1>1 DEF Kept, OnlyUnannouncedSince
    <2>2. CASE x # t
      <3>1. pc'[x] = pc[x] /\ call'[x] = call[x]  BY <2>2, <1>2
      <3>2. /\ OnlyUnannouncedSince(call[x].read)
            /\ call[x].read = ver =>
                  IF pc[x] = "count" THEN slots > 0 ELSE call[x].view = TrueView(slots)
        BY <3>1, <1>1 DEF Labels, ReadsTrue, Kept
      <3> QED BY <3>1, <3>2, <1>1, <1>5 DEF Kept, OnlyUnannouncedSince
    <2> QED BY <2>1, <2>2
  <1> QED BY <1>7, <1>8, <1>10 DEF Labels

\* Installing: the view takes over what its computation read, and a view of
\* the current generation is replaced only by one of the same generation.
LEMMA LabelsInstall ==
    ASSUME TypeOK, Labels, NEW t \in Threads, Install(t)
    PROVE  Labels'
  <1> USE ThreadAssumption DEF TypeOK
  <1>1. Kept /\ since' = since  BY DEF Install, Kept
  <1>2. pc[t] = "install"  BY DEF Install
  <1>3. \A x \in Threads \ {t} : call'[x] = call[x]  BY DEF Install
  <1>4. \A x \in Threads : pc'[x] \in Reading \cup {"wrote"} => pc'[x] = pc[x] /\ x # t
    BY <1>2 DEF Install, After, Answered, Reading
  <1>5. \A w \in Writers : pc[w] = "wrote" => pc'[w] = "wrote"
    BY <1>2 DEF Install, Waiters, Threads
  <1>6. \A w \in Writers : pc[w] = "wrote" <=> pc'[w] = "wrote"
    BY <1>4, <1>5 DEF Threads
  <1>7. \A v : OnlyUnannouncedSince(v) => (\A u \in 1..ver' : v < u => u \in Unannounced' \cup silent')
    BY <1>1, <1>6, UnannouncedKept DEF Kept, OnlyUnannouncedSince
  <1>8. cap' = cap \/ /\ cap'.gen = call[t].gen /\ cap'.read = call[t].read
                       /\ cap'.view = call[t].view
    BY DEF Install
  <1>9. call'[t].gen = 0 /\ call'[t].read = 0  BY DEF Install, Returned, NoCall
  <1>10. Past'  BY <1>1, <1>3, <1>8, <1>9 DEF Labels, Past, Kept
  <1>11. CurrentViewIsTrue'
    <2>1. CASE cap' = cap
      BY <2>1, <1>1, <1>7 DEF Labels, CurrentViewIsTrue, Kept, OnlyUnannouncedSince
    <2>2. CASE cap'.gen = call[t].gen /\ cap'.read = call[t].read /\ cap'.view = call[t].view
      <3>1. call[t].gen = gen => /\ OnlyUnannouncedSince(call[t].read)
                                 /\ call[t].read = ver => call[t].view = TrueView(slots)
        BY <1>2 DEF Labels, ReadsTrue, Reading
      <3> QED BY <2>2, <3>1, <1>1, <1>7 DEF CurrentViewIsTrue, Kept, OnlyUnannouncedSince
    <2> QED BY <1>8, <2>1, <2>2
  <1>12. ReadsTrue'
    <2> SUFFICES ASSUME NEW x \in Threads, pc'[x] \in Reading, call'[x].gen = gen'
                 PROVE  /\ OnlyUnannouncedSince(call[x].read)'
                        /\ call'[x].read = ver' =>
                              IF pc'[x] = "count" THEN slots' > 0 ELSE call'[x].view = TrueView(slots')
      BY Zenon DEF ReadsTrue, TrueView
    <2>1. pc'[x] = pc[x] /\ call'[x] = call[x]  BY <1>3, <1>4
    <2>2. /\ OnlyUnannouncedSince(call[x].read)
          /\ call[x].read = ver =>
                IF pc[x] = "count" THEN slots > 0 ELSE call[x].view = TrueView(slots)
      BY <2>1, <1>1 DEF Labels, ReadsTrue, Kept
    <2> QED BY <2>1, <2>2, <1>1, <1>7 DEF Kept, OnlyUnannouncedSince
  <1> QED BY <1>10, <1>11, <1>12 DEF Labels

\* The remaining steps read nothing of the registry: an aged or forgotten view,
\* a writer's look at the queue, a request's moves.
LEMMA LabelsOther ==
    ASSUME TypeOK, Labels,
           \/ Age \/ ForgetPool \/ UNCHANGED vars
           \/ \E w \in Writers : Look(w)
           \/ \E r \in Requests : Arrive(r) \/ Gate(r) \/ Withdraw(r) \/ Complete(r)
    PROVE  Labels'
  <1> USE ThreadAssumption DEF TypeOK
  <1>1. Kept
    BY DEF Age, ForgetPool, Look, Arrive, Gate, Withdraw, Complete, Kept, vars
  <1>2. \A x \in Threads : pc'[x] \in Reading => pc'[x] = pc[x] /\ call'[x] = call[x]
    BY DEF Age, ForgetPool, Look, Arrive, Gate, Withdraw, Complete, Reading, Threads, vars
  <1>20. \A x \in Threads : call'[x] = call[x] \/ call'[x] = NoCall
    BY DEF Age, ForgetPool, Look, Arrive, Gate, Withdraw, Complete, Threads, vars
  <1>3. \A w \in Writers : pc[w] = "wrote" <=> pc'[w] = "wrote"
    BY DEF Age, ForgetPool, Look, Arrive, Gate, Withdraw, Complete, Threads, vars
  <1>4. cap' = NoView \/ cap' = cap \/ cap' = [cap EXCEPT !.young = FALSE]
    BY DEF Age, ForgetPool, Look, Arrive, Gate, Withdraw, Complete, vars
  <1>5. \A r \in Requests : since'[r] \in {since[r], gen}
    BY DEF Age, ForgetPool, Look, Arrive, Gate, Withdraw, Complete, vars
  <1>6. \A v : OnlyUnannouncedSince(v) => (\A u \in 1..ver' : v < u => u \in Unannounced' \cup silent')
    BY <1>1, <1>3, UnannouncedKept DEF Kept, OnlyUnannouncedSince
  <1>7. Past'
    <2>0. 0 <= gen /\ 0 <= ver /\ NoView.gen = 0 /\ NoView.read = 0 /\ NoCall.gen = 0 /\ NoCall.read = 0
      BY DEF NoView, NoCall
    <2>1. cap'.gen <= gen /\ cap'.read <= ver
      <3>1. cap.gen <= gen /\ cap.read <= ver  BY DEF Labels, Past
      <3>2. CASE cap' = NoView  BY <2>0, <3>2
      <3>3. CASE cap' = cap  BY <3>1, <3>3
      <3>4. CASE cap' = [cap EXCEPT !.young = FALSE]
        <4>1. cap'.gen = cap.gen /\ cap'.read = cap.read  BY <3>4
        <4> QED BY <3>1, <4>1
      <3> QED BY <1>4, <3>2, <3>3, <3>4
    <2>2. \A x \in Threads : call'[x].gen <= gen /\ call'[x].read <= ver
      <3> SUFFICES ASSUME NEW x \in Threads PROVE call'[x].gen <= gen /\ call'[x].read <= ver
        OBVIOUS
      <3>1. CASE call'[x] = call[x]  BY <3>1 DEF Labels, Past
      <3>2. CASE call'[x] = NoCall  BY <3>2, <2>0
      <3> QED BY <1>20, <3>1, <3>2
    <2>3. \A r \in Requests : since'[r] <= gen  BY <1>5 DEF Labels, Past
    <2> QED BY <1>1, <2>1, <2>2, <2>3 DEF Past, Kept
  <1>8. CurrentViewIsTrue'
    <2>1. cap'.known => cap'.gen = cap.gen /\ cap'.read = cap.read /\ cap'.view = cap.view /\ cap.known
      <3>1. ~NoView.known  BY DEF NoView
      <3>2. CASE cap' = [cap EXCEPT !.young = FALSE]  BY <3>2
      <3> QED BY <1>4, <3>1, <3>2
    <2> QED BY <2>1, <1>1, <1>6 DEF Labels, CurrentViewIsTrue, Kept, OnlyUnannouncedSince
  <1>9. ReadsTrue'
    <2> SUFFICES ASSUME NEW x \in Threads, pc'[x] \in Reading, call'[x].gen = gen'
                 PROVE  /\ OnlyUnannouncedSince(call[x].read)'
                        /\ call'[x].read = ver' =>
                              IF pc'[x] = "count" THEN slots' > 0 ELSE call'[x].view = TrueView(slots')
      BY Zenon DEF ReadsTrue, TrueView
    <2>1. pc'[x] = pc[x] /\ call'[x] = call[x]  BY <1>2
    <2>2. /\ OnlyUnannouncedSince(call[x].read)
          /\ call[x].read = ver =>
                IF pc[x] = "count" THEN slots > 0 ELSE call[x].view = TrueView(slots)
      BY <2>1, <1>1 DEF Labels, ReadsTrue, Kept
    <2> QED BY <2>1, <2>2, <1>1, <1>6 DEF Kept, OnlyUnannouncedSince
  <1> QED BY <1>7, <1>8, <1>9 DEF Labels

\* Every step keeps the labels trustworthy.
LEMMA LabelsStep == TypeOK /\ Labels /\ [Next]_vars => Labels'
  BY LabelsChange, LabelsBump, LabelsRead, LabelsInstall, LabelsOther DEF Next

-----------------------------------------------------------------------------

\* A waiter queued before the last announcement stays covered: the announcer
\* itself brings the view, and what it installs is not older than the pool's.
LEMMA CoveredStep == TypeOK /\ Past /\ Covered /\ [Next]_vars => Covered'
  <1> SUFFICES ASSUME TypeOK, Past, Covered, [Next]_vars,
                      NEW r \in Waiters', since'[r] < gen'
               PROVE  (cap'.known /\ cap'.gen = gen') \/ \E w \in Writers : Coming(w)'
    BY DEF Covered
  <1> USE ThreadAssumption DEF TypeOK
  <1>0. r \in Requests /\ r \in Threads /\ pc'[r] = "waiting"  BY DEF Waiters, Threads
  <1>1. ASSUME NEW w \in Writers, Bump(w) PROVE Coming(w)'
    BY <1>1 DEF Bump, Coming, Threads
  <1>2. ASSUME \A w \in Writers : ~Bump(w) PROVE gen' = gen /\ r \in Waiters /\ since[r] < gen
    <2>1. gen' = gen
      BY Zenon, <1>2 DEF Next, vars, Lapse, Age, ForgetPool, Write, Look, Load, Check, ReadServable,
                  ReadSlots, Install, Arrive, Gate, Withdraw, Complete
    <2>2. \A q \in Requests : Gate(q) => q # r  BY <2>1, <1>0 DEF Gate, Past
    <2>3. pc[r] = "waiting" /\ since'[r] = since[r]
      <3>1. CASE \E q \in Requests : Gate(q)  BY <3>1, <2>2, <1>0 DEF Gate, Threads
      <3>2. CASE \E q \in Requests : Arrive(q) \/ Withdraw(q) \/ Complete(q)
        BY <3>2, <1>0 DEF Arrive, Withdraw, Complete, Threads
      <3>3. CASE \E t \in Threads : Load(t) \/ Check(t) \/ ReadServable(t) \/ ReadSlots(t)
        BY Zenon, <3>3, <1>0 DEF Load, Check, ReadServable, ReadSlots, After
      <3>4. CASE \E t \in Threads : Install(t)
        BY <3>4, <1>0 DEF Install, After, Waiters
      <3>5. CASE \E w \in Writers : Write(w) \/ Look(w)
        BY <3>5, <1>0 DEF Write, Look, Threads
      <3>6. CASE Lapse \/ Age \/ ForgetPool \/ UNCHANGED vars
        BY <3>6, <1>0 DEF Lapse, Age, ForgetPool, vars
      <3> QED BY <1>2, <3>1, <3>2, <3>3, <3>4, <3>5, <3>6 DEF Next
    <2> QED BY <2>1, <2>3, <1>0 DEF Waiters
  <1>3. ASSUME gen' = gen, r \in Waiters, since[r] < gen
        PROVE  (cap'.known /\ cap'.gen = gen) \/ \E w \in Writers : Coming(w)'
    <2>1. (cap.known /\ cap.gen = gen) \/ \E w \in Writers : Coming(w)
      BY <1>3 DEF Covered
    <2>2. ASSUME NEW t \in Threads, Install(t) 
          PROVE (cap'.known /\ cap'.gen = gen) \/ \E w \in Writers : Coming(w)'
      <3>1. call[t].gen <= gen /\ cap.gen <= gen  BY DEF Past
      <3>2. CASE cap.known /\ cap.gen = gen  BY <2>2, <3>1, <3>2 DEF Install
      <3>3. ASSUME NEW w \in Writers, Coming(w), w = t PROVE cap'.known /\ cap'.gen = gen
        <4>1. call[t].gen = gen  BY <2>2, <3>3 DEF Install, Coming
        <4> QED BY <2>2, <4>1, <3>1 DEF Install
      <3>4. ASSUME NEW w \in Writers, Coming(w), w # t PROVE Coming(w)'
        <4>1. pc'[w] = pc[w] /\ call'[w] = call[w]
          BY <2>2, <3>4 DEF Install, Waiters, Threads
        <4> QED BY <4>1, <3>4, <1>3 DEF Coming
      <3> QED BY <2>1, <3>2, <3>3, <3>4
    <2>3. ASSUME \A t \in Threads : ~Install(t), cap.known, cap.gen = gen PROVE cap'.known /\ cap'.gen = gen
      <3>1. ~ForgetPool  BY <1>3 DEF ForgetPool, Waiters
      <3> QED
        BY Zenon, <2>3, <3>1 DEF Next, vars, Lapse, Age, Write, Bump, Look, Load, Check, ReadServable,
                          ReadSlots, Arrive, Gate, Withdraw, Complete
    <2>4. ASSUME \A t \in Threads : ~Install(t), NEW w \in Writers, Coming(w)
          PROVE  (cap'.known /\ cap'.gen = gen) \/ Coming(w)'
      <3>1. w \in Threads /\ w \notin Requests  BY DEF Threads
      <3>2. CASE Look(w)
        <4>1. Waiters # {}  BY <1>3
        <4> QED BY <3>1, <3>2, <4>1 DEF Look, Coming
      <3>3. CASE Load(w)  BY <3>1, <3>3, <1>3 DEF Load, Coming
      <3>4. CASE Check(w)
        <4>1. call[w].gen = gen /\ cap' = cap  BY <2>4, <3>4 DEF Check, Coming
        <4>2. CASE cap.known /\ cap.young /\ cap.gen = call[w].gen  BY <4>1, <4>2
        <4>3. CASE ~(cap.known /\ cap.young /\ cap.gen = call[w].gen)
          <5>1. pc'[w] = "read" /\ call' = call  BY <3>1, <3>4, <4>3 DEF Check
          <5> QED BY <5>1, <4>1, <1>3 DEF Coming
        <4> QED BY <4>2, <4>3
      <3>5. CASE ReadServable(w)
        <4>1. call'[w].gen = call[w].gen /\ pc'[w] \in {"count", "install"} /\ pc[w] = "read"
          BY <3>1, <3>5 DEF ReadServable
        <4> QED BY <4>1, <2>4, <1>3 DEF Coming
      <3>6. CASE ReadSlots(w)
        <4>1. call'[w].gen = call[w].gen /\ pc'[w] = "install" /\ pc[w] = "count"
          BY <3>1, <3>6 DEF ReadSlots
        <4> QED BY <4>1, <2>4, <1>3 DEF Coming
      <3>7. CASE Write(w) \/ Bump(w)  BY <2>4, <3>7 DEF Write, Bump, Coming
      <3>8. CASE pc'[w] = pc[w] /\ call'[w] = call[w]  BY ZenonT(30), <3>8, <2>4, <1>3 DEF Coming
      <3>9. ASSUME ~Look(w), ~Load(w), ~Check(w), ~ReadServable(w), ~ReadSlots(w), ~Write(w), ~Bump(w)
            PROVE  pc'[w] = pc[w] /\ call'[w] = call[w]
        <4>1. CASE Lapse \/ Age \/ ForgetPool \/ UNCHANGED vars
          BY <4>1 DEF Lapse, Age, ForgetPool, vars
        <4>2. CASE \E x \in Writers : Write(x) \/ Bump(x) \/ Look(x)
          BY ZenonT(30), <4>2, <3>9, <3>1 DEF Write, Bump, Look
        <4>3. CASE \E t \in Threads : Load(t) \/ Check(t) \/ ReadServable(t) \/ ReadSlots(t)
          <5>1. PICK t \in Threads : Load(t) \/ Check(t) \/ ReadServable(t) \/ ReadSlots(t)
            BY <4>3
          <5>2. t # w  BY <5>1, <3>9
          <5>3. CASE Load(t)  BY <5>2, <5>3, <3>1 DEF Load
          <5>4. CASE Check(t)  BY <5>2, <5>4, <3>1 DEF Check
          <5>5. CASE ReadServable(t)  BY <5>2, <5>5, <3>1 DEF ReadServable
          <5>6. CASE ReadSlots(t)  BY Zenon, <5>2, <5>6, <3>1 DEF ReadSlots
          <5> QED BY <5>1, <5>3, <5>4, <5>5, <5>6
        <4>4. CASE \E q \in Requests : Arrive(q) \/ Gate(q) \/ Withdraw(q) \/ Complete(q)
          BY <4>4, <3>1 DEF Arrive, Gate, Withdraw, Complete
        <4> QED BY <2>4, <4>1, <4>2, <4>3, <4>4 DEF Next
      <3> QED BY <3>2, <3>3, <3>4, <3>5, <3>6, <3>7, <3>8, <3>9
    <2> QED BY <2>1, <2>2, <2>3, <2>4
  <1>4. CASE \E w \in Writers : Bump(w)  BY <1>1, <1>4
  <1>5. CASE \A w \in Writers : ~Bump(w)  BY <1>2, <1>3, <1>5
  <1> QED BY <1>4, <1>5

\* The inductive invariant holds in every reachable state.
THEOREM Invariance == Spec => []IInv
  <1>1. IInv /\ [Next]_vars => IInv'
    BY TypeStep, LabelsStep, CoveredStep DEF IInv, Labels
  <1> QED BY InitIInv, <1>1, PTL DEF Spec

\* Type correctness of the capacity view's state (capView, slotGate).
THEOREM TypeCorrect == Spec => []TypeOK
  <1>1. IInv => TypeOK  BY DEF IInv
  <1> QED BY Invariance, <1>1, PTL

\* capacityFor and setCap: a cached view with the current generation is true
\* but for what nobody has announced.
THEOREM LabelTrusted == Spec => []CurrentViewIsTrue
  <1>1. IInv => CurrentViewIsTrue  BY DEF IInv
  <1> QED BY Invariance, <1>1, PTL

\* capacityChanged: a change announced while a request waits reaches its pool.
THEOREM AnnouncementReaches == Spec => []AnnouncedReachesWaiters
  <1>1. IInv => AnnouncedReachesWaiters
    <2> SUFFICES ASSUME IInv, Quiet, silent = {}, \E r \in Waiters : since[r] < gen
                 PROVE  cap.view = TrueView(slots)
      BY DEF AnnouncedReachesWaiters
    <2>1. \A w \in Writers : ~Coming(w)  BY DEF Quiet, Coming
    <2>2. cap.known /\ cap.gen = gen  BY <2>1 DEF IInv, Covered
    <2>3. Unannounced = {}  BY DEF Unannounced, Quiet
    <2>4. \A u \in 1..ver : ~(cap.read < u)
      BY <2>2, <2>3 DEF IInv, CurrentViewIsTrue, OnlyUnannouncedSince
    <2>5. cap.read = ver
      <3>1. cap.read \in Nat /\ ver \in Nat /\ cap.read <= ver  BY DEF IInv, TypeOK, Past
      <3>2. CASE cap.read < ver  BY <3>1, <3>2, <2>4
      <3> QED BY <3>1, <3>2
    <2> QED BY <2>2, <2>5 DEF IInv, CurrentViewIsTrue
  <1> QED BY Invariance, <1>1, PTL

\* Both together, for the pool's cache as capacityFor, setCap and
\* capacityChanged keep it.
THEOREM ViewAlwaysCurrent == Spec => []ViewIsCurrent
  <1>1. CurrentViewIsTrue /\ AnnouncedReachesWaiters => ViewIsCurrent  BY DEF ViewIsCurrent
  <1> QED BY LabelTrusted, AnnouncementReaches, <1>1, PTL
=============================================================================
