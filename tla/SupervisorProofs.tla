-------------------------- MODULE SupervisorProofs --------------------------
(***************************************************************************)
(* A record of the supervisor has one child at a time, and is launched     *)
(* again at most MaxRestarts times between two verdicts that set the count *)
(* back, for any number of Starts and Stops.  Neither is inductive: the    *)
(* strengthening says in which places of its thread a record can have a    *)
(* child that nobody knows of, in which it has no child that lives, and in *)
(* which a restart is still allowed.                                       *)
(*                                                                         *)
(* The agent's loop misses no process that runs: only the thread of a      *)
(* record makes it running, and it signals before it watches its child.    *)
(***************************************************************************)
EXTENDS Supervisor, TLAPS

Gone == {"none", "reaped"}
Childless == {"none", "start", "publish", "crash", "pend", "tellPend", "sleep"}
Restarting == {"pend", "tellPend", "sleep"}

Sound(p, pc) ==
    /\ p.fresh => pc = "publish"
    /\ pc \in Childless => p.child \in Gone
    /\ pc \in Restarting => p.restarts < MaxRestarts

AllSound == \A r \in Records : Sound(rec[r], thread[r])
IInv == TypeOK /\ AllSound

\* What the variables other than the records and their threads keep.
OthersTyped ==
    /\ procs' \in Records \cup {0}
    /\ stop' \in [Stops -> StopType]
    /\ changed' \in BOOLEAN /\ told' \in BOOLEAN

\* A step of one record, sound where it leaves it, keeps the invariant.
LEMMA StepKeeps ==
    ASSUME IInv, NEW r \in Records, NEW p \in RecordType, NEW pc \in ThreadPcs,
           rec' = [rec EXCEPT ![r] = p], thread' = [thread EXCEPT ![r] = pc],
           Sound(p, pc), OthersTyped
    PROVE  IInv'
<1>1. TypeOK'
  BY DEF IInv, TypeOK, OthersTyped
<1>2. AllSound'
  <2> SUFFICES ASSUME NEW q \in Records PROVE Sound(rec[q], thread[q])'
    BY DEF AllSound
  <2>1. CASE q = r
    <3>1. rec'[q] = p /\ thread'[q] = pc
      BY <2>1 DEF IInv, TypeOK
    <3> QED BY <3>1 DEF Sound
  <2>2. CASE q # r
    <3>1. rec'[q] = rec[q] /\ thread'[q] = thread[q]
      BY <2>2 DEF IInv, TypeOK
    <3> QED BY <3>1 DEF Sound, IInv, AllSound
  <2> QED BY <2>1, <2>2
<1> QED BY <1>1, <1>2 DEF IInv

\* The same for a step that leaves the record, or the thread, where it is.
LEMMA MoveKeeps ==
    ASSUME IInv, NEW r \in Records, NEW pc \in ThreadPcs,
           UNCHANGED rec, Goto(r, pc), Sound(rec[r], pc), OthersTyped
    PROVE  IInv'
<1>1. rec[r] \in RecordType /\ rec' = [rec EXCEPT ![r] = rec[r]]
  BY DEF IInv, TypeOK
<1> QED BY Zenon, <1>1, StepKeeps DEF Goto

LEMMA StayKeeps ==
    ASSUME IInv, NEW r \in Records, NEW p \in RecordType,
           Set(r, p), UNCHANGED thread, Sound(p, thread[r]), OthersTyped
    PROVE  IInv'
<1>1. thread[r] \in ThreadPcs /\ thread' = [thread EXCEPT ![r] = thread[r]]
  BY DEF IInv, TypeOK
<1> QED BY Zenon, <1>1, StepKeeps DEF Set

\* A signal takes a live child's life and changes nothing else.
LEMMA KillKeeps ==
    ASSUME NEW p \in RecordType
    PROVE  /\ Kill(p) \in RecordType
           /\ Kill(p).fresh = p.fresh /\ Kill(p).restarts = p.restarts
           /\ p.child \in Gone => Kill(p).child \in Gone
<1>1. CASE p.child = "alive"
  BY <1>1 DEF Kill, RecordType, Gone
<1>2. CASE p.child # "alive"
  BY <1>2 DEF Kill
<1> QED BY <1>1, <1>2

\* The record before its Start is a record, without a child.
LEMMA UnusedTyped == Unused \in RecordType /\ Unused.fresh = FALSE /\ Unused.child = "none"
  BY BoundAssumption DEF Unused, RecordType, Statuses

\* The invariant holds of the supervisor without processes.
LEMMA InitHolds == Init => IInv
<1> SUFFICES ASSUME Init PROVE IInv
  OBVIOUS
<1>1. Unused \in RecordType /\ Sound(Unused, "none")
  BY UnusedTyped DEF Sound, Childless, Restarting, Gone
<1>2. TypeOK
  BY Zenon, <1>1 DEF Init, TypeOK, ThreadPcs, StopType
<1>3. AllSound
  BY <1>1 DEF Init, AllSound
<1> QED BY <1>2, <1>3 DEF IInv

\* Register files a new record, without a child.
LEMMA RegisterKeeps == IInv /\ Register => IInv'
<1> SUFFICES ASSUME IInv, Register PROVE IInv'
  OBVIOUS
<1>1. PICK r \in Records, q \in Requests :
         /\ procs' = r
         /\ Set(r, [Unused EXCEPT !.status = "starting", !.async = q.async, !.restart = q.restart])
         /\ Goto(r, "start")
         /\ UNCHANGED <<stop, changed, told>>
  BY Zenon DEF Register
<1> DEFINE p == [Unused EXCEPT !.status = "starting", !.async = q.async, !.restart = q.restart]
<1>2. q.async \in BOOLEAN /\ q.restart \in BOOLEAN
  BY SpecAssumption
<1>3. p \in RecordType /\ p.fresh = FALSE /\ p.child = "none"
  <2>1. "starting" \in Statuses
    BY DEF Statuses
  <2>2. p \in RecordType /\ p.fresh = Unused.fresh /\ p.child = Unused.child
    BY Zenon, <1>2, <2>1, UnusedTyped DEF RecordType
  <2> QED BY <2>2, UnusedTyped
<1> HIDE DEF p
<1>4. Sound(p, "start")
  BY <1>3 DEF Sound, Childless, Restarting, Gone
<1>5. OthersTyped
  BY <1>1 DEF OthersTyped, IInv, TypeOK
<1>6. rec' = [rec EXCEPT ![r] = p] /\ thread' = [thread EXCEPT ![r] = "start"] /\ "start" \in ThreadPcs
  BY <1>1 DEF Set, Goto, p, ThreadPcs
<1> QED BY Zenon, <1>3, <1>4, <1>5, <1>6, StepKeeps

\* launchProc up to the child's publication: the fresh child is killed or
\* becomes the record's.
LEMMA LaunchKeeps ==
    ASSUME IInv, NEW r \in Records, Spawn(r) \/ Publish(r)
    PROVE  IInv'
<1>1. rec[r] \in RecordType /\ Sound(rec[r], thread[r])
  BY DEF IInv, TypeOK, AllSound
<1>2. OthersTyped
  BY DEF Spawn, Publish, OthersTyped, IInv, TypeOK
<1>3. CASE Spawn(r)
  <2>1. CASE Set(r, [rec[r] EXCEPT !.fresh = TRUE]) /\ Goto(r, "publish")
    <3> DEFINE p == [rec[r] EXCEPT !.fresh = TRUE]
    <3>1. p \in RecordType /\ p.child = rec[r].child
      BY Zenon, <1>1 DEF RecordType
    <3> HIDE DEF p
    <3>2. Sound(p, "publish")
      BY <1>1, <1>3, <3>1 DEF Sound, Spawn, Childless, Restarting
    <3>3. rec' = [rec EXCEPT ![r] = p] /\ thread' = [thread EXCEPT ![r] = "publish"] /\ "publish" \in ThreadPcs
      BY <2>1 DEF Set, Goto, p, ThreadPcs
    <3> QED BY Zenon, <1>2, <3>1, <3>2, <3>3, StepKeeps
  <2>2. CASE UNCHANGED rec /\ Goto(r, "fail")
    <3>1. Sound(rec[r], "fail") /\ "fail" \in ThreadPcs
      BY <1>1, <1>3 DEF Sound, Spawn, Childless, Restarting, ThreadPcs
    <3> QED BY <1>2, <2>2, <3>1, MoveKeeps
  <2> QED BY <1>3, <2>1, <2>2 DEF Spawn
<1>4. CASE Publish(r)
  <2>1. CASE rec[r].stopping
    <3> DEFINE p == [rec[r] EXCEPT !.fresh = FALSE]
    <3>1. p \in RecordType /\ p.fresh = FALSE
      BY Zenon, <1>1 DEF RecordType
    <3>2. rec' = [rec EXCEPT ![r] = p] /\ thread' = [thread EXCEPT ![r] = "fail"] /\ "fail" \in ThreadPcs
      BY <1>4, <2>1 DEF Publish, Set, Goto, ThreadPcs
    <3> HIDE DEF p
    <3>3. Sound(p, "fail")
      BY <3>1 DEF Sound, Childless, Restarting
    <3> QED BY Zenon, <1>2, <3>1, <3>2, <3>3, StepKeeps
  <2>2. CASE ~rec[r].stopping
    <3> DEFINE p == [rec[r] EXCEPT !.fresh = FALSE, !.child = "alive", !.status = "starting", !.pending = FALSE]
               pc == IF HealthPort THEN "probe" ELSE "ready"
    <3>1. "starting" \in Statuses
      BY DEF Statuses
    <3>2. p \in RecordType /\ p.fresh = FALSE
      BY Zenon, <1>1, <3>1 DEF RecordType
    <3>3. rec' = [rec EXCEPT ![r] = p] /\ thread' = [thread EXCEPT ![r] = pc]
      BY <1>4, <2>2 DEF Publish, Set, Goto
    <3> HIDE DEF p
    <3>4. Sound(p, pc) /\ pc \in ThreadPcs
      BY <3>2 DEF Sound, Childless, Restarting, ThreadPcs
    <3> HIDE DEF pc
    <3> QED BY Zenon, <1>2, <3>2, <3>3, <3>4, StepKeeps
  <2> QED BY <2>1, <2>2
<1> QED BY <1>3, <1>4

\* A record that failed has the same child and restarts, or a killed child.
LEMMA FailedKeeps ==
    ASSUME NEW p \in RecordType
    PROVE  Failed(p) \in RecordType /\ Failed(p).fresh = p.fresh
<1>1. "failed" \in Statuses
  BY DEF Statuses, Terminal
<1>2. Kill(p) \in RecordType /\ Kill(p).fresh = p.fresh
  BY KillKeeps
<1> QED BY <1>1, <1>2 DEF Failed, RecordType

\* The rest of launchProc, and its callers when it failed.
LEMMA ReadyKeeps ==
    ASSUME IInv, NEW r \in Records, Probe(r) \/ Ready(r) \/ LaunchFailed(r) \/ Tell(r)
    PROVE  IInv'
<1>1. rec[r] \in RecordType /\ Sound(rec[r], thread[r])
  BY DEF IInv, TypeOK, AllSound
<1>2. OthersTyped
  BY Zenon DEF Probe, Ready, LaunchFailed, Tell, OthersTyped, IInv, TypeOK
<1>3. Failed(rec[r]) \in RecordType /\ Failed(rec[r]).fresh = rec[r].fresh
  BY <1>1, FailedKeeps
<1>4. CASE Probe(r)
  <2>1. rec[r].fresh = FALSE
    BY <1>1, <1>4 DEF Sound, Probe, RecordType
  <2>2. CASE Goto(r, "ready") /\ UNCHANGED rec
    <3>1. Sound(rec[r], "ready") /\ "ready" \in ThreadPcs
      BY <2>1 DEF Sound, Childless, Restarting, ThreadPcs
    <3> QED BY <1>2, <2>2, <3>1, MoveKeeps
  <2>3. CASE Goto(r, "fail") /\ Set(r, Failed(rec[r]))
    <3>1. Sound(Failed(rec[r]), "fail") /\ "fail" \in ThreadPcs
      BY <1>3, <2>1 DEF Sound, Childless, Restarting, ThreadPcs
    <3> QED BY Zenon, <1>2, <1>3, <2>3, <3>1, StepKeeps DEF Set, Goto
  <2> QED BY <1>4, <2>2, <2>3 DEF Probe
<1>5. CASE Ready(r)
  <2> DEFINE p == [rec[r] EXCEPT !.status = "running"]
  <2>1. "running" \in Statuses
    BY DEF Statuses
  <2>2. p \in RecordType /\ p.fresh = rec[r].fresh
    BY <1>1, <2>1 DEF RecordType
  <2>3. rec' = [rec EXCEPT ![r] = p] /\ thread' = [thread EXCEPT ![r] = "tell"] /\ "tell" \in ThreadPcs
    BY <1>5 DEF Ready, Set, Goto, ThreadPcs
  <2> HIDE DEF p
  <2>4. Sound(p, "tell")
    BY <1>1, <1>5, <2>2 DEF Sound, Ready, Childless, Restarting
  <2> QED BY Zenon, <1>2, <2>2, <2>3, <2>4, StepKeeps
<1>6. CASE LaunchFailed(r)
  <2>1. rec[r].fresh = FALSE
    BY <1>1, <1>6 DEF Sound, LaunchFailed, RecordType
  <2>2. CASE UNCHANGED rec
    <3>1. PICK pc \in {"end", "verdict"} : Goto(r, pc)
      BY <1>6 DEF LaunchFailed
    <3>2. Sound(rec[r], pc) /\ pc \in ThreadPcs
      BY <2>1 DEF Sound, Childless, Restarting, ThreadPcs
    <3> QED BY <1>2, <2>2, <3>1, <3>2, MoveKeeps
  <2>3. CASE Set(r, Failed(rec[r])) /\ Goto(r, "end")
    <3>1. Sound(Failed(rec[r]), "end") /\ "end" \in ThreadPcs
      BY <1>3, <2>1 DEF Sound, Childless, Restarting, ThreadPcs
    <3> QED BY Zenon, <1>2, <1>3, <2>3, <3>1, StepKeeps DEF Set, Goto
  <2> QED BY <1>6, <2>2, <2>3 DEF LaunchFailed
<1>7. CASE Tell(r)
  <2>1. PICK pc \in ThreadPcs : Goto(r, pc) /\ <<thread[r], pc>> \in {<<"tell", "watch">>, <<"tellPend", "sleep">>, <<"tellCrash", "end">>}
    BY <1>7 DEF Tell, AfterTell, ThreadPcs
  <2>2. Sound(rec[r], pc)
    BY <1>1, <2>1 DEF Sound, Childless, Restarting
  <2> QED BY <1>2, <1>7, <2>1, <2>2, MoveKeeps DEF Tell
<1> QED BY <1>4, <1>5, <1>6, <1>7

\* superviseExit goes on only once the child was reaped, and to a restart only
\* below the bound.
LEMMA DecideKeeps ==
    ASSUME IInv, NEW r \in Records, Decide(r)
    PROVE  IInv'
<1>1. rec[r] \in RecordType /\ Sound(rec[r], thread[r])
  BY DEF IInv, TypeOK, AllSound
<1>2. OthersTyped
  BY DEF Decide, OthersTyped, IInv, TypeOK
<1>3. rec[r].fresh = FALSE /\ rec[r].child = "reaped"
  BY <1>1 DEF Decide, Sound, RecordType
<1>4. CASE rec[r].stopping
  <2> DEFINE p == [rec[r] EXCEPT !.status = "stopped"]
  <2>1. "stopped" \in Statuses
    BY DEF Statuses, Terminal
  <2>2. p \in RecordType /\ p.fresh = FALSE
    BY <1>1, <1>3, <2>1 DEF RecordType
  <2>3. rec' = [rec EXCEPT ![r] = p] /\ thread' = [thread EXCEPT ![r] = "end"] /\ "end" \in ThreadPcs
    BY <1>4 DEF Decide, Set, Goto, ThreadPcs
  <2> HIDE DEF p
  <2>4. Sound(p, "end")
    BY <2>2 DEF Sound, Childless, Restarting
  <2> QED BY Zenon, <1>2, <2>2, <2>3, <2>4, StepKeeps
<1>5. CASE ~rec[r].stopping
  <2>1. PICK status \in {"failed", "stopped"}, restarts \in {rec[r].restarts, 0} :
           /\ Set(r, [rec[r] EXCEPT !.status = status, !.restarts = restarts])
           /\ Goto(r, IF ~rec[r].restart THEN "end" ELSE IF restarts >= MaxRestarts THEN "crash" ELSE "pend")
    BY <1>5 DEF Decide
  <2> DEFINE p == [rec[r] EXCEPT !.status = status, !.restarts = restarts]
             pc == IF ~rec[r].restart THEN "end" ELSE IF restarts >= MaxRestarts THEN "crash" ELSE "pend"
  <2>2. status \in Statuses
    BY DEF Statuses, Terminal
  <2>3. restarts \in 0 .. MaxRestarts
    BY <1>1, BoundAssumption DEF RecordType
  <2>4. p \in RecordType /\ p.fresh = FALSE /\ p.child = "reaped" /\ p.restarts = restarts
    BY Zenon, <1>1, <1>3, <2>2, <2>3 DEF RecordType
  <2>5. rec' = [rec EXCEPT ![r] = p] /\ thread' = [thread EXCEPT ![r] = pc]
    BY <2>1 DEF Set, Goto
  <2>6. pc = "pend" => restarts < MaxRestarts
    BY <2>3, BoundAssumption
  <2> HIDE DEF p
  <2>7. Sound(p, pc) /\ pc \in ThreadPcs
    BY <2>4, <2>6 DEF Sound, Childless, Restarting, Gone, ThreadPcs
  <2> HIDE DEF pc
  <2> QED BY Zenon, <1>2, <2>4, <2>5, <2>7, StepKeeps
<1> QED BY <1>4, <1>5

\* The other steps of superviseExit.
LEMMA BackOffKeeps ==
    ASSUME IInv, NEW r \in Records, Crashloop(r) \/ Pend(r) \/ Wake(r) \/ Verdict(r)
    PROVE  IInv'
<1>1. rec[r] \in RecordType /\ Sound(rec[r], thread[r])
  BY DEF IInv, TypeOK, AllSound
<1>2. OthersTyped
  BY DEF Crashloop, Pend, Wake, Verdict, OthersTyped, IInv, TypeOK
<1>3. "crashloop" \in Statuses /\ "failed" \in Statuses
  BY DEF Statuses, Terminal
<1>4. rec[r].fresh = FALSE
  BY <1>1 DEF Crashloop, Pend, Wake, Verdict, Sound, RecordType
<1>5. CASE Crashloop(r)
  <2> DEFINE p == [rec[r] EXCEPT !.status = "crashloop"]
  <2>1. p \in RecordType /\ p.fresh = FALSE
    BY <1>1, <1>3, <1>4 DEF RecordType
  <2>2. rec' = [rec EXCEPT ![r] = p] /\ thread' = [thread EXCEPT ![r] = "tellCrash"] /\ "tellCrash" \in ThreadPcs
    BY <1>5 DEF Crashloop, Set, Goto, ThreadPcs
  <2> HIDE DEF p
  <2>3. Sound(p, "tellCrash")
    BY <2>1 DEF Sound, Childless, Restarting
  <2> QED BY Zenon, <1>2, <2>1, <2>2, <2>3, StepKeeps
<1>6. CASE Pend(r)
  <2> DEFINE p == [rec[r] EXCEPT !.pending = rec[r].pending \/ ~rec[r].stopping]
  <2>1. p \in RecordType /\ p.fresh = FALSE /\ p.child = rec[r].child /\ p.restarts = rec[r].restarts
    BY Zenon, <1>1, <1>4 DEF RecordType
  <2>2. rec' = [rec EXCEPT ![r] = p] /\ thread' = [thread EXCEPT ![r] = "tellPend"] /\ "tellPend" \in ThreadPcs
    BY <1>6 DEF Pend, Set, Goto, ThreadPcs
  <2> HIDE DEF p
  <2>3. Sound(p, "tellPend")
    BY <1>1, <1>6, <2>1 DEF Sound, Pend, Childless, Restarting
  <2> QED BY Zenon, <1>2, <2>1, <2>2, <2>3, StepKeeps
<1>7. CASE Wake(r) /\ rec[r].stopping
  <2> DEFINE p == [rec[r] EXCEPT !.pending = FALSE]
  <2>1. p \in RecordType /\ p.fresh = FALSE
    BY Zenon, <1>1, <1>4 DEF RecordType
  <2>2. rec' = [rec EXCEPT ![r] = p] /\ thread' = [thread EXCEPT ![r] = "end"] /\ "end" \in ThreadPcs
    BY <1>7 DEF Wake, Set, Goto, ThreadPcs
  <2> HIDE DEF p
  <2>3. Sound(p, "end")
    BY <2>1 DEF Sound, Childless, Restarting
  <2> QED BY Zenon, <1>2, <2>1, <2>2, <2>3, StepKeeps
<1>8. CASE Wake(r) /\ ~rec[r].stopping
  <2> DEFINE p == [rec[r] EXCEPT !.restarts = rec[r].restarts + 1]
  <2>1. rec[r].child \in Gone /\ rec[r].restarts < MaxRestarts
    BY <1>1, <1>8 DEF Wake, Sound, Childless, Restarting
  <2>2. rec[r].restarts + 1 \in 0 .. MaxRestarts
    BY <1>1, <2>1, BoundAssumption DEF RecordType
  <2>3. p \in RecordType /\ p.fresh = FALSE /\ p.child = rec[r].child
    BY <1>1, <1>4, <2>2 DEF RecordType
  <2>4. rec' = [rec EXCEPT ![r] = p] /\ thread' = [thread EXCEPT ![r] = "start"] /\ "start" \in ThreadPcs
    BY <1>8 DEF Wake, Set, Goto, ThreadPcs
  <2> HIDE DEF p
  <2>5. Sound(p, "start")
    BY <2>1, <2>3 DEF Sound, Childless, Restarting
  <2> QED BY Zenon, <1>2, <2>3, <2>4, <2>5, StepKeeps
<1>9. CASE Verdict(r)
  <2> DEFINE p == [rec[r] EXCEPT !.status = "failed", !.pending = FALSE]
  <2>1. p \in RecordType /\ p.fresh = FALSE
    BY Zenon, <1>1, <1>3, <1>4 DEF RecordType
  <2>2. rec' = [rec EXCEPT ![r] = p] /\ thread' = [thread EXCEPT ![r] = "end"] /\ "end" \in ThreadPcs
    BY <1>9 DEF Verdict, Set, Goto, ThreadPcs
  <2> HIDE DEF p
  <2>3. Sound(p, "end")
    BY <2>1 DEF Sound, Childless, Restarting
  <2> QED BY Zenon, <1>2, <2>1, <2>2, <2>3, StepKeeps
<1> QED BY <1>5, <1>6, <1>7, <1>8, <1>9

\* The end of a child, whoever caused it.
LEMMA ExitKeeps ==
    ASSUME IInv, NEW r \in Records, Exit(r)
    PROVE  IInv'
<1> DEFINE p == [rec[r] EXCEPT !.child = "reaped"]
<1>1. rec[r] \in RecordType /\ Sound(rec[r], thread[r])
  BY DEF IInv, TypeOK, AllSound
<1>2. p \in RecordType /\ p.fresh = rec[r].fresh /\ p.child = "reaped" /\ p.restarts = rec[r].restarts
  BY <1>1 DEF RecordType
<1>3. Set(r, p) /\ UNCHANGED thread /\ OthersTyped
  BY DEF Exit, OthersTyped, IInv, TypeOK
<1> HIDE DEF p
<1>4. Sound(p, thread[r])
  BY <1>1, <1>2 DEF Sound, Gone
<1> QED BY <1>2, <1>3, <1>4, StayKeeps

\* Stop marks a record, kills its child and takes it away; it gives it none.
LEMMA StopKeeps ==
    ASSUME IInv, NEW s \in Stops, StopFind(s) \/ StopStep(s)
    PROVE  IInv'
<1>1. stop \in [Stops -> StopType] /\ stop[s] \in StopType
  BY DEF IInv, TypeOK
<1>2. CASE StopFind(s)
  <2>1. [pc |-> "mark", r |-> procs] \in StopType
    BY <1>2 DEF StopFind, StopType, IInv, TypeOK
  <2>2. TypeOK'
    BY <1>1, <1>2, <2>1 DEF StopFind, IInv, TypeOK
  <2>3. AllSound'
    BY <1>2 DEF StopFind, IInv, AllSound, Sound
  <2> QED BY <2>2, <2>3 DEF IInv
<1>3. CASE StopDelete(s)
  <2>1. Idle \in StopType
    BY DEF StopType
  <2>2. TypeOK'
    BY <1>1, <1>3, <2>1 DEF StopDelete, IInv, TypeOK
  <2>3. AllSound'
    BY <1>3 DEF StopDelete, IInv, AllSound, Sound
  <2> QED BY <2>2, <2>3 DEF IInv
<1>4. CASE StopMark(s) \/ StopWait(s) \/ StopFinish(s)
  <2>1. stop[s] \in [pc : {"mark", "wait", "finish", "delete"}, r : Records]
    BY <1>1, <1>4 DEF StopType, Idle, StopMark, StopWait, StopFinish
  <2>2. PICK q \in Records : q = stop[s].r
    BY <2>1
  <2>3. rec[q] \in RecordType /\ Sound(rec[q], thread[q])
    BY DEF IInv, TypeOK, AllSound
  <2>4. PICK pc \in {"wait", "finish", "delete"} : StopGoto(s, pc)
    BY <1>4 DEF StopMark, StopWait, StopFinish
  <2>5. [stop[s] EXCEPT !.pc = pc] \in StopType
    BY <2>1 DEF StopType
  <2>6. stop' \in [Stops -> StopType]
    BY <1>1, <2>4, <2>5 DEF StopGoto
  <2>7. OthersTyped /\ UNCHANGED thread
    BY <1>4, <2>6 DEF StopMark, StopWait, StopFinish, OthersTyped, IInv, TypeOK
  <2>8. Kill(rec[q]) \in RecordType /\ Sound(Kill(rec[q]), thread[q])
    BY <2>3, KillKeeps DEF Sound
  <2>9. CASE StopMark(s)
    <3> DEFINE p == [rec[q] EXCEPT !.stopping = TRUE]
    <3>1. p \in RecordType /\ p.fresh = rec[q].fresh /\ p.child = rec[q].child /\ p.restarts = rec[q].restarts
      BY Zenon, <2>3 DEF RecordType
    <3>2. Set(q, p)
      BY <2>2, <2>9 DEF StopMark
    <3> HIDE DEF p
    <3>3. Sound(p, thread[q])
      BY <2>3, <3>1 DEF Sound
    <3> QED BY <2>7, <3>1, <3>2, <3>3, StayKeeps
  <2>10. CASE StopWait(s)
    <3>1. Set(q, Kill(rec[q]))
      BY <2>2, <2>10 DEF StopWait
    <3> QED BY <2>7, <2>8, <3>1, StayKeeps
  <2>11. CASE StopFinish(s)
    <3> DEFINE k == Kill(rec[q])
               p == [k EXCEPT !.status = "stopped", !.pending = FALSE]
    <3>1. "stopped" \in Statuses
      BY DEF Statuses, Terminal
    <3>2. Set(q, p)
      BY <2>2, <2>11 DEF StopFinish
    <3>3. k \in RecordType /\ Sound(k, thread[q])
      BY <2>8
    <3> HIDE DEF k
    <3>4. p \in RecordType /\ p.fresh = k.fresh /\ p.child = k.child /\ p.restarts = k.restarts
      BY Zenon, <3>1, <3>3 DEF RecordType
    <3> HIDE DEF p
    <3>5. Sound(p, thread[q])
      BY <3>3, <3>4 DEF Sound
    <3> QED BY <2>7, <3>2, <3>4, <3>5, StayKeeps
  <2> QED BY <1>4, <2>9, <2>10, <2>11
<1> QED BY <1>2, <1>3, <1>4 DEF StopStep

\* The loop only reads.
LEMMA HearKeeps == IInv /\ Hear => IInv'
<1> SUFFICES ASSUME IInv, Hear PROVE IInv'
  OBVIOUS
<1>1. TypeOK'
  BY Zenon DEF Hear, AnyRunning, IInv, TypeOK
<1>2. AllSound'
  BY DEF Hear, IInv, AllSound, Sound
<1> QED BY <1>1, <1>2 DEF IInv

\* Every step of the supervisor, its children and its callers keeps the
\* invariant.
LEMMA NextKeeps == IInv /\ [Next]_vars => IInv'
<1> SUFFICES ASSUME IInv, [Next]_vars PROVE IInv'
  OBVIOUS
<1>1. ASSUME NEW r \in Records, ThreadStep(r) \/ Exit(r) PROVE IInv'
  BY <1>1, LaunchKeeps, ReadyKeeps, DecideKeeps, BackOffKeeps, ExitKeeps DEF ThreadStep
<1>2. CASE UNCHANGED vars
  <2>1. TypeOK'
    BY <1>2 DEF vars, IInv, TypeOK
  <2>2. AllSound'
    BY <1>2 DEF vars, IInv, AllSound, Sound
  <2> QED BY <2>1, <2>2 DEF IInv
<1> QED BY <1>1, <1>2, RegisterKeeps, StopKeeps, HearKeeps DEF Next

\* The invariant makes a record with a fresh child one whose thread publishes
\* it, and such a record has no other child.
LEMMA OneChildFollows == IInv => OneChildPerRecord
  BY DEF IInv, AllSound, Sound, OneChildPerRecord, Childless, Gone

\* Whatever Starts, Stops, crashes and restarts there are, launchProc never has
\* a child of a record beside one that was not reaped.
THEOREM OneChildAlways == Spec => []OneChildPerRecord
  BY InitHolds, NextKeeps, OneChildFollows, PTL DEF Spec

-----------------------------------------------------------------------------
(* Restarts are counted *)

\* A step of one record that leaves its count alone and does not launch it.
LEMMA OthersCount ==
    ASSUME IInv, NEW r \in Records, NEW p, NEW pc, Set(r, p), Goto(r, pc),
           p.restarts = rec[r].restarts, pc # "start" \/ thread[r] = "start"
    PROVE  \A q \in Records : CountStep(q)
<1> SUFFICES ASSUME NEW q \in Records PROVE CountStep(q)
  OBVIOUS
<1>1. rec'[q].restarts = rec[q].restarts /\ rec[q].restarts \in Nat
  BY BoundAssumption DEF Set, IInv, TypeOK, RecordType
<1>2. ~Relaunched(q)
  BY DEF Goto, Relaunched, IInv, TypeOK
<1> QED BY <1>1, <1>2 DEF CountStep

\* The same for a step that leaves the record, or the thread, where it is.
LEMMA MoveCounts ==
    ASSUME IInv, NEW r \in Records, NEW pc, UNCHANGED rec, Goto(r, pc), pc # "start"
    PROVE  \A q \in Records : CountStep(q)
<1>1. Set(r, rec[r])
  BY DEF Set, IInv, TypeOK
<1> QED BY <1>1, OthersCount

LEMMA StayCounts ==
    ASSUME IInv, NEW r \in Records, NEW p, Set(r, p), UNCHANGED thread, p.restarts = rec[r].restarts
    PROVE  \A q \in Records : CountStep(q)
<1>1. Goto(r, thread[r])
  BY DEF Goto, IInv, TypeOK
<1> QED BY <1>1, OthersCount

\* A step that changes no record and no thread.
LEMMA StillCounts ==
    ASSUME IInv, UNCHANGED <<rec, thread>>
    PROVE  \A q \in Records : CountStep(q)
<1> SUFFICES ASSUME NEW q \in Records PROVE CountStep(q)
  OBVIOUS
<1>1. rec[q].restarts \in Nat
  BY BoundAssumption DEF IInv, TypeOK, RecordType
<1> QED BY <1>1 DEF CountStep, Relaunched

LEMMA RegisterCounts ==
    ASSUME IInv, Register
    PROVE  \A q \in Records : CountStep(q)
<1>1. PICK r \in Records, w \in Requests :
         /\ rec[r] = Unused
         /\ Set(r, [Unused EXCEPT !.status = "starting", !.async = w.async, !.restart = w.restart])
         /\ Goto(r, "start")
  BY Zenon DEF Register
<1> SUFFICES ASSUME NEW q \in Records PROVE CountStep(q)
  OBVIOUS
<1> DEFINE p == [Unused EXCEPT !.status = "starting", !.async = w.async, !.restart = w.restart]
<1>p. p.restarts = rec[r].restarts
  BY <1>1 DEF Unused
<1>s. Set(r, p) /\ rec \in [Records -> RecordType]
  BY <1>1 DEF IInv, TypeOK
<1> HIDE DEF p
<1>2. rec'[q].restarts = rec[q].restarts /\ rec[q].restarts \in Nat
  BY <1>p, <1>s, BoundAssumption DEF Set, RecordType
<1>3. ~Relaunched(q)
  BY <1>1 DEF Goto, Relaunched, IInv, TypeOK
<1> QED BY <1>2, <1>3 DEF CountStep

\* A back-off that is over: the count of a record in one is below MaxRestarts.
LEMMA WakeCounts ==
    ASSUME IInv, NEW r \in Records, Wake(r)
    PROVE  \A q \in Records : CountStep(q)
<1>t. rec \in [Records -> RecordType] /\ thread \in [Records -> ThreadPcs] /\ thread[r] = "sleep"
  BY DEF IInv, TypeOK, Wake
<1>1. CASE rec[r].stopping
  <2> DEFINE p == [rec[r] EXCEPT !.pending = FALSE]
  <2>1. Set(r, p) /\ Goto(r, "end")
    BY <1>1 DEF Wake
  <2>2. p.restarts = rec[r].restarts
    BY <1>t DEF RecordType
  <2> HIDE DEF p
  <2> QED BY <2>1, <2>2, OthersCount
<1>2. CASE ~rec[r].stopping
  <2>1. Set(r, [rec[r] EXCEPT !.restarts = rec[r].restarts + 1]) /\ Goto(r, "start")
    BY <1>2 DEF Wake
  <2>2. rec[r].restarts \in Nat /\ rec[r].restarts < MaxRestarts
    BY <1>t, BoundAssumption DEF IInv, AllSound, Sound, Restarting, RecordType
  <2> SUFFICES ASSUME NEW q \in Records PROVE CountStep(q)
    OBVIOUS
  <2>3. CASE q = r
    <3>1. rec'[q].restarts = rec[q].restarts + 1
      BY <2>1, <2>3, <1>t DEF Set, RecordType
    <3> QED BY <2>2, <2>3, <3>1, BoundAssumption DEF CountStep
  <2>4. CASE q # r
    <3>1. rec'[q] = rec[q] /\ thread'[q] = thread[q] /\ rec[q].restarts \in Nat
      BY <2>1, <2>4, <1>t, BoundAssumption DEF Set, Goto, RecordType
    <3> QED BY <3>1 DEF CountStep, Relaunched
  <2> QED BY <2>3, <2>4
<1> QED BY <1>1, <1>2

\* The verdict on a child that was reaped is the one step that gives restarts
\* back.
LEMMA DecideCounts ==
    ASSUME IInv, NEW r \in Records, Decide(r)
    PROVE  \A q \in Records : CountStep(q)
<1>t. /\ rec \in [Records -> RecordType] /\ thread \in [Records -> ThreadPcs]
      /\ thread[r] = "watch" /\ rec[r].child = "reaped"
  BY DEF IInv, TypeOK, Decide
<1>1. CASE rec[r].stopping
  <2> DEFINE p == [rec[r] EXCEPT !.status = "stopped"]
  <2>1. Set(r, p) /\ Goto(r, "end")
    BY <1>1 DEF Decide
  <2>2. p.restarts = rec[r].restarts
    BY <1>t DEF RecordType
  <2> HIDE DEF p
  <2> QED BY <2>1, <2>2, OthersCount
<1>2. CASE ~rec[r].stopping
  <2>1. PICK status \in {"failed", "stopped"}, restarts \in {rec[r].restarts, 0} :
           /\ Set(r, [rec[r] EXCEPT !.status = status, !.restarts = restarts])
           /\ Goto(r, IF ~rec[r].restart THEN "end" ELSE IF restarts >= MaxRestarts THEN "crash" ELSE "pend")
    BY <1>2 DEF Decide
  <2> SUFFICES ASSUME NEW q \in Records PROVE CountStep(q)
    OBVIOUS
  <2>2. rec[q].restarts \in Nat
    BY <1>t, BoundAssumption DEF RecordType
  <2>3. ~Relaunched(q)
    BY <2>1, <1>t DEF Goto, Relaunched
  <2>4. CASE q = r
    <3>1. rec'[q].restarts \in {rec[q].restarts, 0}
      BY <2>1, <2>4, <1>t DEF Set, RecordType
    <3> QED BY <2>2, <2>3, <2>4, <3>1, <1>2, <1>t DEF CountStep
  <2>5. CASE q # r
    <3>1. rec'[q] = rec[q]
      BY <2>1, <2>5, <1>t DEF Set
    <3> QED BY <2>2, <2>3, <3>1 DEF CountStep
  <2> QED BY <2>4, <2>5
<1> QED BY <1>1, <1>2

LEMMA KillCounts ==
    ASSUME NEW p \in RecordType
    PROVE  Kill(p) \in RecordType /\ Kill(p).restarts = p.restarts /\ Failed(p).restarts = p.restarts
<1>1. Kill(p) \in RecordType /\ Kill(p).restarts = p.restarts
  BY DEF Kill, RecordType
<1> QED BY <1>1 DEF Failed, RecordType

LEMMA ThreadCounts ==
    ASSUME IInv, NEW r \in Records, ThreadStep(r)
    PROVE  \A q \in Records : CountStep(q)
<1>t. rec \in [Records -> RecordType] /\ rec[r] \in RecordType
  BY DEF IInv, TypeOK
<1>1. CASE Spawn(r)
  <2> DEFINE p == [rec[r] EXCEPT !.fresh = TRUE]
  <2>1. p.restarts = rec[r].restarts
    BY <1>t DEF RecordType
  <2>2. (Set(r, p) /\ Goto(r, "publish")) \/ (UNCHANGED rec /\ Goto(r, "fail"))
    BY <1>1 DEF Spawn
  <2> HIDE DEF p
  <2>3. CASE Set(r, p) /\ Goto(r, "publish")
    BY <2>1, <2>3, OthersCount
  <2>4. CASE UNCHANGED rec /\ Goto(r, "fail")
    BY <2>4, MoveCounts
  <2> QED BY <2>2, <2>3, <2>4
<1>2. CASE Publish(r)
  <2>1. CASE rec[r].stopping
    <3> DEFINE p == [rec[r] EXCEPT !.fresh = FALSE]
    <3>1. p.restarts = rec[r].restarts
      BY <1>t DEF RecordType
    <3>2. Set(r, p) /\ Goto(r, "fail")
      BY <1>2, <2>1 DEF Publish
    <3> HIDE DEF p
    <3> QED BY <3>1, <3>2, OthersCount
  <2>2. CASE ~rec[r].stopping
    <3> DEFINE p == [rec[r] EXCEPT !.fresh = FALSE, !.child = "alive", !.status = "starting", !.pending = FALSE]
               pc == IF HealthPort THEN "probe" ELSE "ready"
    <3>1. p.restarts = rec[r].restarts
      BY <1>t DEF RecordType
    <3>2. Set(r, p) /\ Goto(r, pc)
      BY <1>2, <2>2 DEF Publish
    <3>3. pc # "start"
      OBVIOUS
    <3> HIDE DEF p, pc
    <3> QED BY <3>1, <3>2, <3>3, OthersCount
  <2> QED BY <2>1, <2>2
<1>3. CASE Probe(r)
  BY <1>3, <1>t, KillCounts, OthersCount, MoveCounts DEF Probe
<1>4. CASE Ready(r)
  <2> DEFINE p == [rec[r] EXCEPT !.status = "running"]
  <2>1. p.restarts = rec[r].restarts
    BY <1>t DEF RecordType
  <2>2. Set(r, p) /\ Goto(r, "tell")
    BY <1>4 DEF Ready
  <2> HIDE DEF p
  <2> QED BY <2>1, <2>2, OthersCount
<1>5. CASE Tell(r)
  <2> DEFINE pc == AfterTell[thread[r]]
  <2>1. pc # "start" /\ Goto(r, pc) /\ UNCHANGED rec
    BY <1>5 DEF Tell, AfterTell
  <2> HIDE DEF pc
  <2> QED BY <2>1, MoveCounts
<1>6. CASE LaunchFailed(r)
  BY <1>6, <1>t, KillCounts, OthersCount, MoveCounts DEF LaunchFailed
<1>7. CASE Decide(r)
  BY <1>7, DecideCounts
<1>8. CASE Crashloop(r)
  <2> DEFINE p == [rec[r] EXCEPT !.status = "crashloop"]
  <2>1. p.restarts = rec[r].restarts
    BY <1>t DEF RecordType
  <2>2. Set(r, p) /\ Goto(r, "tellCrash")
    BY <1>8 DEF Crashloop
  <2> HIDE DEF p
  <2> QED BY <2>1, <2>2, OthersCount
<1>9. CASE Pend(r)
  <2> DEFINE p == [rec[r] EXCEPT !.pending = rec[r].pending \/ ~rec[r].stopping]
  <2>1. p.restarts = rec[r].restarts
    BY <1>t DEF RecordType
  <2>2. Set(r, p) /\ Goto(r, "tellPend")
    BY <1>9 DEF Pend
  <2> HIDE DEF p
  <2> QED BY <2>1, <2>2, OthersCount
<1>10. CASE Wake(r)
  BY <1>10, WakeCounts
<1>11. CASE Verdict(r)
  <2> DEFINE p == [rec[r] EXCEPT !.status = "failed", !.pending = FALSE]
  <2>1. p.restarts = rec[r].restarts
    BY <1>t DEF RecordType
  <2>2. Set(r, p) /\ Goto(r, "end")
    BY <1>11 DEF Verdict
  <2> HIDE DEF p
  <2> QED BY <2>1, <2>2, OthersCount
<1> QED BY <1>1, <1>2, <1>3, <1>4, <1>5, <1>6, <1>7, <1>8, <1>9, <1>10, <1>11 DEF ThreadStep

LEMMA StopCounts ==
    ASSUME IInv, NEW s \in Stops, StopFind(s) \/ StopStep(s)
    PROVE  \A q \in Records : CountStep(q)
<1>1. CASE StopFind(s) \/ StopDelete(s)
  BY <1>1, StillCounts DEF StopFind, StopDelete
<1>2. CASE stop[s].pc \in {"mark", "wait", "finish"}
  <2> DEFINE r == stop[s].r
             p == rec[r]
             marked == [p EXCEPT !.stopping = TRUE]
             finished == [Kill(p) EXCEPT !.status = "stopped", !.pending = FALSE]
  <2>1. r \in Records /\ p \in RecordType
    BY <1>2 DEF IInv, TypeOK, StopType, Idle
  <2>2. Kill(p) \in RecordType /\ Kill(p).restarts = p.restarts
    BY <2>1, KillCounts
  <2>3. marked.restarts = p.restarts /\ finished.restarts = p.restarts
    BY <2>1, <2>2 DEF RecordType
  <2>4. CASE StopMark(s)
    <3>1. Set(r, marked) /\ UNCHANGED thread
      BY <2>4 DEF StopMark
    <3> HIDE DEF r, marked
    <3> QED BY <2>1, <2>3, <3>1, StayCounts
  <2>5. CASE StopWait(s)
    <3>1. Set(r, Kill(p)) /\ UNCHANGED thread
      BY <2>5 DEF StopWait
    <3> HIDE DEF r
    <3> QED BY <2>1, <2>2, <3>1, StayCounts
  <2>6. CASE StopFinish(s)
    <3>1. Set(r, finished) /\ UNCHANGED thread
      BY <2>6 DEF StopFinish
    <3> HIDE DEF r, finished
    <3> QED BY <2>1, <2>3, <3>1, StayCounts
  <2>7. CASE StopFind(s) \/ StopDelete(s)
    BY <2>7, <1>1
  <2> QED BY <2>4, <2>5, <2>6, <2>7 DEF StopStep
<1> QED BY <1>1, <1>2 DEF StopStep, StopMark, StopWait, StopFinish

LEMMA NextCounts == IInv /\ [Next]_vars => \A q \in Records : CountStep(q)
<1> SUFFICES ASSUME IInv, [Next]_vars PROVE \A q \in Records : CountStep(q)
  OBVIOUS
<1>1. ASSUME NEW r \in Records, Exit(r) PROVE \A q \in Records : CountStep(q)
  <2> DEFINE p == [rec[r] EXCEPT !.child = "reaped"]
  <2>1. p.restarts = rec[r].restarts
    BY DEF IInv, TypeOK, RecordType
  <2>2. Set(r, p) /\ UNCHANGED thread
    BY <1>1 DEF Exit
  <2> HIDE DEF p
  <2> QED BY <2>1, <2>2, StayCounts
<1>2. CASE Hear
  BY <1>2, StillCounts DEF Hear
<1>3. CASE UNCHANGED vars
  BY <1>3, StillCounts DEF vars
<1> QED BY <1>1, <1>2, <1>3, RegisterCounts, ThreadCounts, StopCounts DEF Next

\* Every time superviseExit launches a record again it counts a restart, of
\* which there are MaxRestarts, and only its verdict on a child that came up and
\* was reaped, with no Stop asked for, sets the count back: between two such
\* verdicts there are at most MaxRestarts of them.
THEOREM RelaunchesAlwaysCounted == Spec => RelaunchesCounted
<1>1. IInv /\ [Next]_vars => [\A r \in Records : CountStep(r)]_vars
  BY NextCounts
<1> QED BY <1>1, InitHolds, NextKeeps, PTL DEF Spec, RelaunchesCounted

-----------------------------------------------------------------------------
(* The agent's loop hears of every process that runs *)

\* A record whose thread has told of it and waits for its child to exit.
Watched(q) == rec[q].status = "running" /\ thread[q] = "watch"

\* A step that brings no record there, and signals and hears nothing, loses no
\* news.
LEMMA QuietKeeps ==
    ASSUME IInv, NewsPending, procs' \in {procs, 0}, UNCHANGED <<changed, told>>,
           \A q \in Records : Watched(q)' => Watched(q)
    PROVE  NewsPending'
<1> SUFFICES ASSUME AnyRunning', thread'[procs'] = "watch" PROVE changed \/ told
  BY DEF NewsPending
<1>1. procs' = procs /\ procs \in Records
  BY DEF AnyRunning, IInv, TypeOK
<1>2. Watched(procs)'
  BY <1>1 DEF AnyRunning, Watched
<1>3. Watched(procs)
  BY <1>1, <1>2 DEF Watched
<1> QED BY <1>1, <1>3 DEF NewsPending, AnyRunning, Watched

\* A step of one record brings no other one there.
LEMMA OthersUnwatched ==
    ASSUME IInv, NEW r \in Records, NEW p, NEW pc, Set(r, p), Goto(r, pc),
           p.status = "running" /\ pc = "watch" => Watched(r)
    PROVE  \A q \in Records : Watched(q)' => Watched(q)
<1> SUFFICES ASSUME NEW q \in Records, Watched(q)' PROVE Watched(q)
  OBVIOUS
<1>1. CASE q = r
  BY <1>1 DEF Set, Goto, Watched, IInv, TypeOK
<1>2. CASE q # r
  BY <1>2 DEF Set, Goto, Watched, IInv, TypeOK
<1> QED BY <1>1, <1>2

\* The same for a step that leaves the record, or the thread, where it is.
LEMMA MoveUnwatched ==
    ASSUME IInv, NEW r \in Records, NEW pc, UNCHANGED rec, Goto(r, pc), pc # "watch"
    PROVE  \A q \in Records : Watched(q)' => Watched(q)
<1>1. Set(r, rec[r])
  BY DEF Set, IInv, TypeOK
<1> QED BY <1>1, OthersUnwatched

LEMMA StayUnwatched ==
    ASSUME IInv, NEW r \in Records, NEW p, Set(r, p), UNCHANGED thread, p.status \in {rec[r].status, "stopped"}
    PROVE  \A q \in Records : Watched(q)' => Watched(q)
<1>1. Goto(r, thread[r])
  BY DEF Goto, IInv, TypeOK
<1> QED BY <1>1, OthersUnwatched DEF Watched

\* A signal leaves the status alone.
LEMMA KillStatus == ASSUME NEW p \in RecordType PROVE Kill(p).status = p.status
  BY DEF Kill, RecordType

\* notifyChanged leaves a signal; a thread's other steps, which run before it or
\* after the exit, bring no record to where it is watched.
LEMMA ThreadNews ==
    ASSUME IInv, NewsPending, NEW r \in Records, ThreadStep(r)
    PROVE  NewsPending'
<1>1. CASE Tell(r)
  BY <1>1 DEF Tell, NewsPending
<1>2. CASE ~Tell(r)
  <2>1. procs' \in {procs, 0} /\ UNCHANGED <<changed, told>>
    BY <1>2 DEF ThreadStep, Spawn, Publish, Probe, Ready, LaunchFailed, Decide, Crashloop, Pend, Wake, Verdict
  <2>2. \A q \in Records : Watched(q)' => Watched(q)
    <3>1. CASE Spawn(r) \/ Publish(r) \/ Probe(r)
      BY Zenon, <3>1, OthersUnwatched, MoveUnwatched DEF Spawn, Publish, Probe
    <3>2. CASE Ready(r) \/ LaunchFailed(r)
      BY <3>2, OthersUnwatched, MoveUnwatched DEF Ready, LaunchFailed
    <3>3. CASE Decide(r)
      BY Zenon, <3>3, OthersUnwatched DEF Decide
    <3>4. CASE Crashloop(r) \/ Pend(r) \/ Wake(r) \/ Verdict(r)
      BY Zenon, <3>4, OthersUnwatched DEF Crashloop, Pend, Wake, Verdict
    <3> QED BY <1>2, <3>1, <3>2, <3>3, <3>4 DEF ThreadStep
  <2> QED BY <2>1, <2>2, QuietKeeps
<1> QED BY <1>1, <1>2

\* An exit and a Stop change no status but to "stopped".
LEMMA StopNews ==
    ASSUME IInv, NewsPending, NEW s \in Stops, StopFind(s) \/ StopStep(s)
    PROVE  NewsPending'
<1>1. procs' \in {procs, 0} /\ UNCHANGED <<changed, told>>
  BY DEF StopFind, StopStep, StopMark, StopWait, StopFinish, StopDelete
<1>2. CASE StopFind(s) \/ StopDelete(s)
  BY <1>1, <1>2, QuietKeeps DEF StopFind, StopDelete, Watched
<1>3. CASE StopMark(s) \/ StopWait(s) \/ StopFinish(s)
  <2>1. stop[s] \in [pc : {"mark", "wait", "finish", "delete"}, r : Records]
    BY <1>3 DEF IInv, TypeOK, StopType, Idle, StopMark, StopWait, StopFinish
  <2>2. PICK q \in Records : q = stop[s].r
    BY <2>1
  <2>3. rec[q] \in RecordType /\ Kill(rec[q]) \in RecordType /\ Kill(rec[q]).status = rec[q].status
    BY KillKeeps, KillStatus DEF IInv, TypeOK
  <2>4. CASE StopMark(s)
    <3> DEFINE p == [rec[q] EXCEPT !.stopping = TRUE]
    <3>1. Set(q, p) /\ UNCHANGED thread /\ p.status = rec[q].status
      BY <2>2, <2>3, <2>4 DEF StopMark, RecordType
    <3> QED BY Zenon, <1>1, <3>1, StayUnwatched, QuietKeeps
  <2>5. CASE StopWait(s)
    BY <1>1, <2>2, <2>3, <2>5, StayUnwatched, QuietKeeps DEF StopWait
  <2>6. CASE StopFinish(s)
    <3> DEFINE p == [Kill(rec[q]) EXCEPT !.status = "stopped", !.pending = FALSE]
    <3>1. Set(q, p) /\ UNCHANGED thread /\ p.status = "stopped"
      BY <2>2, <2>3, <2>6 DEF StopFinish, RecordType
    <3> QED BY Zenon, <1>1, <3>1, StayUnwatched, QuietKeeps
  <2> QED BY <1>3, <2>4, <2>5, <2>6
<1> QED BY <1>2, <1>3 DEF StopStep

\* Every step keeps the news: a Start files a record that does not run yet, and
\* the loop reads what is filed in the step that takes the signal.
LEMMA NextNews == IInv /\ NewsPending /\ [Next]_vars => NewsPending'
<1> SUFFICES ASSUME IInv, NewsPending, [Next]_vars PROVE NewsPending'
  OBVIOUS
<1>1. CASE Register
  <2>1. PICK r \in Records, q \in Requests :
           /\ procs' = r
           /\ Set(r, [Unused EXCEPT !.status = "starting", !.async = q.async, !.restart = q.restart])
    BY Zenon, <1>1 DEF Register
  <2>2. rec'[r].status = "starting"
    BY <2>1, UnusedTyped DEF Set, IInv, TypeOK, RecordType
  <2> QED BY <2>1, <2>2 DEF NewsPending, AnyRunning
<1>2. ASSUME NEW r \in Records, Exit(r) PROVE NewsPending'
  <2> DEFINE p == [rec[r] EXCEPT !.child = "reaped"]
  <2>1. Set(r, p) /\ UNCHANGED <<procs, thread, changed, told>> /\ p.status = rec[r].status
    BY <1>2 DEF Exit, IInv, TypeOK, RecordType
  <2> QED BY Zenon, <2>1, StayUnwatched, QuietKeeps
<1>3. CASE Hear
  BY Zenon, <1>3 DEF Hear, NewsPending, AnyRunning
<1>4. CASE UNCHANGED vars
  BY <1>4 DEF vars, NewsPending, AnyRunning
<1> QED BY <1>1, <1>2, <1>3, <1>4, ThreadNews, StopNews DEF Next

\* However Starts, Stops, exits and restarts interleave with the agent's loop, a
\* process that runs and was told of by notifyChanged is known to the loop, or a
\* signal is waiting for it.
THEOREM NewsAlwaysPending == Spec => []NewsPending
<1>1. Init => NewsPending
  BY DEF Init, NewsPending, AnyRunning
<1> QED BY <1>1, InitHolds, NextKeeps, NextNews, PTL DEF Spec
=============================================================================
