----------------------------- MODULE Supervisor -----------------------------
(***************************************************************************)
(* The worker's process supervisor (agent/supervisor.go), for one process  *)
(* id.  Every Start makes a record; procs holds the one filed under the    *)
(* id.  A record has one thread of its own, which launches the child,      *)
(* probes it, waits for it to exit and launches it again (launchProc and   *)
(* superviseExit); Stop runs beside it, and so do further Starts.          *)
(* Atomic steps are the critical sections of p.mu and s.mu and what        *)
(* happens between them.  Left out: logs, arguments, the environment, and  *)
(* the generation number, which only this thread changes.                  *)
(***************************************************************************)
EXTENDS Naturals, FiniteSets

CONSTANTS MaxRecords,    \* bound on the Starts
          Stops,         \* Stop calls that may run at the same time
          MaxRestarts,   \* the spec's bound on automatic restarts
          HealthPort,    \* the spec has a readiness probe
          Requests       \* what is started: by StartAsync or Start, to be
                         \* restarted when it exits or not

ASSUME BoundAssumption == MaxRecords \in Nat /\ MaxRestarts \in Nat \ {0}
ASSUME SpecAssumption == HealthPort \in BOOLEAN /\ Requests \subseteq [async : BOOLEAN, restart : BOOLEAN]

Records == 1 .. MaxRecords

VARIABLES procs,     \* the record filed under the id, 0 for none
          rec,       \* Records -> the record: Info, stopping, its child
          thread,    \* Records -> where its thread is
          stop,      \* Stops -> where a Stop is, and the record it found
          changed,   \* a pending signal for the agent's loop
          told       \* what the loop last read: some process runs
vars == <<procs, rec, thread, stop, changed, told>>

Terminal == {"failed", "stopped", "crashloop"}
Unused == [status |-> "unused", pending |-> FALSE, stopping |-> FALSE, restarts |-> 0, child |-> "none", fresh |-> FALSE,
           async |-> TRUE, restart |-> TRUE]
Idle == [pc |-> "idle", r |-> 0]

Set(r, f) == rec' = [rec EXCEPT ![r] = f]
Goto(r, pc) == thread' = [thread EXCEPT ![r] = pc]

\* A signal to the child, which has been reaped or will be.
Kill(p) == IF p.child = "alive" THEN [p EXCEPT !.child = "killed"] ELSE p

-----------------------------------------------------------------------------
(* Start, StartAsync and register *)

\* A record in a terminal state is replaced; another one refuses the Start.
Register ==
    \E r \in Records, q \in Requests :
       /\ rec[r] = Unused /\ \A o \in 1 .. r - 1 : rec[o] # Unused
       /\ procs # 0 => rec[procs].status \in Terminal
       /\ procs' = r
       /\ Set(r, [Unused EXCEPT !.status = "starting", !.async = q.async, !.restart = q.restart])
       /\ Goto(r, "start")
       /\ UNCHANGED <<stop, changed, told>>

-----------------------------------------------------------------------------
(* launchProc *)

\* cmd.Start: a child nobody else knows of yet; or it fails.
Spawn(r) ==
    /\ thread[r] = "start"
    /\ \/ Set(r, [rec[r] EXCEPT !.fresh = TRUE]) /\ Goto(r, "publish")
       \/ UNCHANGED rec /\ Goto(r, "fail")
    /\ UNCHANGED <<procs, stop, changed, told>>

\* Mutant: the child is published whether or not it is to be stopped.
PublishAnyway(r) ==
    /\ thread[r] = "publish"
    /\ Set(r, [rec[r] EXCEPT !.fresh = FALSE, !.child = "alive", !.status = "starting", !.pending = FALSE])
    /\ Goto(r, IF HealthPort THEN "probe" ELSE "ready")
    /\ UNCHANGED <<procs, stop, changed, told>>

\* The child of a record that a Stop was asked for is killed here; another
\* one is published, for Stop to find.
Publish(r) ==
    /\ thread[r] = "publish"
    /\ IF rec[r].stopping
       THEN Set(r, [rec[r] EXCEPT !.fresh = FALSE]) /\ Goto(r, "fail")
       ELSE /\ Set(r, [rec[r] EXCEPT !.fresh = FALSE, !.child = "alive", !.status = "starting", !.pending = FALSE])
            /\ Goto(r, IF HealthPort THEN "probe" ELSE "ready")
    /\ UNCHANGED <<procs, stop, changed, told>>

\* The child ends, by itself or because it was told to; the reaper notes it.
Exit(r) ==
    /\ rec[r].child \in {"alive", "killed"}
    /\ Set(r, [rec[r] EXCEPT !.child = "reaped"])
    /\ UNCHANGED <<procs, thread, stop, changed, told>>

\* markFailed, for the status and the kill.
Failed(p) == [Kill(p) EXCEPT !.status = "failed"]

\* waitReadyPath: an answer, from a child that was not reaped when it was
\* asked; or an exit or a deadline.
Probe(r) ==
    /\ thread[r] = "probe"
    /\ \/ rec[r].child # "reaped" /\ Goto(r, "ready") /\ UNCHANGED rec
       \/ Goto(r, "fail") /\ Set(r, Failed(rec[r]))
    /\ UNCHANGED <<procs, stop, changed, told>>

Ready(r) ==
    /\ thread[r] = "ready"
    /\ Set(r, [rec[r] EXCEPT !.status = "running"])
    /\ Goto(r, "tell")
    /\ UNCHANGED <<procs, stop, changed, told>>

\* Where the thread goes on after a signal.
AfterTell == [tell |-> "watch", tellPend |-> "sleep", tellCrash |-> "end"]

\* Mutant: the signal is dropped.
TellNobody(r) ==
    /\ thread[r] \in DOMAIN AfterTell
    /\ Goto(r, AfterTell[thread[r]])
    /\ UNCHANGED <<procs, rec, stop, changed, told>>

\* notifyChanged: after a launch, before a back-off, after giving up.
Tell(r) ==
    /\ thread[r] \in DOMAIN AfterTell
    /\ changed' = TRUE
    /\ Goto(r, AfterTell[thread[r]])
    /\ UNCHANGED <<procs, rec, stop, told>>

\* What the caller of a launch that failed does.  A restart goes on to a
\* verdict unless a Stop came; Start takes whatever is filed under the id away
\* and StartAsync keeps the record.
LaunchFailed(r) ==
    /\ thread[r] = "fail"
    /\ IF rec[r].restarts > 0
       THEN Goto(r, IF rec[r].stopping THEN "end" ELSE "verdict") /\ UNCHANGED <<procs, rec>>
       ELSE /\ Goto(r, "end")
            /\ IF rec[r].async
               THEN Set(r, Failed(rec[r])) /\ UNCHANGED procs
               ELSE procs' = 0 /\ UNCHANGED rec
    /\ UNCHANGED <<stop, changed, told>>

-----------------------------------------------------------------------------
(* superviseExit *)

\* Mutant: it does not wait for the child to be reaped.
DecideEarly(r) ==
    /\ thread[r] = "watch"
    /\ Set(r, [rec[r] EXCEPT !.status = "failed"])
    /\ Goto(r, IF rec[r].stopping \/ ~rec[r].restart THEN "end" ELSE IF rec[r].restarts >= MaxRestarts THEN "crash" ELSE "pend")
    /\ UNCHANGED <<procs, stop, changed, told>>

\* The child was reaped.  A Stop wins; else the exit is noted, with the restarts
\* forgotten after a long enough run, and decided on.
Decide(r) ==
    /\ thread[r] = "watch" /\ rec[r].child = "reaped"
    /\ IF rec[r].stopping
       THEN Set(r, [rec[r] EXCEPT !.status = "stopped"]) /\ Goto(r, "end")
       ELSE \E status \in {"failed", "stopped"}, restarts \in {rec[r].restarts, 0} :
               /\ Set(r, [rec[r] EXCEPT !.status = status, !.restarts = restarts])
               /\ Goto(r, IF ~rec[r].restart THEN "end" ELSE IF restarts >= MaxRestarts THEN "crash" ELSE "pend")
    /\ UNCHANGED <<procs, stop, changed, told>>

Crashloop(r) ==
    /\ thread[r] = "crash"
    /\ Set(r, [rec[r] EXCEPT !.status = "crashloop"])
    /\ Goto(r, "tellCrash")
    /\ UNCHANGED <<procs, stop, changed, told>>

Pend(r) ==
    /\ thread[r] = "pend"
    /\ Set(r, [rec[r] EXCEPT !.pending = @ \/ ~rec[r].stopping])
    /\ Goto(r, "tellPend")
    /\ UNCHANGED <<procs, stop, changed, told>>

\* The back-off is over.
Wake(r) ==
    /\ thread[r] = "sleep"
    /\ IF rec[r].stopping
       THEN Set(r, [rec[r] EXCEPT !.pending = FALSE]) /\ Goto(r, "end")
       ELSE Set(r, [rec[r] EXCEPT !.restarts = @ + 1]) /\ Goto(r, "start")
    /\ UNCHANGED <<procs, stop, changed, told>>

\* A restart that failed is not tried again.
Verdict(r) ==
    /\ thread[r] = "verdict"
    /\ Set(r, [rec[r] EXCEPT !.status = "failed", !.pending = FALSE])
    /\ Goto(r, "end")
    /\ UNCHANGED <<procs, stop, changed, told>>

-----------------------------------------------------------------------------
(* Stop, and the agent's loop *)

StopFind(s) ==
    /\ stop[s] = Idle /\ procs # 0
    /\ stop' = [stop EXCEPT ![s] = [pc |-> "mark", r |-> procs]]
    /\ UNCHANGED <<procs, rec, thread, changed, told>>

StopGoto(s, pc) == stop' = [stop EXCEPT ![s].pc = pc]

\* The intent, and whether there is a child to signal.
StopMark(s) ==
    /\ stop[s].pc = "mark"
    /\ Set(stop[s].r, [rec[stop[s].r] EXCEPT !.stopping = TRUE])
    /\ StopGoto(s, IF rec[stop[s].r].child \in {"alive", "killed"} THEN "wait" ELSE "finish")
    /\ UNCHANGED <<procs, thread, changed, told>>

\* The child was reaped, or its ten seconds are over and it is killed.
StopWait(s) ==
    /\ stop[s].pc = "wait"
    /\ Set(stop[s].r, Kill(rec[stop[s].r]))
    /\ StopGoto(s, "finish")
    /\ UNCHANGED <<procs, thread, changed, told>>

StopFinish(s) ==
    /\ stop[s].pc = "finish"
    /\ Set(stop[s].r, [Kill(rec[stop[s].r]) EXCEPT !.status = "stopped", !.pending = FALSE])
    /\ StopGoto(s, "delete")
    /\ UNCHANGED <<procs, thread, changed, told>>

\* Whatever is filed under the id by now goes.
StopDelete(s) ==
    /\ stop[s].pc = "delete"
    /\ procs' = 0
    /\ stop' = [stop EXCEPT ![s] = Idle]
    /\ UNCHANGED <<rec, thread, changed, told>>

\* anyRunning, of the record that is filed.
AnyRunning == procs # 0 /\ rec[procs].status = "running"

\* The loop takes the signal and reads the list; whether it then watches the
\* engine or sends a heartbeat at once is left out.
Hear ==
    /\ changed
    /\ changed' = FALSE
    /\ told' = AnyRunning
    /\ UNCHANGED <<procs, rec, thread, stop>>

-----------------------------------------------------------------------------

Init ==
    /\ procs = 0
    /\ rec = [r \in Records |-> Unused]
    /\ thread = [r \in Records |-> "none"]
    /\ stop = [s \in Stops |-> Idle]
    /\ changed = FALSE /\ told = FALSE

ThreadStep(r) ==
    \/ Spawn(r)
    \/ Publish(r)
    \/ Probe(r)
    \/ Ready(r)
    \/ Tell(r)
    \/ LaunchFailed(r)
    \/ Decide(r)
    \/ Crashloop(r)
    \/ Pend(r)
    \/ Wake(r)
    \/ Verdict(r)

StopStep(s) == StopMark(s) \/ StopWait(s) \/ StopFinish(s) \/ StopDelete(s)

Next ==
    \/ Register
    \/ \E r \in Records : ThreadStep(r) \/ Exit(r)
    \/ \E s \in Stops : StopFind(s) \/ StopStep(s)
    \/ Hear

Spec == Init /\ [][Next]_vars

\* A killed child is gone some time later.
Dies(r) == rec[r].child = "killed" /\ Exit(r)

\* Goroutines that can go on do, and so does the kernel; a child need not exit
\* by itself and no caller need start or stop anything.
Fairness ==
    /\ \A r \in Records : WF_vars(ThreadStep(r)) /\ WF_vars(Dies(r))
    /\ \A s \in Stops : WF_vars(StopStep(s))

FairSpec == Spec /\ Fairness

-----------------------------------------------------------------------------
(* Properties *)

Statuses == Terminal \cup {"unused", "starting", "running"}
RecordType == [status : Statuses, pending : BOOLEAN, stopping : BOOLEAN, restarts : 0 .. MaxRestarts,
               child : {"none", "alive", "killed", "reaped"}, fresh : BOOLEAN, async : BOOLEAN, restart : BOOLEAN]
ThreadPcs == {"none", "start", "publish", "probe", "ready", "tell", "watch", "fail", "verdict",
              "crash", "tellCrash", "pend", "tellPend", "sleep", "end"}
StopType == [pc : {"mark", "wait", "finish", "delete"}, r : Records] \cup {Idle}

\* The restarts that a record counts never exceed the spec's MaxRestarts.
TypeOK ==
    /\ procs \in Records \cup {0}
    /\ rec \in [Records -> RecordType]
    /\ thread \in [Records -> ThreadPcs]
    /\ stop \in [Stops -> StopType]
    /\ changed \in BOOLEAN /\ told \in BOOLEAN

\* A record never has two children: launchProc is called again only after the
\* reaper of the child before closed its channel.
OneChildPerRecord == \A r \in Records : rec[r].fresh => rec[r].child \in {"none", "reaped"}

\* superviseExit launches a record again at most MaxRestarts times between two
\* runs that were long enough: each further launch takes one of the count's
\* MaxRestarts, and only the verdict on a child that was ready and is reaped
\* gives them back.
Relaunched(r) == thread[r] # "start" /\ thread'[r] = "start" /\ rec[r] # Unused
CountStep(r) ==
    /\ Relaunched(r) => rec'[r].restarts = rec[r].restarts + 1 /\ rec'[r].restarts <= MaxRestarts
    /\ rec'[r].restarts < rec[r].restarts =>
          rec'[r].restarts = 0 /\ thread[r] = "watch" /\ rec[r].child = "reaped" /\ ~rec[r].stopping
RelaunchesCounted == [][\A r \in Records : CountStep(r)]_vars

\* The agent's loop misses no process that runs: notifyChanged comes after the
\* status, so one pending signal "stands for any number of changes".
NewsPending == AnyRunning /\ thread[procs] = "watch" => changed \/ told

\* An explicit Stop wins over restart-on-crash, also one that lands in the
\* back-off or while a child is being launched: the record ends without one.
\* A restart that is announced is made, given up or stopped (RestartPending).
ThreadsSettle ==
    \A r \in Records :
        /\ <>[](rec[r].stopping => ~rec[r].fresh /\ rec[r].child \in {"none", "reaped"})
        /\ []<>~rec[r].pending

\* register refuses a Start beside a live child, as "two children under one id
\* would leak the loser": no two records have one that nobody stops.
OneChildPerId ==
    \A r, q \in Records : r # q => ~\A x \in {r, q} : rec[x].child = "alive" /\ rec[x].status = "running" /\ ~rec[x].stopping

\* StartAsync keeps the record of a launch "so a poller can read it": only a
\* Stop of that record takes it away.
RecordKept ==
    [][procs # 0 /\ rec[procs].async /\ procs' = 0 => \E s \in Stops : stop[s] = [pc |-> "delete", r |-> procs]]_vars

\* What engineState reports as stopped "will not come back": a process that
\* exited and is to be restarted is marked RestartPending.
StoppedIsFinal ==
    [][\A r \in Records : rec[r].status \in {"failed", "stopped"} /\ ~rec[r].pending => ~rec'[r].pending]_vars
=============================================================================
