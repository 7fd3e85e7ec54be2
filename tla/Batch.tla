------------------------------- MODULE Batch -------------------------------
(***************************************************************************)
(* A batch run (internal/batch, `opod batch run`): the lines of an input   *)
(* are sent at bounded concurrency, and the work directory is the record   *)
(* that a later run on it resumes from.  A run may be killed at any        *)
(* instant; what is in the directory stays, what the process knows does    *)
(* not.                                                                    *)
(*                                                                         *)
(* One write is under way at a time (the record's lock).  A kill in the    *)
(* middle of it leaves the line out, cut short, or whole; a write or an    *)
(* fsync may also fail with the process going on.                          *)
(***************************************************************************)
EXTENDS Naturals, Sequences, FiniteSets

CONSTANTS Total,     \* how many lines the input has
          Invalid,   \* the lines that cannot be sent
          Alike,     \* the sets of lines whose prompts start with the same prefix
          Workers,   \* the run's goroutines (Options.Concurrency)
          Faults,    \* the kinds of faults that happen
          MaxFaults  \* how many happen, in all

Lines == 0..(Total - 1)
FaultKinds == {"kill", "stop", "ready", "shortMark", "shortResult", "sync", "upload"}

ASSUME BatchAssumption ==
    /\ Total \in Nat /\ Invalid \subseteq Lines /\ Alike \subseteq SUBSET Lines
    /\ Faults \subseteq FaultKinds /\ MaxFaults \in Nat
    /\ Workers \cap {"none", "run"} = {}

VARIABLES disk,      \* the work directory
          lock,      \* the write under way, if any
          run,       \* the process that runs the batch; Down: there is none
          wk,        \* its worker goroutines
          received,  \* how often the server got each line
          asked,     \* the batch object says that the batch was asked to stop
          put,       \* what the result URLs hold
          ended,     \* how the batch ended, once a run has exited with 0
          faults     \* how many faults have happened
vars == <<disk, lock, run, wk, received, asked, put, ended, faults>>

ResultFiles == {"output", "errors"}
Codes == {"ok", "error", "invalid_request", "request_failed", "interrupted", "cancelled"}

Fault(kind) ==
    /\ kind \in Faults /\ faults < MaxFaults
    /\ faults' = faults + 1

-----------------------------------------------------------------------------
(* The record *)

\* The file a result goes to: only a 2xx answer is output.
FileOf(code) == IF code = "ok" THEN "output" ELSE "errors"

\* What a result file says of each line.
InFile(f, results) == SelectSeq(results, LAMBDA c : FileOf(c) = f)
Content(f) == [n \in Lines |-> InFile(f, disk.answers[n])]

Free == [by |-> "none", file |-> "sent", n |-> 0, code |-> "ok"]
MarkOf(w, n) == [by |-> w, file |-> "sent", n |-> n, code |-> "ok"]
ResultOf(by, n, code) == [by |-> by, file |-> FileOf(code), n |-> n, code |-> code]

\* The directory after a whole line is appended: behind a line cut short the
\* two are one line that no scan reads.
Landed(d, w) ==
    CASE w.file \in d.torn -> [d EXCEPT !.torn = @ \ {w.file}]
      [] w.file \notin d.torn /\ w.file = "sent" -> [d EXCEPT !.sent = @ \cup {w.n}]
      [] OTHER -> [d EXCEPT !.answers[w.n] = Append(@, w.code)]

\* The directory after part of a line is appended.
CutShort(d, w) == [d EXCEPT !.torn = @ \cup {w.file}]

\* A write ends: whole and synced, or with an error, which leaves nothing, a
\* part of the line, or a whole line that was not synced.
WriteOK == disk' = Landed(disk, lock) /\ UNCHANGED faults

WriteFails ==
    \/ Fault(IF lock.file = "sent" THEN "shortMark" ELSE "shortResult") /\ disk' = CutShort(disk, lock)
    \/ Fault("sync") /\ disk' \in {disk, Landed(disk, lock)}

-----------------------------------------------------------------------------
(* The run: what its process keeps in memory *)

Down == [pc |-> "down", settle |-> {}, todo |-> {}, line |-> 0, count |-> 0, ctx |-> "", judged |-> "",
         aborted |-> FALSE, failed |-> FALSE, cancelled |-> FALSE, noted |-> FALSE, late |-> 0, state |-> ""]
Idle == [pc |-> "idle", n |-> 0, code |-> "ok"]

Exit == run' = Down /\ wk' = [w \in Workers |-> Idle]
Hands(state) == run' = [Down EXCEPT !.pc = "putOutput", !.state = state]

\* repairTail: every file is cut back to its last whole line.
RepairTail(d) == [d EXCEPT !.torn = {}]

\* The lines with a result in either file.
Finished == {n \in Lines : disk.answers[n] # <<>>}

\* Mutant: a line that was marked and not answered is sent again.
OpenResends ==
    /\ run.pc = "down" /\ ended = "no"
    /\ disk' = RepairTail(disk)
    /\ run' = [Down EXCEPT !.pc = "settle", !.todo = Lines \ Finished, !.count = Cardinality(Finished)]
    /\ UNCHANGED <<lock, wk, received, asked, put, ended, faults>>

\* openRecord: every file is repaired, then read.
Open ==
    /\ run.pc = "down" /\ ended = "no"
    /\ disk' = RepairTail(disk)
    /\ run' = [Down EXCEPT !.pc = "settle", !.settle = disk.sent \ Finished,
                           !.todo = Lines \ (disk.sent \cup Finished), !.count = Cardinality(Finished)]
    /\ UNCHANGED <<lock, wk, received, asked, put, ended, faults>>

\* Lines that the runs before left in flight are answered, one write each,
\* before anything is sent; a write that fails ends the run.
Settle(n) ==
    /\ run.pc = "settle" /\ n \in run.settle /\ lock = Free
    /\ lock' = ResultOf("run", n, "interrupted")
    /\ UNCHANGED <<disk, run, wk, received, asked, put, ended, faults>>

SettleEnds ==
    /\ lock.by = "run"
    /\ \/ /\ WriteOK
          /\ run' = [run EXCEPT !.settle = @ \ {lock.n}, !.count = @ + 1]
          /\ UNCHANGED wk
       \/ WriteFails /\ Exit
    /\ lock' = Free
    /\ UNCHANGED <<received, asked, put, ended>>

Settled ==
    /\ run.pc = "settle" /\ run.settle = {} /\ lock = Free
    /\ run' = [run EXCEPT !.pc = "ready"]
    /\ UNCHANGED <<disk, lock, wk, received, asked, put, ended, faults>>

\* judgeStop: an interrupt is a cancel; a SIGTERM is one if the batch object
\* could be read and says so.
Verdicts ==
    CASE run.ctx = "int"            -> {"cancel"}
      [] run.ctx = "term" /\ asked  -> {"cancel", "interruption"}
      [] OTHER                      -> {"interruption"}

\* How a run that was stopped with this verdict and nothing in flight ends.
StoppedAs(verdict, cancelled) ==
    CASE verdict = "cancel" /\ cancelled -> "cancelled"
      [] verdict = "interruption" /\ run.count < Total -> "interrupted"
      [] OTHER -> "completed"

\* waitReady: the server takes the key, or does not in time, or a stop comes.
Ready ==
    /\ run.pc = "ready"
    /\ run' = [run EXCEPT !.pc = "next"]
    /\ UNCHANGED <<disk, lock, wk, received, asked, put, ended, faults>>

NotReady ==
    /\ run.pc = "ready"
    /\ \/ Fault("ready") /\ Exit
       \/ /\ run.ctx # ""
          /\ \E v \in Verdicts : Hands(StoppedAs(v, TRUE))
          /\ UNCHANGED <<faults, wk>>
    /\ UNCHANGED <<disk, lock, received, asked, put, ended>>

-----------------------------------------------------------------------------
(* Stops *)

\* The owner of the batch ends it.
Ask ==
    /\ ~asked /\ ended = "no"
    /\ asked' = TRUE
    /\ UNCHANGED <<disk, lock, run, wk, received, put, ended, faults>>

\* SIGINT or SIGTERM; the first one counts.
Signal(s) ==
    /\ run.pc \in {"settle", "ready", "next", "offer", "wait"} /\ run.ctx = "" /\ Fault("stop")
    /\ run' = [run EXCEPT !.ctx = s]
    /\ UNCHANGED <<disk, lock, wk, received, asked, put, ended>>

\* The goroutine beside the dispatcher: the stop is judged, then, at the end
\* of the drain, what is still in flight is aborted.
Judge ==
    /\ run.pc \in {"next", "offer", "wait"} /\ run.ctx # "" /\ run.judged = ""
    /\ \E v \in Verdicts : run' = [run EXCEPT !.judged = v]
    /\ UNCHANGED <<disk, lock, wk, received, asked, put, ended, faults>>

AbortRequests ==
    /\ run.pc \in {"next", "offer", "wait"} /\ run.judged # "" /\ ~run.aborted
    /\ run' = [run EXCEPT !.aborted = TRUE]
    /\ UNCHANGED <<disk, lock, wk, received, asked, put, ended, faults>>

-----------------------------------------------------------------------------
(* The dispatcher *)

\* leadingPrefix: a line that cannot be sent is a group of its own.
SameGroup(m, n) == m = n \/ ({m, n} \cap Invalid = {} /\ \E g \in Alike : {m, n} \subseteq g)

\* The group's first line, which stands for it.
GroupOf(n) == CHOOSE m \in Lines : SameGroup(m, n) /\ \A k \in Lines : SameGroup(k, n) => m <= k

\* dispatchOrder: by group, then as in the file.
SentBefore(m, n) == GroupOf(m) < GroupOf(n) \/ (GroupOf(m) = GroupOf(n) /\ m < n)
First(n, S) == \A m \in S \ {n} : SentBefore(n, m)

\* The next line that no run has sent; a stop is looked for first.
NextLine ==
    /\ run.pc = "next"
    /\ \/ run.todo = {} /\ run' = [run EXCEPT !.pc = "wait"]
       \/ run.todo # {} /\ run.ctx # "" /\ run' = [run EXCEPT !.pc = "wait", !.cancelled = TRUE]
       \/ run.ctx = "" /\ \E n \in run.todo : First(n, run.todo) /\ run' = [run EXCEPT !.pc = "offer", !.line = n]
    /\ UNCHANGED <<disk, lock, wk, received, asked, put, ended, faults>>

\* The select: a worker takes the line, or a stop or a failed write ends the
\* loop; of those that are ready, any.
Offer(w) ==
    /\ run.pc = "offer" /\ wk[w].pc = "idle"
    /\ wk' = [wk EXCEPT ![w] = [pc |-> "taken", n |-> run.line, code |-> "ok"]]
    /\ run' = [run EXCEPT !.pc = "next", !.todo = @ \ {run.line}, !.late = IF run.ctx = "" THEN 0 ELSE @ + 1]
    /\ UNCHANGED <<disk, lock, received, asked, put, ended, faults>>

OfferEnds ==
    /\ run.pc = "offer"
    /\ \/ run.ctx # "" /\ run' = [run EXCEPT !.pc = "wait", !.cancelled = TRUE]
       \/ run.failed /\ run' = [run EXCEPT !.pc = "wait"]
    /\ UNCHANGED <<disk, lock, wk, received, asked, put, ended, faults>>

\* Mutant: a verdict is waited for even without a stop.
FinishAwaitsVerdict ==
    /\ run.pc = "wait" /\ \A w \in Workers : wk[w].pc = "idle"
    /\ run.judged # ""
    /\ CASE run.failed  -> Exit
         [] OTHER       -> Hands(StoppedAs(run.judged, run.cancelled \/ run.noted)) /\ UNCHANGED wk
    /\ UNCHANGED <<disk, lock, received, asked, put, ended, faults>>

\* The workers are done: a stop's verdict is waited for.
Finish ==
    /\ run.pc = "wait" /\ \A w \in Workers : wk[w].pc = "idle"
    /\ run.ctx # "" => run.judged # ""
    /\ CASE run.failed                   -> Exit
         [] ~run.failed /\ run.ctx = ""  -> Hands("completed") /\ UNCHANGED wk
         [] OTHER                        -> Hands(StoppedAs(run.judged, run.cancelled \/ run.noted)) /\ UNCHANGED wk
    /\ UNCHANGED <<disk, lock, received, asked, put, ended, faults>>

-----------------------------------------------------------------------------
(* A worker, with the line it took *)

Answered(w, code) == wk' = [wk EXCEPT ![w].pc = "answer", ![w].code = code]

\* send: a line that cannot be sent is answered; any other is marked first.
Take(w) ==
    /\ wk[w].pc = "taken"
    /\ \/ /\ wk[w].n \in Invalid
          /\ Answered(w, "invalid_request")
          /\ UNCHANGED lock
       \/ /\ wk[w].n \notin Invalid /\ lock = Free
          /\ lock' = MarkOf(w, wk[w].n)
          /\ wk' = [wk EXCEPT ![w].pc = "mark"]
    /\ UNCHANGED <<disk, run, received, asked, put, ended, faults>>

\* markSent returns: without a mark the line is not sent.
Marked(w) ==
    /\ wk[w].pc = "mark"
    /\ \/ WriteOK /\ wk' = [wk EXCEPT ![w].pc = "request"]
       \/ WriteFails /\ Answered(w, "request_failed")
    /\ lock' = Free
    /\ UNCHANGED <<run, received, asked, put, ended>>

\* The request reaches the server.
Deliver(w) ==
    /\ wk[w].pc = "request"
    /\ received' = [received EXCEPT ![wk[w].n] = @ + 1]
    /\ wk' = [wk EXCEPT ![w].pc = "flight"]
    /\ UNCHANGED <<disk, lock, run, asked, put, ended, faults>>

\* Client.Do returns an error, before or after the server got the request: no
\* connection, a timeout, or the abort.
RequestFails(w) ==
    /\ wk[w].pc \in {"request", "flight"}
    /\ IF run.ctx # "" /\ run.aborted
       THEN /\ Answered(w, IF run.judged = "cancel" THEN "cancelled" ELSE "interrupted")
            /\ run' = [run EXCEPT !.noted = @ \/ run.judged = "cancel"]
       ELSE Answered(w, "request_failed") /\ UNCHANGED run
    /\ UNCHANGED <<disk, lock, received, asked, put, ended, faults>>

\* The answer is read, 2xx or not; or it breaks off, by the abort or otherwise.
Respond(w) ==
    /\ wk[w].pc = "flight"
    /\ \E code \in {"ok", "error", "request_failed"} : Answered(w, code)
    /\ UNCHANGED <<disk, lock, run, received, asked, put, ended, faults>>

\* result: the answer is written to its file; if that fails, the run ends once
\* what is in flight is answered.
Write(w) ==
    /\ wk[w].pc = "answer" /\ lock = Free
    /\ lock' = ResultOf(w, wk[w].n, wk[w].code)
    /\ wk' = [wk EXCEPT ![w].pc = "write"]
    /\ UNCHANGED <<disk, run, received, asked, put, ended, faults>>

Written(w) ==
    /\ wk[w].pc = "write"
    /\ \/ WriteOK /\ run' = [run EXCEPT !.count = @ + 1]
       \/ WriteFails /\ run' = [run EXCEPT !.failed = TRUE]
    /\ lock' = Free
    /\ wk' = [wk EXCEPT ![w] = Idle]
    /\ UNCHANGED <<received, asked, put, ended>>

-----------------------------------------------------------------------------
(* The end of a run *)

UploadFails ==
    /\ run.pc \in {"putOutput", "putErrors"} /\ Fault("upload")
    /\ Exit
    /\ UNCHANGED <<disk, lock, received, asked, put, ended>>

\* PutResults: an empty file is not put.
PutOutput ==
    /\ run.pc = "putOutput"
    /\ put' = [put EXCEPT !["output"] = Content("output")]
    /\ run' = [run EXCEPT !.pc = "putErrors"]
    /\ UNCHANGED <<disk, lock, wk, received, asked, ended, faults>>

\* Mutant: the exit status does not tell an interruption from an end.
ExitsZero ==
    /\ run.pc = "putErrors"
    /\ put' = [put EXCEPT !["errors"] = Content("errors")]
    /\ ended' = IF run.state = "cancelled" THEN "cancelled" ELSE "completed"
    /\ Exit
    /\ UNCHANGED <<disk, lock, received, asked, faults>>

\* ExitCode: 0 ends the batch, 75 has it run again.
PutErrors ==
    /\ run.pc = "putErrors"
    /\ put' = [put EXCEPT !["errors"] = Content("errors")]
    /\ ended' = IF run.state = "interrupted" THEN "no" ELSE run.state
    /\ Exit
    /\ UNCHANGED <<disk, lock, received, asked, faults>>

\* The pod is killed, or its node reboots: what was being written is there,
\* is not, or is there in part.
Kill ==
    /\ run.pc # "down" /\ Fault("kill")
    /\ disk' \in IF lock = Free THEN {disk} ELSE {disk, CutShort(disk, lock), Landed(disk, lock)}
    /\ lock' = Free
    /\ Exit
    /\ UNCHANGED <<received, asked, put, ended>>

-----------------------------------------------------------------------------

Init ==
    /\ disk = [sent |-> {}, answers |-> [n \in Lines |-> <<>>], torn |-> {}]
    /\ lock = Free
    /\ run = Down
    /\ wk = [w \in Workers |-> Idle]
    /\ received = [n \in Lines |-> 0]
    /\ asked = FALSE
    /\ put = [f \in ResultFiles |-> [n \in Lines |-> <<>>]]
    /\ ended = "no"
    /\ faults = 0

RunStep ==
    \/ Open \/ (\E n \in Lines : Settle(n)) \/ SettleEnds \/ Settled \/ Ready \/ NotReady
    \/ NextLine \/ (\E w \in Workers : Offer(w)) \/ OfferEnds \/ Finish \/ UploadFails \/ PutOutput \/ PutErrors

WorkerStep(w) ==
    \/ Take(w) \/ Marked(w) \/ Deliver(w) \/ RequestFails(w) \/ Respond(w) \/ Write(w) \/ Written(w)

Stop == Ask \/ (\E s \in {"int", "term"} : Signal(s)) \/ Judge \/ AbortRequests \/ Kill

Next == RunStep \/ (\E w \in Workers : WorkerStep(w)) \/ Stop

Spec == Init /\ [][Next]_vars

\* A process that may run runs, requests end, a stop is judged, and a Job
\* starts a run that exited with an error, with 75 or by a kill again.
FairSpec == Spec /\ WF_vars(RunStep) /\ WF_vars(Judge) /\ \A w \in Workers : WF_vars(WorkerStep(w))

-----------------------------------------------------------------------------
(* Properties *)

RunType ==
    [pc : {"down", "settle", "ready", "next", "offer", "wait", "putOutput", "putErrors"},
     settle : SUBSET Lines, todo : SUBSET Lines, line : Nat, count : Nat, ctx : {"", "int", "term"},
     judged : {"", "cancel", "interruption"}, aborted : BOOLEAN, failed : BOOLEAN, cancelled : BOOLEAN,
     noted : BOOLEAN, late : Nat, state : {"", "completed", "cancelled", "interrupted"}]

Files == {"sent"} \cup ResultFiles
DiskType == [sent : SUBSET Lines, answers : [Lines -> Seq(Codes)], torn : SUBSET Files]
LockType == [by : Workers \cup {"none", "run"}, file : Files, n : Nat, code : Codes]
WorkerType == [pc : {"idle", "taken", "mark", "request", "flight", "answer", "write"}, n : Nat, code : Codes]

\* The work directory, the run in memory, and what is outside have their types.
TypeOK ==
    /\ disk \in DiskType /\ lock \in LockType /\ run \in RunType /\ wk \in [Workers -> WorkerType]
    /\ received \in [Lines -> Nat]
    /\ asked \in BOOLEAN
    /\ put \in [ResultFiles -> [Lines -> Seq(Codes)]]
    /\ ended \in {"no", "completed", "cancelled"}
    /\ faults \in Nat

\* "At most once, on purpose": whatever kills, restarts, stops and failed
\* writes a batch goes through, the server gets no line twice (markSent before
\* the request, and the sent lines that openRecord leaves out).
AtMostOnce == \A n \in Lines : received[n] <= 1

\* A line has one result, in one of the two files, over all the runs.
OneAnswer == \A n \in Lines : Len(disk.answers[n]) <= 1

\* No line is sent or answered twice.
LinesOnce == AtMostOnce /\ OneAnswer

\* What a result says of the server is true: a line answered by the server
\* reached it, one that could not be sent did not, and a line reported
\* interrupted or cancelled is one that was marked as sent.
AnswersAreTrue ==
    \A n \in Lines : \A i \in 1..Len(disk.answers[n]) :
        LET code == disk.answers[n][i] IN
        /\ code \in {"ok", "error"} => received[n] = 1
        /\ code = "invalid_request" => received[n] = 0
        /\ code \in {"interrupted", "cancelled"} => n \in disk.sent

\* Result.Cancelled, Result.Resumable, ExitCode: a batch that ended as
\* completed has a result for every line, whatever stopped and resumed it.
CompletedIsComplete == ended = "completed" => \A n \in Lines : disk.answers[n] # <<>>

\* "A cancel must stop at the NEXT line, not one or two later": of the lines
\* handed out at most one was handed out after the stop.
StopsAtNextLine == run.late <= 1

\* When the batch is over, the result URLs hold what the directory holds
\* (PutResults, an upload that failed half way and was done again).
ResultsHandedOver == ended # "no" => \A f \in ResultFiles : put[f] = Content(f)

\* What the results, the outcome, the last line sent and the result files say of
\* the batch is true.
BatchIsTrue == AnswersAreTrue /\ CompletedIsComplete /\ StopsAtNextLine /\ ResultsHandedOver

\* A batch that is run again as long as its runs do not exit with 0 is over in
\* the end: no stop, kill or failed write leaves a run that waits for ever.
EventuallyOver == <>[](ended # "no")

\* "A request aborted after it stopped is cancelled or interrupted, not a
\* transport failure" (send).
AbortIsNamed ==
    [][\A w \in Workers : wk[w].pc = "flight" /\ run.aborted /\ wk'[w].pc = "answer" => wk'[w].code # "request_failed"]_vars
=============================================================================
