---------------------------- MODULE BatchProofs ----------------------------
(***************************************************************************)
(* However often a batch is killed, stopped and run again, the server gets *)
(* no line twice and no line has two results, for any number of lines and  *)
(* workers, as long as no write of a mark fails half way with the run      *)
(* going on.  The invariant says who answers for a line: the lines to hand *)
(* out have neither mark nor result, a worker alone holds its line and has *)
(* marked it before its request goes, and a running process writes behind  *)
(* whole marks only.                                                       *)
(*                                                                         *)
(* Under the same assumption the results are true and complete.  Four more *)
(* invariants carry this: what an answer may say of what the server got    *)
(* (AnswersInv), how the loop comes to its end and how little a stop lets  *)
(* through (LoopInv), that every line is answered, held or still to come   *)
(* while a run goes on (CoverInv), and what an ended batch has published   *)
(* (EndInv).                                                               *)
(***************************************************************************)
EXTENDS Batch, FiniteSetTheorems, TLAPS

Sending == {"next", "offer", "wait"}

Typed ==
    /\ disk \in DiskType /\ lock \in LockType /\ run \in RunType
    /\ wk \in [Workers -> WorkerType] /\ received \in [Lines -> Nat]

LineSound(n) ==
    /\ received[n] <= 1 /\ Len(disk.answers[n]) <= 1
    /\ received[n] > 0 => n \in disk.sent
    /\ n \in run.todo => n \notin disk.sent /\ disk.answers[n] = <<>>
    /\ n \in run.settle => disk.answers[n] = <<>> /\ n \notin run.todo

WorkerSound(w) ==
    LET n == wk[w].n IN
    wk[w].pc # "idle" =>
        /\ run.pc \in Sending
        /\ n \in Lines /\ n \notin run.todo /\ disk.answers[n] = <<>>
        /\ wk[w].pc = "taken" => received[n] = 0
        /\ wk[w].pc = "mark" => received[n] = 0 /\ lock = MarkOf(w, n)
        /\ wk[w].pc = "request" => received[n] = 0 /\ n \in disk.sent
        /\ wk[w].pc = "flight" => n \in disk.sent
        /\ wk[w].pc = "write" => lock = ResultOf(w, n, wk[w].code)

Alone == \A v, w \in Workers : v # w /\ wk[v].pc # "idle" /\ wk[w].pc # "idle" => wk[v].n # wk[w].n

RunSound ==
    /\ run.pc = "down" => lock = Free
    /\ run.pc # "down" => "sent" \notin disk.torn
    /\ run.pc = "offer" => run.line \in run.todo
    /\ run.pc # "settle" => run.settle = {}

LockSound ==
    \/ lock = Free
    \/ lock.by \in Workers /\ wk[lock.by].pc \in {"mark", "write"}
    \/ run.pc = "settle" /\ lock.n \in run.settle /\ lock = ResultOf("run", lock.n, "interrupted")

IInv ==
    /\ Typed
    /\ \A n \in Lines : LineSound(n)
    /\ \A w \in Workers : WorkerSound(w)
    /\ Alone /\ RunSound /\ LockSound

\* Values of the run have their types.
LEMMA DownTyped == Down \in RunType /\ Idle \in WorkerType /\ Free \in LockType
  BY DEF Down, RunType, Idle, WorkerType, Codes, Free, LockType, Files, ResultFiles

LEMMA CountTyped ==
    ASSUME NEW r \in RunType, NEW q, q = [r EXCEPT !.count = @ + 1]
    PROVE  q \in RunType /\ q.pc = r.pc /\ q.todo = r.todo /\ q.settle = r.settle /\ q.line = r.line
<1> DEFINE c == r.count + 1
<1>1. r.count \in Nat
  BY Zenon DEF RunType
<1>2. c \in Nat
  BY <1>1
<1>3. q = [r EXCEPT !.count = c]
  BY Zenon DEF RunType
<1> HIDE DEF c
<1> QED BY Zenon, <1>2, <1>3 DEF RunType

\* A batch that no run has touched.
LEMMA InitHolds == Init => IInv
<1> SUFFICES ASSUME Init PROVE IInv
  OBVIOUS
<1>1. Typed
  <2>1. disk \in DiskType
    BY DEF Init, DiskType
  <2> QED BY <2>1, DownTyped DEF Init, Typed
<1>2. \A n \in Lines : LineSound(n)
  <2> SUFFICES ASSUME NEW n \in Lines PROVE LineSound(n)
    OBVIOUS
  <2>1. received[n] = 0 /\ disk.answers[n] = <<>> /\ run.todo = {} /\ run.settle = {}
    BY Zenon DEF Init, Down
  <2>2. Len(<<>>) = 0
    OBVIOUS
  <2> QED BY <2>1, <2>2 DEF LineSound
<1>3. \A w \in Workers : WorkerSound(w)
  BY DEF Init, WorkerSound, Idle
<1>4. Alone /\ RunSound /\ LockSound
  BY Zenon DEF Init, Alone, RunSound, LockSound, Idle, Down
<1> QED BY <1>1, <1>2, <1>3, <1>4 DEF IInv

\* A step of the dispatcher, or of a stop, that touches nothing but the run.
LEMMA RunKeeps ==
    ASSUME IInv, UNCHANGED <<disk, lock, wk, received>>, run' \in RunType,
           run'.todo = run.todo, run'.settle = run.settle, run.pc # "down", run'.pc # "down",
           run.pc \in Sending => run'.pc \in Sending,
           run'.pc = "offer" => run'.line \in run.todo,
           run.pc = "settle" => run'.pc = "settle" \/ (lock = Free /\ run.settle = {}),
           run'.pc = "settle" => run.pc = "settle"
    PROVE  IInv'
<1>1. Typed'
  BY DEF IInv, Typed
<1>2. \A n \in Lines : LineSound(n)'
  BY DEF IInv, LineSound
<1>3. \A w \in Workers : WorkerSound(w)'
  BY DEF IInv, WorkerSound
<1>4. Alone' /\ RunSound'
  BY DEF IInv, Alone, RunSound
<1>5. LockSound'
  BY DEF IInv, LockSound
<1> QED BY <1>1, <1>2, <1>3, <1>4, <1>5 DEF IInv

\* A run ends, with its workers, and no write under way.
LEMMA ExitKeeps ==
    ASSUME IInv, Exit, lock' = Free, UNCHANGED received, disk' \in DiskType, disk.sent \subseteq disk'.sent,
           \A n \in Lines : Len(disk'.answers[n]) <= 1
    PROVE  IInv'
<1>1. run'.pc = "down" /\ run'.todo = {} /\ run'.settle = {}
  BY Zenon DEF Exit, Down
<1>2. Typed'
  BY DownTyped DEF IInv, Typed, Exit
<1>3. \A n \in Lines : LineSound(n)'
  BY <1>1 DEF IInv, LineSound
<1>4. \A w \in Workers : WorkerSound(w)' /\ wk'[w].pc = "idle"
  BY DEF WorkerSound, Exit, Idle
<1>5. Alone' /\ RunSound' /\ LockSound'
  BY <1>1, <1>4 DEF Alone, RunSound, LockSound
<1> QED BY <1>2, <1>3, <1>4, <1>5 DEF IInv

\* A run that ended hands its results over.
LEMMA HandsKeeps ==
    ASSUME IInv, NEW state \in {"completed", "cancelled", "interrupted"}, Hands(state),
           UNCHANGED <<disk, lock, wk, received>>, run.pc # "down",
           lock = Free, \A w \in Workers : wk[w].pc = "idle"
    PROVE  IInv'
<1>1. run' \in RunType /\ run'.pc = "putOutput" /\ run'.todo = {} /\ run'.settle = {}
  BY Zenon DEF Hands, Down, RunType
<1>2. Typed'
  BY <1>1 DEF IInv, Typed
<1>3. \A n \in Lines : LineSound(n)'
  BY <1>1 DEF IInv, LineSound
<1>4. \A w \in Workers : WorkerSound(w)'
  BY DEF WorkerSound
<1>5. Alone' /\ RunSound' /\ LockSound'
  BY <1>1 DEF IInv, Alone, RunSound, LockSound
<1> QED BY <1>2, <1>3, <1>4, <1>5 DEF IInv
-----------------------------------------------------------------------------
(* Writes *)

\* The line being written has no result yet.
LEMMA LockedLine ==
    ASSUME IInv, lock # Free
    PROVE  lock.n \in Lines /\ disk.answers[lock.n] = <<>>
<1>1. CASE lock.by \in Workers /\ wk[lock.by].pc \in {"mark", "write"}
  <2>1. WorkerSound(lock.by)
    BY <1>1 DEF IInv
  <2>2. lock.n = wk[lock.by].n
    BY <1>1, <2>1 DEF WorkerSound, MarkOf, ResultOf
  <2> QED BY <1>1, <2>1, <2>2 DEF WorkerSound
<1>2. CASE run.pc = "settle" /\ lock.n \in run.settle
  <2>1. lock.n \in Lines
    BY Zenon, <1>2 DEF IInv, Typed, RunType
  <2> QED BY <1>2, <2>1 DEF IInv, LineSound
<1> QED BY <1>1, <1>2 DEF IInv, LockSound

\* What a whole line changes in the directory: one line's mark or result.
LEMMA LandedFacts ==
    ASSUME IInv, lock # Free, NEW d, d = Landed(disk, lock)
    PROVE  /\ d \in DiskType /\ d.torn \subseteq disk.torn
           /\ disk.sent \subseteq d.sent /\ d.sent \subseteq disk.sent \cup {lock.n}
           /\ \A n \in Lines : n # lock.n => d.answers[n] = disk.answers[n]
           /\ \A n \in Lines : Len(d.answers[n]) <= 1
           /\ lock.file = "sent" => d.answers = disk.answers
           /\ lock.file = "sent" /\ "sent" \notin disk.torn => lock.n \in d.sent
           /\ lock.file # "sent" => d.sent = disk.sent
<1>1. lock.n \in Lines /\ disk.answers[lock.n] = <<>> /\ disk \in DiskType /\ lock \in LockType
  BY LockedLine DEF IInv, Typed
<1>2. \A n \in Lines : Len(disk.answers[n]) <= 1
  BY DEF IInv, LineSound
<1>3. CASE lock.file \in disk.torn
  <2>1. d = [disk EXCEPT !.torn = @ \ {lock.file}]
    BY <1>3 DEF Landed
  <2> QED BY ZenonT(30), <1>1, <1>2, <1>3, <2>1 DEF DiskType
<1>4. CASE lock.file \notin disk.torn /\ lock.file = "sent"
  <2>1. d = [disk EXCEPT !.sent = @ \cup {lock.n}]
    BY <1>4 DEF Landed
  <2> QED BY <1>1, <1>2, <1>4, <2>1 DEF DiskType
<1>5. CASE lock.file \notin disk.torn /\ lock.file # "sent"
  <2>1. d = [disk EXCEPT !.answers[lock.n] = Append(@, lock.code)]
    BY <1>5 DEF Landed
  <2>2. lock.code \in Codes /\ Append(<<>>, lock.code) \in Seq(Codes) /\ Len(Append(<<>>, lock.code)) = 1
    BY <1>1 DEF LockType
  <2> DEFINE a == [disk.answers EXCEPT ![lock.n] = Append(<<>>, lock.code)]
  <2>3. disk.answers \in [Lines -> Seq(Codes)]
    BY <1>1 DEF DiskType
  <2>4. a \in [Lines -> Seq(Codes)] /\ Len(a[lock.n]) = 1 /\ \A n \in Lines : n # lock.n => a[n] = disk.answers[n]
    BY <1>1, <2>2, <2>3
  <2>5. d = [disk EXCEPT !.answers = a]
    BY <1>1, <2>1 DEF DiskType
  <2> HIDE DEF a
  <2>6. d.sent = disk.sent /\ d.torn = disk.torn /\ d.answers = a /\ d \in DiskType
    BY Zenon, <1>1, <2>4, <2>5 DEF DiskType
  <2>7. \A n \in Lines : Len(a[n]) <= 1
    <3> SUFFICES ASSUME NEW n \in Lines PROVE Len(a[n]) <= 1
      OBVIOUS
    <3>1. CASE n = lock.n
      BY <3>1, <2>4
    <3>2. CASE n # lock.n
      BY <3>2, <1>2, <2>4
    <3> QED BY <3>1, <3>2
  <2> QED BY <1>5, <2>4, <2>6, <2>7
<1> QED BY <1>3, <1>4, <1>5

\* A line cut short changes neither marks nor results.
LEMMA CutFacts ==
    ASSUME IInv, NEW d, d = CutShort(disk, lock)
    PROVE  d \in DiskType /\ d.sent = disk.sent /\ d.answers = disk.answers /\ d.torn = disk.torn \cup {lock.file}
  BY Zenon DEF CutShort, IInv, Typed, DiskType, LockType

\* Short writes of marks are left out.
WholeMarks == "shortMark" \notin Faults

\* After any write, failed or not, the directory is as sound as it was, and a
\* mark was not cut short.
LEMMA WriteFacts ==
    ASSUME IInv, WholeMarks, lock # Free, WriteOK \/ WriteFails
    PROVE  /\ disk' \in DiskType
           /\ disk.sent \subseteq disk'.sent /\ disk'.sent \subseteq disk.sent \cup {lock.n}
           /\ \A n \in Lines : n # lock.n => disk'.answers[n] = disk.answers[n]
           /\ \A n \in Lines : Len(disk'.answers[n]) <= 1
           /\ lock.file = "sent" => disk'.answers = disk.answers
           /\ lock.file # "sent" => disk'.sent = disk.sent
           /\ "sent" \notin disk.torn => "sent" \notin disk'.torn
<1>1. disk \in DiskType /\ \A n \in Lines : Len(disk.answers[n]) <= 1
  BY DEF IInv, Typed, LineSound
<1>2. CASE disk' = Landed(disk, lock)
  BY <1>2, LandedFacts
<1>3. CASE disk' = CutShort(disk, lock) /\ lock.file # "sent"
  BY <1>1, <1>3, CutFacts
<1>4. CASE disk' = disk
  BY <1>1, <1>4
<1> QED BY <1>2, <1>3, <1>4 DEF WriteOK, WriteFails, WholeMarks, Fault
-----------------------------------------------------------------------------
(* Workers *)

\* What a worker's step may do outside its own line: take the lock while it is
\* free, give back its own, and nothing else.
LockStep(w) ==
    \/ lock' = lock /\ wk[w].pc \notin {"mark", "write"}
    \/ lock = Free /\ lock'.by = w /\ wk'[w].pc \in {"mark", "write"}
    \/ lock.by = w /\ lock' = Free

SameRun == run'.pc = run.pc /\ run'.todo = run.todo /\ run'.settle = run.settle /\ run'.line = run.line

LEMMA WorkerKeeps ==
    ASSUME IInv, NEW w \in Workers, NEW p \in WorkerType, wk' = [wk EXCEPT ![w] = p],
           NEW m, m = wk[w].n, wk[w].pc # "idle", p.pc # "idle" => p.n = m,
           run' \in RunType, SameRun, lock' \in LockType, LockStep(w),
           disk' \in DiskType, received' \in [Lines -> Nat], "sent" \notin disk'.torn,
           disk.sent \subseteq disk'.sent, disk'.sent \subseteq disk.sent \cup {m},
           \A n \in Lines : n # m => disk'.answers[n] = disk.answers[n] /\ received'[n] = received[n],
           LineSound(m)', WorkerSound(w)'
    PROVE  IInv'
<1>1. run.pc \in Sending /\ m \in Lines /\ m \notin run.todo
  BY DEF IInv, WorkerSound
<1>2. wk \in [Workers -> WorkerType] /\ wk'[w] = p /\ \A v \in Workers : v # w => wk'[v] = wk[v]
  BY DEF IInv, Typed
<1>3. Typed'
  BY DEF IInv, Typed
<1>4. ASSUME NEW n \in Lines PROVE LineSound(n)'
  <2>1. CASE n = m
    BY <2>1
  <2>2. CASE n # m
    <3>1. LineSound(n) /\ disk'.answers[n] = disk.answers[n] /\ received'[n] = received[n]
          /\ (n \in disk'.sent <=> n \in disk.sent)
      BY <2>2 DEF IInv
    <3> QED BY <3>1 DEF LineSound, SameRun
  <2> QED BY <2>1, <2>2
<1>5. ASSUME NEW v \in Workers PROVE WorkerSound(v)'
  <2>1. CASE v = w
    BY ZenonT(30), <2>1
  <2>2. CASE v # w /\ wk[v].pc # "idle"
    <3>1. WorkerSound(v) /\ wk'[v] = wk[v] /\ wk[v].n # m
      BY ZenonT(30), <1>2, <2>2 DEF IInv, Alone
    <3>2. disk'.answers[wk[v].n] = disk.answers[wk[v].n] /\ received'[wk[v].n] = received[wk[v].n]
      BY ZenonT(30), <2>2, <3>1 DEF WorkerSound
    <3>3. wk[v].pc \in {"mark", "write"} => lock.by = v
      BY <2>2, <3>1 DEF WorkerSound, MarkOf, ResultOf
    <3>4. wk[v].pc \in {"mark", "write"} => lock' = lock
      BY SMTT(20), <2>2, <3>3, BatchAssumption DEF LockStep, Free
    <3> QED BY ZenonT(30), <2>2, <3>1, <3>2, <3>4 DEF WorkerSound, SameRun
  <2>3. CASE v # w /\ wk[v].pc = "idle"
    BY <1>2, <2>3 DEF WorkerSound
  <2> QED BY <2>1, <2>2, <2>3
<1>6. Alone'
  BY <1>2 DEF IInv, Alone
<1>7. RunSound'
  BY <1>1 DEF IInv, RunSound, SameRun, Sending
<1>8. LockSound'
  <2>1. CASE lock' = lock /\ wk[w].pc \notin {"mark", "write"}
    BY ZenonT(30), <1>1, <1>2, <2>1 DEF IInv, LockSound, Sending
  <2>2. CASE lock'.by = w /\ wk'[w].pc \in {"mark", "write"}
    BY <2>2 DEF LockSound
  <2>3. CASE lock' = Free
    BY <2>3 DEF LockSound
  <2> QED BY ZenonT(30), <2>1, <2>2, <2>3 DEF LockStep
<1> QED BY ZenonT(30), <1>3, <1>4, <1>5, <1>6, <1>7, <1>8 DEF IInv

\* A worker's line is answered, without a change of the directory.
LEMMA AnsweredKeeps ==
    ASSUME IInv, NEW w \in Workers, NEW code \in Codes, Answered(w, code), wk[w].pc \in {"taken", "request", "flight"},
           UNCHANGED <<disk, lock, received>>, run' \in RunType, SameRun
    PROVE  IInv'
<1> DEFINE p == [wk[w] EXCEPT !.pc = "answer", !.code = code]
<1>1. wk[w] \in WorkerType /\ WorkerSound(w) /\ wk \in [Workers -> WorkerType]
  BY DEF IInv, Typed
<1>2. p \in WorkerType /\ p.pc = "answer" /\ p.n = wk[w].n
  BY Zenon, <1>1 DEF WorkerType
<1>3. wk' = [wk EXCEPT ![w] = p]
  BY Zenon, <1>1 DEF Answered
<1> HIDE DEF p
<1>4. PICK m \in Lines : m = wk[w].n
  BY <1>1 DEF WorkerSound
<1>5. wk'[w] = p
  BY <1>1, <1>3
<1>6. LineSound(m)'
  <2>1. LineSound(m)
    BY ZenonT(30) DEF IInv
  <2> QED BY <2>1 DEF LineSound, SameRun
<1>7. WorkerSound(w)'
  BY ZenonT(30), <1>1, <1>2, <1>5 DEF WorkerSound, SameRun
<1>8. LockStep(w) /\ "sent" \notin disk'.torn
  BY <1>1 DEF LockStep, WorkerSound, IInv, RunSound, Sending
<1> QED BY Zenon, <1>1, <1>2, <1>3, <1>4, <1>6, <1>7, <1>8, WorkerKeeps DEF IInv, Typed

\* A worker moves on with its line, the run as it is.
LEMMA MoveKeeps ==
    ASSUME IInv, NEW w \in Workers, NEW pc \in {"mark", "request", "flight", "write"},
           wk' = [wk EXCEPT ![w].pc = pc], wk[w].pc # "idle", UNCHANGED run,
           NEW m \in Lines, m = wk[w].n, disk' \in DiskType, lock' \in LockType, LockStep(w), "sent" \notin disk'.torn,
           disk.sent \subseteq disk'.sent, disk'.sent \subseteq disk.sent \cup {m}, disk'.answers = disk.answers,
           received' \in [Lines -> Nat], received'[m] <= 1, \A n \in Lines : n # m => received'[n] = received[n],
           received'[m] > 0 => m \in disk'.sent,
           pc = "mark" => received'[m] = 0 /\ lock' = MarkOf(w, m),
           pc = "request" => received'[m] = 0 /\ m \in disk'.sent,
           pc = "flight" => m \in disk'.sent,
           pc = "write" => lock' = ResultOf(w, m, wk[w].code)
    PROVE  IInv'
<1> DEFINE p == [wk[w] EXCEPT !.pc = pc]
<1>1. wk[w] \in WorkerType /\ WorkerSound(w) /\ wk \in [Workers -> WorkerType]
  BY DEF IInv, Typed
<1>2. p \in WorkerType /\ p.pc = pc /\ p.n = m /\ p.code = wk[w].code
  BY <1>1 DEF WorkerType
<1>3. wk' = [wk EXCEPT ![w] = p]
  BY <1>1
<1> HIDE DEF p
<1>4. wk'[w] = p
  BY <1>1, <1>3
<1>5. LineSound(m)'
  <2>1. LineSound(m) /\ m \notin run.todo
    BY <1>1 DEF IInv, WorkerSound
  <2> QED BY <2>1 DEF LineSound
<1>6. WorkerSound(w)'
  BY <1>1, <1>2, <1>4 DEF WorkerSound
<1>7. run' \in RunType /\ SameRun
  BY DEF IInv, Typed, SameRun
<1> QED BY Zenon, <1>1, <1>2, <1>3, <1>5, <1>6, <1>7, WorkerKeeps

\* send, up to the mark.
LEMMA TakeKeeps ==
    ASSUME IInv, NEW w \in Workers, Take(w)
    PROVE  IInv'
<1>1. WorkerSound(w) /\ wk[w].pc = "taken" /\ wk[w].n \in Lines /\ received[wk[w].n] = 0
  BY DEF IInv, Take, WorkerSound
<1>2. CASE Answered(w, "invalid_request") /\ UNCHANGED lock
  <2>1. "invalid_request" \in Codes /\ run' \in RunType /\ SameRun /\ UNCHANGED <<disk, lock, received>>
    BY <1>2 DEF Take, Codes, IInv, Typed, SameRun
  <2> QED BY <1>1, <1>2, <2>1, AnsweredKeeps
<1>3. CASE lock = Free /\ lock' = MarkOf(w, wk[w].n) /\ wk' = [wk EXCEPT ![w].pc = "mark"]
  <2>1. lock' \in LockType /\ lock'.by = w
    BY <1>1, <1>3 DEF MarkOf, LockType, Files, Codes, Lines
  <2>2. wk'[w].pc = "mark"
    BY <1>3 DEF IInv, Typed, WorkerType
  <2>3. LockStep(w)
    BY ZenonT(30), <1>3, <2>1, <2>2 DEF LockStep
  <2>4. "sent" \notin disk.torn /\ LineSound(wk[w].n)
    BY <1>1 DEF IInv, RunSound, WorkerSound, Sending
  <2>5. UNCHANGED <<disk, run, received>> /\ disk \in DiskType /\ received \in [Lines -> Nat]
    BY DEF Take, IInv, Typed
  <2>6. "mark" \in {"mark", "request", "flight", "write"}
    OBVIOUS
  <2> QED BY Zenon, <1>1, <1>3, <2>1, <2>3, <2>4, <2>5, <2>6, MoveKeeps DEF LineSound
<1> QED BY <1>2, <1>3 DEF Take

\* markSent: the mark is there when the request may go, and a line whose mark
\* failed is answered.
LEMMA MarkedKeeps ==
    ASSUME IInv, WholeMarks, NEW w \in Workers, Marked(w)
    PROVE  IInv'
<1>1. PICK m \in Lines : m = wk[w].n
  BY DEF IInv, WorkerSound, Marked
<1>2. wk[w].pc = "mark" /\ WorkerSound(w) /\ wk[w] \in WorkerType /\ wk \in [Workers -> WorkerType]
  BY ZenonT(30) DEF IInv, Typed, Marked
<1>3. lock = MarkOf(w, m) /\ received[m] = 0 /\ run.pc \in Sending /\ "sent" \notin disk.torn
  BY <1>1, <1>2 DEF WorkerSound, IInv, RunSound, Sending
<1>4. lock.by = w /\ lock.n = m /\ lock.file = "sent" /\ lock # Free
  BY <1>3, BatchAssumption DEF MarkOf, Free
<1>5. lock' \in LockType /\ LockStep(w) /\ UNCHANGED <<run, received>> /\ received \in [Lines -> Nat]
  BY <1>4, DownTyped DEF Marked, LockStep, IInv, Typed
<1>6. /\ disk' \in DiskType /\ "sent" \notin disk'.torn /\ disk'.answers = disk.answers
      /\ disk.sent \subseteq disk'.sent /\ disk'.sent \subseteq disk.sent \cup {m}
  BY <1>3, <1>4, WriteFacts DEF Marked
<1>7. CASE WriteOK /\ wk' = [wk EXCEPT ![w].pc = "request"]
  <2>1. m \in disk'.sent
    BY <1>3, <1>4, <1>7, LandedFacts DEF WriteOK
  <2>2. /\ received'[m] = 0 /\ received'[m] <= 1 /\ received' \in [Lines -> Nat]
        /\ \A n \in Lines : n # m => received'[n] = received[n]
    BY <1>3, <1>5
  <2>3. "request" \in {"mark", "request", "flight", "write"} /\ wk[w].pc # "idle"
    BY <1>2
  <2> QED BY Zenon, <1>1, <1>5, <1>6, <1>7, <2>1, <2>2, <2>3, MoveKeeps
<1>8. CASE WriteFails /\ Answered(w, "request_failed")
  <2> DEFINE p == [wk[w] EXCEPT !.pc = "answer", !.code = "request_failed"]
  <2>1. p \in WorkerType /\ p.pc = "answer" /\ p.n = m
    BY Zenon, <1>1, <1>2 DEF WorkerType, Codes
  <2>2. wk' = [wk EXCEPT ![w] = p]
    BY Zenon, <1>2, <1>8 DEF Answered
  <2> HIDE DEF p
  <2>3. wk'[w] = p
    BY <1>2, <2>2
  <2>4. LineSound(m)'
    <3>1. LineSound(m) /\ m \notin run.todo
      BY ZenonT(30), <1>1, <1>2 DEF IInv, WorkerSound
    <3> QED BY ZenonT(30), <1>3, <1>5, <1>6, <3>1 DEF LineSound
  <2>5. WorkerSound(w)'
    BY <1>1, <1>2, <1>5, <1>6, <2>1, <2>3 DEF WorkerSound
  <2>6. run' \in RunType /\ SameRun
    BY <1>5 DEF IInv, Typed, SameRun
  <2> QED BY Zenon, <1>1, <1>2, <1>5, <1>6, <2>1, <2>2, <2>4, <2>5, <2>6, WorkerKeeps
<1> QED BY <1>7, <1>8 DEF Marked

\* The request goes, once.
LEMMA DeliverKeeps ==
    ASSUME IInv, NEW w \in Workers, Deliver(w)
    PROVE  IInv'
<1>1. PICK m \in Lines : m = wk[w].n
  BY DEF IInv, WorkerSound, Deliver
<1>2. wk[w].pc = "request" /\ WorkerSound(w) /\ received \in [Lines -> Nat]
  BY ZenonT(30) DEF IInv, Typed, Deliver
<1>3. received[m] = 0 /\ m \in disk.sent /\ "sent" \notin disk.torn
  BY <1>1, <1>2 DEF WorkerSound, IInv, RunSound, Sending
<1>4. received' = [received EXCEPT ![m] = @ + 1]
  BY <1>1 DEF Deliver
<1>5. received' \in [Lines -> Nat] /\ received'[m] = 1 /\ \A n \in Lines : n # m => received'[n] = received[n]
  BY <1>2, <1>3, <1>4
<1>6. /\ UNCHANGED run /\ lock' \in LockType /\ LockStep(w) /\ disk' \in DiskType /\ "sent" \notin disk'.torn
      /\ disk'.answers = disk.answers /\ disk.sent \subseteq disk'.sent /\ disk'.sent \subseteq disk.sent \cup {m}
      /\ m \in disk'.sent /\ received'[m] <= 1
  BY <1>2, <1>3, <1>5 DEF Deliver, IInv, Typed, LockStep
<1>7. "flight" \in {"mark", "request", "flight", "write"} /\ wk' = [wk EXCEPT ![w].pc = "flight"] /\ wk[w].pc # "idle"
  BY <1>2 DEF Deliver
<1> QED BY Zenon, <1>1, <1>5, <1>6, <1>7, MoveKeeps

\* The request fails, or is answered.
LEMMA AnswerKeeps ==
    ASSUME IInv, NEW w \in Workers, RequestFails(w) \/ Respond(w)
    PROVE  IInv'
<1>1. wk[w].pc \in {"request", "flight"} /\ UNCHANGED <<disk, lock, received>>
  BY Zenon DEF RequestFails, Respond
<1>2. run' \in RunType /\ SameRun
  <2>1. run \in RunType
    BY DEF IInv, Typed
  <2>2. CASE UNCHANGED run
    BY <2>1, <2>2 DEF SameRun
  <2>3. CASE run' = [run EXCEPT !.noted = @ \/ run.judged = "cancel"]
    BY Zenon, <2>1, <2>3 DEF SameRun, RunType
  <2> QED BY Zenon, <2>2, <2>3 DEF RequestFails, Respond
<1>3. \E code \in Codes : Answered(w, code)
  BY Zenon DEF RequestFails, Respond, Codes
<1> QED BY <1>1, <1>2, <1>3, AnsweredKeeps

\* result takes the record's lock.
LEMMA WriteKeeps ==
    ASSUME IInv, NEW w \in Workers, Write(w)
    PROVE  IInv'
<1>1. PICK m \in Lines : m = wk[w].n
  BY DEF IInv, WorkerSound, Write
<1>2. wk[w].pc = "answer" /\ WorkerSound(w) /\ wk[w] \in WorkerType /\ wk \in [Workers -> WorkerType]
  BY DEF IInv, Typed, Write
<1>3. wk' = [wk EXCEPT ![w].pc = "write"] /\ lock = Free /\ lock' = ResultOf(w, m, wk[w].code)
  BY <1>1 DEF Write
<1>4. lock' \in LockType /\ lock'.by = w
  BY <1>1, <1>2, <1>3 DEF ResultOf, LockType, FileOf, Files, ResultFiles, WorkerType, Lines
<1>5. LockStep(w)
  <2>1. wk'[w].pc = "write"
    BY <1>2, <1>3 DEF WorkerType
  <2> QED BY <1>3, <1>4, <2>1 DEF LockStep
<1>6. /\ UNCHANGED run /\ disk' \in DiskType /\ "sent" \notin disk'.torn
      /\ disk'.answers = disk.answers /\ disk.sent \subseteq disk'.sent /\ disk'.sent \subseteq disk.sent \cup {m}
  BY <1>2 DEF Write, IInv, Typed, WorkerSound, RunSound, Sending
<1>7. /\ received' \in [Lines -> Nat] /\ received'[m] <= 1 /\ (received'[m] > 0 => m \in disk'.sent)
      /\ \A n \in Lines : n # m => received'[n] = received[n]
  BY DEF Write, IInv, Typed, LineSound
<1>8. "write" \in {"mark", "request", "flight", "write"} /\ wk[w].pc # "idle"
  BY SMTT(20), <1>2
<1> QED BY Zenon, <1>1, <1>3, <1>4, <1>5, <1>6, <1>7, <1>8, MoveKeeps

\* The result is in its file, or the run is to end; the worker is free.
LEMMA WrittenKeeps ==
    ASSUME IInv, WholeMarks, NEW w \in Workers, Written(w)
    PROVE  IInv'
<1>1. PICK m \in Lines : m = wk[w].n
  BY DEF IInv, WorkerSound, Written
<1>2. wk[w].pc = "write" /\ WorkerSound(w) /\ wk \in [Workers -> WorkerType] /\ LineSound(m)
  BY ZenonT(30) DEF IInv, Typed, Written
<1>3. lock = ResultOf(w, m, wk[w].code) /\ m \notin run.todo /\ run.pc \in Sending /\ "sent" \notin disk.torn
  BY ZenonT(30), <1>1, <1>2 DEF WorkerSound, IInv, RunSound, Sending
<1>4. lock.by = w /\ lock.n = m /\ lock.file # "sent" /\ lock # Free
  BY <1>3, BatchAssumption DEF ResultOf, FileOf, Free
<1>5. lock' \in LockType /\ LockStep(w) /\ UNCHANGED received /\ received' \in [Lines -> Nat]
  BY <1>4, DownTyped DEF Written, LockStep, IInv, Typed
<1>6. /\ disk' \in DiskType /\ "sent" \notin disk'.torn /\ disk'.sent = disk.sent
      /\ \A n \in Lines : n # m => disk'.answers[n] = disk.answers[n]
      /\ Len(disk'.answers[m]) <= 1
  BY <1>3, <1>4, WriteFacts DEF Written
<1>7. run' \in RunType /\ SameRun
  <2>1. run \in RunType
    BY DEF IInv, Typed
  <2>2. CASE run' = [run EXCEPT !.count = @ + 1]
    BY <2>1, <2>2, CountTyped DEF SameRun
  <2>3. CASE run' = [run EXCEPT !.failed = TRUE]
    BY Zenon, <2>1, <2>3 DEF SameRun, RunType
  <2> QED BY <2>2, <2>3 DEF Written
<1>8. Idle \in WorkerType /\ Idle.pc = "idle" /\ wk' = [wk EXCEPT ![w] = Idle] /\ wk'[w].pc = "idle"
  BY ZenonT(30), <1>2, DownTyped DEF Written, Idle
<1>9. LineSound(m)'
  <2>1. m \notin run.settle
    BY SMTT(20), <1>3 DEF IInv, RunSound, Sending
  <2> QED BY ZenonT(30), <1>2, <1>3, <1>5, <1>6, <1>7, <2>1 DEF LineSound, SameRun
<1>10. WorkerSound(w)'
  BY <1>8 DEF WorkerSound
<1> QED BY Zenon, <1>1, <1>2, <1>5, <1>6, <1>7, <1>8, <1>9, <1>10, WorkerKeeps

\* A line is handed to a worker.
LEMMA OfferKeeps ==
    ASSUME IInv, NEW w \in Workers, Offer(w)
    PROVE  IInv'
<1> DEFINE n == run.line
           p == [pc |-> "taken", n |-> run.line, code |-> "ok"]
<1>1. run \in RunType /\ wk \in [Workers -> WorkerType] /\ n \in run.todo /\ n \in Lines /\ wk[w].pc = "idle"
  BY Zenon DEF IInv, Typed, RunSound, Offer, RunType
<1>2. LineSound(n) /\ n \notin disk.sent /\ disk.answers[n] = <<>> /\ received \in [Lines -> Nat] /\ received[n] = 0
  BY <1>1 DEF IInv, Typed, LineSound
<1>3. /\ run' \in RunType /\ run'.pc = "next" /\ run'.todo = run.todo \ {n} /\ run'.settle = run.settle
  <2> DEFINE todo == run.todo \ {n}
             late == IF run.ctx = "" THEN 0 ELSE run.late + 1
  <2>1. todo \in SUBSET Lines /\ late \in Nat
    <3>1. run.todo \in SUBSET Lines /\ run.late \in Nat
      BY Zenon, <1>1 DEF RunType
    <3>2. todo \in SUBSET Lines
      BY <3>1
    <3>3. late \in Nat
      <4>1. PICK k \in Nat : k = run.late
        BY <3>1
      <4>2. k + 1 \in Nat
        OBVIOUS
      <4> QED BY Zenon, <4>1, <4>2
    <3> QED BY Zenon, <3>2, <3>3
  <2>2. run' = [run EXCEPT !.pc = "next", !.todo = todo, !.late = late]
    BY Zenon, <1>1 DEF Offer, RunType
  <2> HIDE DEF todo, late
  <2>3. run' \in RunType /\ run'.pc = "next" /\ run'.todo = todo /\ run'.settle = run.settle
    BY Zenon, <1>1, <2>1, <2>2 DEF RunType
  <2> QED BY <2>3 DEF todo
<1>4. p \in WorkerType /\ p.pc = "taken" /\ p.n = n
  BY <1>1 DEF WorkerType, Codes, Lines
<1>5. wk' = [wk EXCEPT ![w] = p] /\ UNCHANGED <<disk, lock, received>> /\ run.pc = "offer"
  BY DEF Offer
<1> HIDE DEF p
<1>6. wk'[w] = p /\ \A v \in Workers : v # w => wk'[v] = wk[v]
  BY <1>1, <1>5
<1>7. Typed'
  BY <1>1, <1>3, <1>4, <1>5 DEF IInv, Typed
<1>8. \A m \in Lines : LineSound(m)'
  BY <1>3, <1>5 DEF IInv, LineSound
<1>9. ASSUME NEW v \in Workers PROVE WorkerSound(v)' /\ (v # w /\ wk[v].pc # "idle" => wk[v].n # n)
  <2>1. CASE v = w
    BY ZenonT(30), <1>1, <1>2, <1>3, <1>4, <1>5, <1>6, <2>1 DEF WorkerSound, Sending
  <2>2. CASE v # w
    BY <1>1, <1>3, <1>5, <1>6, <2>2 DEF WorkerSound, Sending, IInv
  <2> QED BY SMTT(20), <2>1, <2>2
<1>10. Alone'
  BY <1>4, <1>6, <1>9 DEF IInv, Alone
<1>11. RunSound'
  BY <1>3, <1>5 DEF IInv, RunSound
<1>12. LockSound'
  BY <1>1, <1>5, <1>6 DEF IInv, LockSound
<1> QED BY <1>7, <1>8, <1>9, <1>10, <1>11, <1>12 DEF IInv

-----------------------------------------------------------------------------
(* The run *)

\* openRecord: what is to be handed out has no mark and no result, what is to
\* be settled has a mark and no result.
LEMMA OpenKeeps == IInv /\ Open => IInv'
<1> SUFFICES ASSUME IInv, Open PROVE IInv'
  OBVIOUS
<1> DEFINE settle == disk.sent \ Finished
           todo == Lines \ (disk.sent \cup Finished)
           count == Cardinality(Finished)
<1>1. disk \in DiskType /\ run.pc = "down" /\ lock = Free
  BY DEF IInv, Typed, RunSound, Open
<1>2. settle \in SUBSET Lines /\ todo \in SUBSET Lines
  BY <1>1 DEF DiskType
<1>3. count \in Nat
  <2>1. IsFiniteSet(Lines)
    BY BatchAssumption, FS_Interval DEF Lines
  <2>2. IsFiniteSet(Finished)
    BY <2>1, FS_Subset DEF Finished
  <2> QED BY <2>2, FS_CardinalityType
<1>4. run' = [Down EXCEPT !.pc = "settle", !.settle = settle, !.todo = todo, !.count = count]
  BY DEF Open
<1> HIDE DEF settle, todo, count
<1>5. run' \in RunType /\ run'.pc = "settle" /\ run'.settle = settle /\ run'.todo = todo
  BY Zenon, <1>2, <1>3, <1>4, DownTyped DEF RunType
<1>6. disk' \in DiskType /\ disk'.sent = disk.sent /\ disk'.answers = disk.answers /\ disk'.torn = {}
  BY Zenon, <1>1 DEF Open, RepairTail, DiskType
<1>7. UNCHANGED <<lock, wk, received>>
  BY DEF Open
<1>8. Typed'
  BY <1>5, <1>6, <1>7 DEF IInv, Typed
<1>9. \A n \in Lines : LineSound(n)'
  <2> SUFFICES ASSUME NEW n \in Lines PROVE LineSound(n)'
    OBVIOUS
  <2>1. n \in todo => n \notin disk.sent /\ disk.answers[n] = <<>>
    BY DEF todo, Finished
  <2>2. n \in settle => disk.answers[n] = <<>> /\ n \notin todo
    BY DEF settle, todo, Finished
  <2> QED BY <1>5, <1>6, <1>7, <2>1, <2>2 DEF IInv, LineSound
<1>10. \A w \in Workers : WorkerSound(w)' /\ wk[w].pc = "idle"
  BY <1>1, <1>7 DEF IInv, WorkerSound, Sending
<1>11. Alone' /\ RunSound' /\ LockSound'
  BY <1>1, <1>5, <1>6, <1>7, <1>10 DEF Alone, RunSound, LockSound
<1> QED BY <1>8, <1>9, <1>10, <1>11 DEF IInv

\* A line that was in flight is being settled: the record's lock is taken.
LEMMA SettleKeeps ==
    ASSUME IInv, NEW n \in Lines, Settle(n)
    PROVE  IInv'
<1>1. /\ run.pc = "settle" /\ n \in run.settle /\ lock' = ResultOf("run", n, "interrupted")
      /\ UNCHANGED <<disk, run, wk, received>>
  BY DEF Settle
<1>2. lock' \in LockType /\ lock'.n = n
  BY <1>1 DEF ResultOf, LockType, FileOf, Files, ResultFiles, Codes, Lines
<1>3. Typed'
  BY <1>1, <1>2 DEF IInv, Typed
<1>4. \A m \in Lines : LineSound(m)'
  BY ZenonT(30), <1>1 DEF IInv, LineSound
<1>5. \A w \in Workers : WorkerSound(w)' /\ wk[w].pc = "idle"
  BY <1>1 DEF IInv, WorkerSound, Sending
<1>6. Alone' /\ RunSound'
  BY <1>1 DEF IInv, Alone, RunSound
<1>7. LockSound'
  BY <1>1, <1>2 DEF LockSound
<1> QED BY <1>3, <1>4, <1>5, <1>6, <1>7 DEF IInv

\* It is settled, or the run ends.
LEMMA SettleEndsKeeps ==
    ASSUME IInv, WholeMarks, SettleEnds
    PROVE  IInv'
<1>1. lock.by = "run" /\ lock # Free /\ lock' = Free /\ UNCHANGED received
  BY DEF SettleEnds, Free
<1>2. run.pc = "settle" /\ lock.n \in run.settle /\ lock = ResultOf("run", lock.n, "interrupted") /\ lock.n \in Lines
  BY <1>1, BatchAssumption, LockedLine DEF IInv, LockSound
<1>3. lock.file # "sent" /\ "sent" \notin disk.torn
  BY <1>2 DEF ResultOf, FileOf, IInv, RunSound
<1>4. /\ disk' \in DiskType /\ "sent" \notin disk'.torn /\ disk'.sent = disk.sent
      /\ \A n \in Lines : n # lock.n => disk'.answers[n] = disk.answers[n]
      /\ \A n \in Lines : Len(disk'.answers[n]) <= 1
  BY <1>1, <1>3, WriteFacts DEF SettleEnds
<1>5. CASE Exit
  BY <1>1, <1>4, <1>5, ExitKeeps
<1>6. CASE run' = [run EXCEPT !.settle = @ \ {lock.n}, !.count = @ + 1] /\ UNCHANGED wk
  <2> DEFINE q == [run EXCEPT !.settle = @ \ {lock.n}]
  <2>1. run \in RunType
    BY DEF IInv, Typed
  <2>2. q \in RunType /\ q.pc = run.pc /\ q.todo = run.todo /\ q.settle = run.settle \ {lock.n}
    BY Zenon, <2>1 DEF RunType
  <2>3. run' = [q EXCEPT !.count = @ + 1]
    BY Zenon, <1>6, <2>1 DEF RunType
  <2> HIDE DEF q
  <2>4. run' \in RunType /\ run'.pc = "settle" /\ run'.todo = run.todo /\ run'.settle = run.settle \ {lock.n}
    BY <1>2, <2>2, <2>3, CountTyped
  <2>5. Typed'
    BY <1>1, <1>4, <1>6, <2>4, DownTyped DEF IInv, Typed
  <2>6. ASSUME NEW n \in Lines PROVE LineSound(n)'
    <3>1. LineSound(n) /\ LineSound(lock.n)
      BY <1>2 DEF IInv
    <3>2. lock.n \notin run.todo
      BY <1>2, <3>1 DEF LineSound
    <3>3. CASE n = lock.n
      BY SMTT(20), <1>1, <1>4, <2>4, <3>1, <3>2, <3>3 DEF LineSound
    <3>4. CASE n # lock.n
      BY <1>1, <1>4, <2>4, <3>1, <3>4 DEF LineSound
    <3> QED BY <3>3, <3>4
  <2>7. \A w \in Workers : wk[w].pc = "idle" /\ wk' = wk
    BY <1>2, <1>6 DEF IInv, WorkerSound, Sending
  <2>8. \A w \in Workers : WorkerSound(w)'
    BY <2>7 DEF WorkerSound
  <2>9. Alone' /\ RunSound' /\ LockSound'
    BY <1>1, <1>4, <1>6, <2>4, <2>7 DEF IInv, Alone, RunSound, LockSound
  <2> QED BY <2>5, <2>6, <2>8, <2>9 DEF IInv
<1> QED BY <1>5, <1>6 DEF SettleEnds

\* Without a worker at work and a line to settle, no write is under way.
LEMMA NoWrite ==
    ASSUME IInv, run.pc # "settle", \A w \in Workers : wk[w].pc = "idle"
    PROVE  lock = Free
  BY DEF IInv, LockSound

\* While no run sends, its workers are idle.
LEMMA AllIdle ==
    ASSUME IInv, run.pc \notin Sending
    PROVE  \A w \in Workers : wk[w].pc = "idle"
  BY DEF IInv, WorkerSound

\* A run that exits, and one that is killed in the middle of a write.
LEMMA EndKeeps ==
    ASSUME IInv, UploadFails \/ PutErrors \/ Kill
    PROVE  IInv'
<1>1. Exit /\ UNCHANGED received /\ disk \in DiskType /\ \A n \in Lines : Len(disk.answers[n]) <= 1
  BY DEF UploadFails, PutErrors, Kill, IInv, Typed, LineSound
<1>2. CASE UploadFails \/ PutErrors
  <2>1. lock = Free /\ UNCHANGED <<lock, disk>>
    BY <1>2, AllIdle, NoWrite DEF UploadFails, PutErrors, Sending
  <2> QED BY SMTT(20), <1>1, <2>1, ExitKeeps
<1>3. CASE Kill
  <2>1. lock' = Free
    BY <1>3 DEF Kill
  <2>2. /\ disk' \in DiskType /\ disk.sent \subseteq disk'.sent
        /\ \A n \in Lines : Len(disk'.answers[n]) <= 1
    <3>1. CASE disk' = disk
      BY <1>1, <3>1
    <3>2. CASE disk' = CutShort(disk, lock)
      BY <1>1, <3>2, CutFacts
    <3>3. CASE lock # Free /\ disk' = Landed(disk, lock)
      BY <3>3, LandedFacts
    <3> QED BY <1>3, <3>1, <3>2, <3>3 DEF Kill
  <2> QED BY <1>1, <2>1, <2>2, ExitKeeps
<1> QED BY <1>2, <1>3

\* waitReady and the end of the dispatch: the run exits or hands over.
LEMMA FinishKeeps ==
    ASSUME IInv, NotReady \/ Finish
    PROVE  IInv'
<1>1. lock = Free /\ \A w \in Workers : wk[w].pc = "idle"
  BY Zenon, AllIdle, NoWrite DEF NotReady, Finish, Sending
<1>2. UNCHANGED <<disk, lock, received>> /\ run.pc # "down" /\ disk \in DiskType
  BY Zenon DEF NotReady, Finish, IInv, Typed
<1>3. CASE Exit
  <2>1. \A n \in Lines : Len(disk.answers[n]) <= 1
    BY DEF IInv, LineSound
  <2> QED BY <1>1, <1>2, <1>3, <2>1, ExitKeeps
<1>4. CASE UNCHANGED wk /\ \E state \in {"completed", "cancelled", "interrupted"} : Hands(state)
  BY <1>1, <1>2, <1>4, HandsKeeps
<1>5. \A v, c : StoppedAs(v, c) \in {"completed", "cancelled", "interrupted"}
  BY DEF StoppedAs
<1> QED BY Zenon, <1>3, <1>4, <1>5 DEF NotReady, Finish

\* The steps that change nothing but what the run has in memory.
LEMMA MemoryKeeps ==
    ASSUME IInv, Settled \/ Ready \/ NextLine \/ OfferEnds \/ PutOutput \/ Judge \/ AbortRequests \/ \E s \in {"int", "term"} : Signal(s)
    PROVE  IInv'
<1>1. run \in RunType /\ UNCHANGED <<disk, lock, wk, received>>
  BY Zenon DEF IInv, Typed, Settled, Ready, NextLine, OfferEnds, PutOutput, Judge, AbortRequests, Signal
<1>2. CASE Settled
  <2>1. run' \in RunType /\ run'.pc = "ready" /\ run'.todo = run.todo /\ run'.settle = run.settle
    BY Zenon, <1>1, <1>2 DEF Settled, RunType
  <2> QED BY <1>1, <1>2, <2>1, RunKeeps DEF Settled, Sending
<1>3. CASE Ready
  <2>1. run' \in RunType /\ run'.pc = "next" /\ run'.todo = run.todo /\ run'.settle = run.settle
    BY ZenonT(30), <1>1, <1>3 DEF Ready, RunType
  <2> QED BY <1>1, <1>3, <2>1, RunKeeps DEF Ready, Sending
<1>4. CASE NextLine
  <2>1. CASE \E n \in run.todo : run' = [run EXCEPT !.pc = "offer", !.line = n]
    <3>1. PICK n \in run.todo : run' = [run EXCEPT !.pc = "offer", !.line = n]
      BY Zenon, <2>1
    <3>2. n \in Nat
      <4>1. n \in Lines
        BY Zenon, <1>1 DEF RunType
      <4> QED BY <4>1 DEF Lines
    <3>3. run' \in RunType /\ run'.pc = "offer" /\ run'.line = n /\ run'.todo = run.todo /\ run'.settle = run.settle
      BY ZenonT(30), <1>1, <3>1, <3>2 DEF RunType
    <3> QED BY ZenonT(30), <1>1, <1>4, <3>3, RunKeeps DEF NextLine, Sending
  <2>2. CASE run' = [run EXCEPT !.pc = "wait"] \/ run' = [run EXCEPT !.pc = "wait", !.cancelled = TRUE]
    <3>1. run' \in RunType /\ run'.pc = "wait" /\ run'.todo = run.todo /\ run'.settle = run.settle
      BY ZenonT(30), <1>1, <2>2 DEF RunType
    <3> QED BY Zenon, <1>1, <1>4, <3>1, RunKeeps DEF NextLine, Sending
  <2> QED BY ZenonT(30), <1>4, <2>1, <2>2 DEF NextLine
<1>5. CASE OfferEnds
  <2>1. run' = [run EXCEPT !.pc = "wait"] \/ run' = [run EXCEPT !.pc = "wait", !.cancelled = TRUE]
    BY Zenon, <1>5 DEF OfferEnds
  <2>2. run' \in RunType /\ run'.pc = "wait" /\ run'.todo = run.todo /\ run'.settle = run.settle
    BY ZenonT(30), <1>1, <2>1 DEF RunType
  <2> QED BY Zenon, <1>1, <1>5, <2>2, RunKeeps DEF OfferEnds, Sending
<1>6. CASE PutOutput
  <2>1. run' \in RunType /\ run'.pc = "putErrors" /\ run'.todo = run.todo /\ run'.settle = run.settle
    BY Zenon, <1>1, <1>6 DEF PutOutput, RunType
  <2> QED BY <1>1, <1>6, <2>1, RunKeeps DEF PutOutput, Sending
<1>7. CASE Judge \/ AbortRequests \/ \E s \in {"int", "term"} : Signal(s)
  <2>1. \/ \E v \in {"cancel", "interruption"} : run' = [run EXCEPT !.judged = v]
        \/ run' = [run EXCEPT !.aborted = TRUE]
        \/ \E s \in {"int", "term"} : run' = [run EXCEPT !.ctx = s]
    BY Zenon, <1>7 DEF Judge, Verdicts, AbortRequests, Signal
  <2>2. /\ run' \in RunType /\ run'.pc = run.pc /\ run'.line = run.line
        /\ run'.todo = run.todo /\ run'.settle = run.settle
    BY ZenonT(30), <1>1, <2>1 DEF RunType
  <2>3. run.pc # "down"
    BY Zenon, <1>7 DEF Judge, AbortRequests, Signal
  <2>4. run.pc = "offer" => run.line \in run.todo
    BY DEF IInv, RunSound
  <2> QED BY <1>1, <2>2, <2>3, <2>4, RunKeeps
<1> QED BY SMTT(20), <1>2, <1>3, <1>4, <1>5, <1>6, <1>7

\* The invariant is inductive.
LEMMA NextKeeps ==
    ASSUME IInv, WholeMarks, [Next]_vars
    PROVE  IInv'
<1>1. CASE RunStep
  BY <1>1, OpenKeeps, SettleKeeps, SettleEndsKeeps, MemoryKeeps, FinishKeeps, OfferKeeps, EndKeeps DEF RunStep
<1>2. CASE \E w \in Workers : WorkerStep(w)
  BY ZenonT(30), <1>2, TakeKeeps, MarkedKeeps, DeliverKeeps, AnswerKeeps, WriteKeeps, WrittenKeeps DEF WorkerStep
<1>3. CASE Ask \/ UNCHANGED vars
  <2>1. UNCHANGED <<disk, lock, run, wk, received>>
    BY <1>3 DEF Ask, vars
  <2> QED BY Zenon, <2>1 DEF IInv, Typed, LineSound, WorkerSound, Alone, RunSound, LockSound
<1>4. CASE Stop
  BY ZenonT(30), <1>3, <1>4, MemoryKeeps, EndKeeps DEF Stop
<1> QED BY <1>1, <1>2, <1>3, <1>4 DEF Next

\* What a step may do to the directory.
LEMMA DiskStep ==
    ASSUME IInv, [Next]_vars
    PROVE  \/ disk' = disk
           \/ disk' = RepairTail(disk)
           \/ lock # Free /\ disk' \in {CutShort(disk, lock), Landed(disk, lock)}
<1>1. CASE RunStep
  <2>1. CASE SettleEnds
    <3>1. lock # Free
      BY <2>1 DEF SettleEnds, Free
    <3> QED BY <2>1, <3>1 DEF SettleEnds, WriteOK, WriteFails
  <2> QED BY Zenon, <1>1, <2>1 DEF RunStep, Open, Settle, Settled, Ready, NotReady, NextLine, Offer, OfferEnds, Finish, UploadFails,
                            PutOutput, PutErrors
<1>2. ASSUME NEW w \in Workers, WorkerStep(w) PROVE disk' = disk \/ (lock # Free /\ disk' \in {CutShort(disk, lock), Landed(disk, lock)})
  <2>1. CASE Marked(w) \/ Written(w)
    <3>1. WorkerSound(w) /\ wk[w].pc \in {"mark", "write"}
      BY ZenonT(30), <2>1 DEF IInv, Marked, Written
    <3>2. lock # Free
      BY <3>1, BatchAssumption DEF WorkerSound, MarkOf, ResultOf, Free
    <3> QED BY <2>1, <3>2 DEF Marked, Written, WriteOK, WriteFails
  <2> QED BY Zenon, <1>2, <2>1 DEF WorkerStep, Take, Deliver, RequestFails, Respond, Write
<1>3. CASE Stop
  BY Zenon, <1>3 DEF Stop, Ask, Signal, Judge, AbortRequests, Kill
<1>4. CASE UNCHANGED vars
  BY ZenonT(30), <1>4 DEF vars
<1> QED BY SMTT(20), <1>1, <1>2, <1>3, <1>4 DEF Next

\* The result that a whole line adds is the one that was being written.
LEMMA LandedAnswer ==
    ASSUME IInv, lock # Free, NEW d, d = Landed(disk, lock)
    PROVE  /\ d.answers[lock.n] \in {<<>>, <<lock.code>>}
           /\ disk.torn = {} => /\ d.torn = {}
                                /\ lock.file # "sent" => d.answers[lock.n] = <<lock.code>>
<1>1. lock.n \in Lines /\ disk.answers[lock.n] = <<>> /\ disk \in DiskType /\ disk.answers \in [Lines -> Seq(Codes)]
  BY LockedLine DEF IInv, Typed, DiskType
<1>2. CASE lock.file \in disk.torn \/ lock.file = "sent"
  BY ZenonT(30), <1>1, <1>2 DEF Landed, DiskType
<1>3. CASE lock.file \notin disk.torn /\ lock.file # "sent"
  <2>1. d = [disk EXCEPT !.answers[lock.n] = Append(@, lock.code)]
    BY <1>3 DEF Landed
  <2>2. Append(<<>>, lock.code) = <<lock.code>>
    OBVIOUS
  <2>3. d.answers[lock.n] = <<lock.code>> /\ d.torn = disk.torn
    BY SMTT(20), <1>1, <2>1, <2>2 DEF DiskType
  <2> QED BY <2>3
<1> QED BY ZenonT(30), <1>2, <1>3

\* What the directory says stays said: marks are kept, and so are results; a
\* result that is new is the one that was being written.
LEMMA DiskGrows ==
    ASSUME IInv, [Next]_vars
    PROVE  /\ disk.sent \subseteq disk'.sent
           /\ \A n \in Lines : disk'.answers[n] = disk.answers[n]
                               \/ (lock # Free /\ n = lock.n /\ lock.file # "sent" /\ disk'.answers[n] = <<lock.code>>)
<1>1. disk \in DiskType
  BY DEF IInv, Typed
<1>2. CASE disk' = disk
  BY <1>2
<1>3. CASE disk' = RepairTail(disk)
  BY ZenonT(30), <1>1, <1>3 DEF RepairTail, DiskType
<1>4. CASE disk' = CutShort(disk, lock)
  BY ZenonT(30), <1>4, CutFacts
<1>5. CASE lock # Free /\ disk' = Landed(disk, lock)
  <2>1. lock.n \in Lines /\ disk.answers[lock.n] = <<>>
    BY ZenonT(30), <1>5, LockedLine
  <2> QED BY ZenonT(30), <1>5, <2>1, LandedFacts, LandedAnswer
<1> QED BY ZenonT(30), <1>2, <1>3, <1>4, <1>5, DiskStep

-----------------------------------------------------------------------------
(* What the results say *)

\* A result of line n that says c says what happened.
CodeTrue(n, c) ==
    /\ c \in {"ok", "error"} => received[n] = 1
    /\ c = "invalid_request" => received[n] = 0
    /\ c \in {"interrupted", "cancelled"} => n \in disk.sent

WorkerTrue(w) ==
    /\ wk[w].pc = "flight" => received[wk[w].n] = 1
    /\ wk[w].pc \in {"answer", "write"} => CodeTrue(wk[w].n, wk[w].code)

\* What is written, and what is about to be, is true; what a run settles was
\* marked.
AnswersInv ==
    /\ \A n \in Lines : disk.answers[n] # <<>> => CodeTrue(n, disk.answers[n][1])
    /\ \A w \in Workers : WorkerTrue(w)
    /\ run.settle \subseteq disk.sent

\* What is being written is true.
LEMMA LockTrue ==
    ASSUME IInv, AnswersInv, lock # Free, lock.file # "sent"
    PROVE  CodeTrue(lock.n, lock.code)
<1>1. CASE lock.by \in Workers /\ wk[lock.by].pc \in {"mark", "write"}
  <2>1. WorkerSound(lock.by) /\ WorkerTrue(lock.by)
    BY ZenonT(30), <1>1 DEF IInv, AnswersInv
  <2>2. wk[lock.by].pc = "write"
    BY SMTT(20), <1>1, <2>1 DEF WorkerSound, MarkOf
  <2>3. lock.n = wk[lock.by].n /\ lock.code = wk[lock.by].code
    BY <2>1, <2>2 DEF WorkerSound, ResultOf
  <2> QED BY ZenonT(30), <2>1, <2>2, <2>3 DEF WorkerTrue
<1>2. CASE lock.n \in run.settle /\ lock = ResultOf("run", lock.n, "interrupted")
  <2>1. lock.code = "interrupted" /\ lock.n \in disk.sent
    BY SMTT(20), <1>2 DEF ResultOf, AnswersInv
  <2> QED BY <2>1 DEF CodeTrue
<1> QED BY ZenonT(30), <1>1, <1>2 DEF IInv, LockSound

\* A step in which the server gets nothing.
LEMMA TrueKept ==
    ASSUME IInv, AnswersInv, [Next]_vars, UNCHANGED received, run'.settle \subseteq disk.sent,
           \A w \in Workers : WorkerTrue(w)'
    PROVE  AnswersInv'
<1>1. ASSUME NEW n \in Lines, disk'.answers[n] # <<>> PROVE CodeTrue(n, disk.answers[n][1])'
  <2>1. CASE disk'.answers[n] = disk.answers[n]
    <3>1. CodeTrue(n, disk.answers[n][1])
      BY ZenonT(30), <1>1, <2>1 DEF AnswersInv
    <3> QED BY ZenonT(30), <2>1, <3>1, DiskGrows DEF CodeTrue
  <2>2. CASE lock # Free /\ n = lock.n /\ lock.file # "sent" /\ disk'.answers[n] = <<lock.code>>
    <3>1. CodeTrue(n, lock.code) /\ disk'.answers[n][1] = lock.code
      BY SMTT(20), <2>2, LockTrue
    <3> QED BY <3>1, DiskGrows DEF CodeTrue
  <2> QED BY ZenonT(30), <2>1, <2>2, DiskGrows
<1> QED BY ZenonT(30), <1>1, DiskGrows DEF AnswersInv

\* Workers whose line and answer stay as they are.
LEMMA SameWorkers ==
    ASSUME IInv, AnswersInv, [Next]_vars, UNCHANGED received, NEW w \in Workers, wk'[w] = wk[w]
    PROVE  WorkerTrue(w)'
  BY DiskGrows DEF AnswersInv, WorkerTrue, CodeTrue

\* A worker whose step takes its line from p to q, and what the others hold.
LEMMA OneWorker ==
    ASSUME IInv, AnswersInv, [Next]_vars, UNCHANGED received, run'.settle \subseteq disk.sent,
           NEW w \in Workers, \A v \in Workers : v # w => wk'[v] = wk[v], WorkerTrue(w)'
    PROVE  AnswersInv'
<1>1. \A v \in Workers : WorkerTrue(v)'
  BY ZenonT(30), SameWorkers
<1> QED BY <1>1, TrueKept

\* What a request brings back, and what it says of its line.
LEMMA AnswerTrue ==
    ASSUME IInv, AnswersInv, NEW w \in Workers, UNCHANGED <<disk, received>>, NEW code, Answered(w, code),
           CodeTrue(wk[w].n, code)
    PROVE  WorkerTrue(w)' /\ \A v \in Workers : v # w => wk'[v] = wk[v]
<1>1. wk \in [Workers -> WorkerType] /\ wk[w] \in WorkerType
  BY DEF IInv, Typed
<1>2. wk'[w].pc = "answer" /\ wk'[w].code = code /\ wk'[w].n = wk[w].n /\ \A v \in Workers : v # w => wk'[v] = wk[v]
  BY <1>1 DEF Answered, WorkerType
<1> QED BY <1>2 DEF WorkerTrue, CodeTrue

\* Every step keeps the results true.
LEMMA AnswersKeeps ==
    ASSUME IInv, AnswersInv, [Next]_vars
    PROVE  AnswersInv'
<1>1. wk \in [Workers -> WorkerType] /\ received \in [Lines -> Nat] /\ run \in RunType /\ run.settle \subseteq disk.sent
  BY DEF IInv, Typed, AnswersInv
<1>2. ASSUME UNCHANGED <<wk, received>>, run'.settle \subseteq disk.sent PROVE AnswersInv'
  BY <1>2, SameWorkers, TrueKept
<1>3. ASSUME Exit, UNCHANGED received PROVE AnswersInv'
  <2>1. run'.settle = {} /\ \A w \in Workers : wk'[w].pc = "idle"
    BY Zenon, <1>3 DEF Exit, Down, Idle
  <2>2. \A w \in Workers : WorkerTrue(w)'
    BY <2>1 DEF WorkerTrue
  <2> QED BY SMTT(20), <1>3, <2>1, <2>2, TrueKept
<1>4. CASE Open
  <2>1. run'.settle \subseteq disk.sent
    BY <1>4 DEF Open, Down
  <2> QED BY <1>2, <1>4, <2>1 DEF Open
<1>5. CASE SettleEnds
  <2>1. CASE Exit
    BY <1>3, <1>5, <2>1 DEF SettleEnds
  <2>2. CASE UNCHANGED wk /\ run' = [run EXCEPT !.settle = @ \ {lock.n}, !.count = @ + 1]
    <3>1. run'.settle \subseteq disk.sent
      BY Zenon, <1>1, <2>2 DEF RunType
    <3> QED BY <1>2, <1>5, <2>2, <3>1 DEF SettleEnds
  <2> QED BY <1>5, <2>1, <2>2 DEF SettleEnds
<1>6. CASE NotReady \/ Finish
  <2>1. UNCHANGED received /\ (Exit \/ (\E s \in {"completed", "cancelled", "interrupted"} : Hands(s) /\ UNCHANGED wk))
    BY Zenon, <1>6 DEF NotReady, Finish, StoppedAs
  <2>2. ASSUME NEW s, Hands(s) PROVE run'.settle = {}
    BY <2>2 DEF Hands, Down
  <2> QED BY <1>2, <1>3, <2>1, <2>2
<1>7. CASE \E w \in Workers : Offer(w)
  <2>1. PICK w \in Workers : Offer(w)
    BY <1>7
  <2>2. run'.settle = run.settle /\ wk'[w].pc = "taken" /\ \A v \in Workers : v # w => wk'[v] = wk[v]
    BY Zenon, <1>1, <2>1 DEF Offer, RunType
  <2>3. WorkerTrue(w)'
    BY <2>2 DEF WorkerTrue
  <2> QED BY <1>1, <2>1, <2>2, <2>3, OneWorker DEF Offer
<1>8. CASE (\E n \in Lines : Settle(n)) \/ Settled \/ Ready \/ NextLine \/ OfferEnds \/ PutOutput
  <2>1. run'.settle = run.settle /\ UNCHANGED <<wk, received>>
    BY Zenon, <1>1, <1>8 DEF Settle, Settled, Ready, NextLine, OfferEnds, PutOutput, RunType
  <2> QED BY SMTT(20), <1>1, <1>2, <2>1
<1>9. CASE UploadFails \/ PutErrors \/ Kill
  BY <1>3, <1>9 DEF UploadFails, PutErrors, Kill
<1>10. CASE Ask \/ (\E s \in {"int", "term"} : Signal(s)) \/ Judge \/ AbortRequests \/ UNCHANGED vars
  <2>1. run'.settle = run.settle /\ UNCHANGED <<wk, received>>
    BY Zenon, <1>1, <1>10 DEF Ask, Signal, Judge, AbortRequests, RunType, vars
  <2> QED BY <1>1, <1>2, <2>1
<1>11. ASSUME NEW w \in Workers, WorkerStep(w) PROVE AnswersInv'
  <2>1. WorkerSound(w) /\ WorkerTrue(w) /\ wk[w] \in WorkerType
    BY <1>1 DEF IInv, AnswersInv
  <2>2. run'.settle \subseteq disk.sent
    BY Zenon, <1>1, <1>11 DEF WorkerStep, Take, Marked, Deliver, RequestFails, Respond, Write, Written, RunType
  <2>3. ASSUME NEW code, Answered(w, code), CodeTrue(wk[w].n, code), UNCHANGED <<disk, received>> PROVE AnswersInv'
    BY <2>2, <2>3, AnswerTrue, OneWorker
  <2>4. CASE Take(w)
    <3>1. CASE Answered(w, "invalid_request")
      <4>1. CodeTrue(wk[w].n, "invalid_request")
        BY <2>1, <2>4 DEF WorkerSound, Take, CodeTrue
      <4> QED BY <2>3, <2>4, <3>1, <4>1 DEF Take
    <3>2. CASE wk' = [wk EXCEPT ![w].pc = "mark"]
      <4>1. wk'[w].pc = "mark" /\ \A v \in Workers : v # w => wk'[v] = wk[v]
        BY <1>1, <2>1, <3>2 DEF WorkerType
      <4> QED BY <2>2, <2>4, <4>1, OneWorker DEF Take, WorkerTrue
    <3> QED BY <2>4, <3>1, <3>2 DEF Take
  <2>5. CASE Marked(w)
    <3>1. wk'[w].pc = "request" \/ (wk'[w].pc = "answer" /\ wk'[w].code = "request_failed")
      BY <1>1, <2>1, <2>5 DEF Marked, Answered, WorkerType
    <3>2. \A v \in Workers : v # w => wk'[v] = wk[v]
      BY <1>1, <2>5 DEF Marked, Answered
    <3>3. WorkerTrue(w)'
      BY ZenonT(30), <3>1 DEF WorkerTrue, CodeTrue
    <3> QED BY <2>2, <2>5, <3>2, <3>3, OneWorker DEF Marked
  <2>6. CASE Deliver(w)
    <3>1. PICK n \in Lines : n = wk[w].n
      BY <2>1, <2>6 DEF WorkerSound, Deliver
    <3>2. received[n] = 0 /\ disk.answers[n] = <<>>
      BY <2>1, <2>6, <3>1 DEF WorkerSound, Deliver
    <3>3. received'[n] = 1 /\ (\A m \in Lines : m # n => received'[m] = received[m]) /\ disk' = disk /\ run' = run
      BY <1>1, <2>6, <3>1, <3>2 DEF Deliver
    <3>4. wk'[w].pc = "flight" /\ wk'[w].n = n /\ \A v \in Workers : v # w => wk'[v] = wk[v]
      BY ZenonT(30), <1>1, <2>1, <2>6, <3>1 DEF Deliver, WorkerType
    <3>5. \A m \in Lines : disk.answers[m] # <<>> => CodeTrue(m, disk.answers[m][1])'
      BY SMTT(20), <3>2, <3>3 DEF AnswersInv, CodeTrue
    <3>6. ASSUME NEW v \in Workers, v # w PROVE WorkerTrue(v)'
      <4>1. CASE wk[v].pc = "idle"
        BY ZenonT(30), <3>4, <3>6, <4>1 DEF WorkerTrue
      <4>2. CASE wk[v].pc # "idle"
        <5>1. wk[v].n \in Lines /\ wk[v].n # n /\ WorkerTrue(v)
          BY ZenonT(30), <2>6, <3>1, <3>6, <4>2 DEF IInv, Alone, WorkerSound, AnswersInv, Deliver
        <5> QED BY ZenonT(30), <3>3, <3>4, <3>6, <5>1 DEF WorkerTrue, CodeTrue
      <4> QED BY <4>1, <4>2
    <3>7. WorkerTrue(w)'
      BY <3>3, <3>4 DEF WorkerTrue
    <3> QED BY <1>1, <3>3, <3>5, <3>6, <3>7 DEF AnswersInv
  <2>7. CASE RequestFails(w)
    <3>1. wk[w].n \in disk.sent
      BY Zenon, <2>1, <2>7 DEF RequestFails, WorkerSound
    <3>2. \A c \in {"request_failed", "cancelled", "interrupted"} : CodeTrue(wk[w].n, c)
      BY <3>1 DEF CodeTrue
    <3>3. \E c \in {"request_failed", "cancelled", "interrupted"} : Answered(w, c)
      BY Zenon, <2>7 DEF RequestFails
    <3> QED BY Zenon, <2>3, <2>7, <3>2, <3>3 DEF RequestFails
  <2>8. CASE Respond(w)
    <3>1. \A c \in {"ok", "error", "request_failed"} : CodeTrue(wk[w].n, c)
      BY <2>1, <2>8 DEF Respond, WorkerTrue, CodeTrue
    <3> QED BY ZenonT(30), <2>3, <2>8, <3>1 DEF Respond
  <2>9. CASE Write(w)
    <3>1. wk'[w].pc = "write" /\ wk'[w].n = wk[w].n /\ wk'[w].code = wk[w].code /\ \A v \in Workers : v # w => wk'[v] = wk[v]
      BY <1>1, <2>1, <2>9 DEF Write, WorkerType
    <3>2. WorkerTrue(w)'
      BY <2>1, <2>9, <3>1 DEF WorkerTrue, CodeTrue, Write
    <3> QED BY <2>2, <2>9, <3>1, <3>2, OneWorker DEF Write
  <2>10. CASE Written(w)
    <3>1. wk'[w].pc = "idle" /\ \A v \in Workers : v # w => wk'[v] = wk[v]
      BY <1>1, <2>10 DEF Written, Idle
    <3>2. WorkerTrue(w)'
      BY <3>1 DEF WorkerTrue
    <3> QED BY <2>2, <2>10, <3>1, <3>2, OneWorker DEF Written
  <2> QED BY ZenonT(30), <1>11, <2>4, <2>5, <2>6, <2>7, <2>8, <2>9, <2>10 DEF WorkerStep
<1> QED BY ZenonT(30), <1>4, <1>5, <1>6, <1>7, <1>8, <1>9, <1>10, <1>11 DEF Next, RunStep, Stop

-----------------------------------------------------------------------------
(* The run by itself *)

Running == {"settle", "ready", "next", "offer", "wait"}

\* A line handed out after a stop was on offer before it; the loop that has
\* handed out everything, or was stopped, or could not write, is at its end.
LoopInv ==
    /\ run.late <= 1
    /\ run.ctx = "" \/ run.pc = "offer" => run.late = 0
    /\ run.pc \in {"settle", "ready"} => ~run.failed
    /\ run.pc \in Running => run.state = ""
    /\ run.cancelled => run.ctx # ""
    /\ run.pc = "wait" /\ ~run.failed /\ ~run.cancelled => run.todo = {}

LEMMA LoopKeeps ==
    ASSUME IInv, LoopInv, [Next]_vars
    PROVE  LoopInv'
<1>1. run \in RunType
  BY DEF IInv, Typed
<1>2. ASSUME run' = run PROVE LoopInv'
  BY Zenon, <1>2 DEF LoopInv
<1>0. ASSUME run'.late = 0, run'.failed = FALSE, run'.cancelled = FALSE, run'.pc # "wait", run'.pc \in Running => run'.state = ""
      PROVE  LoopInv'
  <2>1. ~run'.failed /\ ~run'.cancelled
    BY <1>0, Zenon
  <2>2. 0 <= 1
    OBVIOUS
  <2> QED BY <1>0, <2>1, <2>2, Zenon DEF LoopInv
<1>3. CASE Exit
  <2>1. run'.late = 0 /\ run'.failed = FALSE /\ run'.cancelled = FALSE /\ run'.pc = "down"
    BY Zenon, <1>3 DEF Exit, Down
  <2> QED BY Zenon, <1>0, <2>1 DEF Running
<1>4. ASSUME NEW s, Hands(s) PROVE LoopInv'
  <2>1. run'.late = 0 /\ run'.failed = FALSE /\ run'.cancelled = FALSE /\ run'.pc = "putOutput"
    BY <1>4 DEF Hands, Down
  <2> QED BY Zenon, <1>0, <2>1 DEF Running
<1>5. CASE Open
  <2>1. run'.late = 0 /\ run'.failed = FALSE /\ run'.cancelled = FALSE /\ run'.pc = "settle" /\ run'.state = ""
    BY <1>5 DEF Open, Down
  <2> QED BY Zenon, <1>0, <2>1
<1>6. CASE SettleEnds
  <2>1. CASE run' = [run EXCEPT !.settle = @ \ {lock.n}, !.count = @ + 1]
    BY Zenon, <1>1, <2>1 DEF LoopInv, RunType, Running
  <2> QED BY <1>3, <1>6, <2>1 DEF SettleEnds
<1>7. CASE Settled \/ Ready
  BY Zenon, <1>1, <1>7 DEF Settled, Ready, LoopInv, RunType, Running
<1>8. CASE NotReady \/ Finish
  BY ZenonT(30), <1>3, <1>4, <1>8 DEF NotReady, Finish
<1>9. CASE NextLine
  <2>1. CASE run.todo = {} /\ run' = [run EXCEPT !.pc = "wait"]
    BY ZenonT(30), <1>1, <1>9, <2>1 DEF NextLine, LoopInv, RunType, Running
  <2>2. CASE run.ctx # "" /\ run' = [run EXCEPT !.pc = "wait", !.cancelled = TRUE]
    BY ZenonT(30), <1>1, <1>9, <2>2 DEF NextLine, LoopInv, RunType, Running
  <2>3. CASE run.ctx = "" /\ \E n \in run.todo : run' = [run EXCEPT !.pc = "offer", !.line = n]
    BY Zenon, <1>1, <1>9, <2>3 DEF NextLine, LoopInv, RunType, Running
  <2> QED BY Zenon, <1>9, <2>1, <2>2, <2>3 DEF NextLine
<1>10. CASE \E w \in Workers : Offer(w)
  <2> DEFINE late == IF run.ctx = "" THEN 0 ELSE run.late + 1
  <2>1. run.pc = "offer" /\ run' = [run EXCEPT !.pc = "next", !.todo = @ \ {run.line}, !.late = late]
    BY Zenon, <1>1, <1>10 DEF Offer, RunType
  <2>2. run.late = 0
    BY <2>1, Zenon DEF LoopInv
  <2>3. run.late + 1 = 1
    BY <2>2
  <2>4. late = 0 \/ (late = 1 /\ run.ctx # "")
    BY <2>3, Zenon
  <2> HIDE DEF late
  <2>5. 0 \in Nat /\ 1 \in Nat /\ 0 <= 1 /\ 1 <= 1
    OBVIOUS
  <2>6. late \in Nat /\ late <= 1 /\ (run.ctx = "" => late = 0)
    BY <2>4, <2>5, Zenon
  <2> QED BY Zenon, <1>1, <2>1, <2>6 DEF LoopInv, RunType, Running
<1>11. CASE OfferEnds
  BY Zenon, <1>1, <1>11 DEF OfferEnds, LoopInv, RunType, Running
<1>12. CASE PutOutput
  BY Zenon, <1>1, <1>12 DEF PutOutput, LoopInv, RunType, Running
<1>13. CASE UploadFails \/ PutErrors \/ Kill
  BY SMTT(20), <1>3, <1>13 DEF UploadFails, PutErrors, Kill
<1>14. CASE (\E n \in Lines : Settle(n)) \/ Ask \/ UNCHANGED vars
  BY <1>2, <1>14 DEF Settle, Ask, vars
<1>15. CASE (\E s \in {"int", "term"} : Signal(s)) \/ Judge \/ AbortRequests
  BY ZenonT(30), <1>1, <1>15 DEF Signal, Judge, AbortRequests, LoopInv, RunType, Running
<1>16. ASSUME NEW w \in Workers, WorkerStep(w) PROVE LoopInv'
  <2>1. CASE run' = run
    BY <1>2, <2>1
  <2>2. CASE RequestFails(w)
    <3>1. run' = run \/ run' = [run EXCEPT !.noted = @ \/ run.judged = "cancel"]
      BY Zenon, <2>2 DEF RequestFails
    <3> QED BY Zenon, <1>1, <1>2, <3>1 DEF LoopInv, RunType, Running
  <2>3. CASE Written(w)
    <3>1. run.pc \in Sending
      BY <2>3 DEF IInv, WorkerSound, Written
    <3>2. run' = [run EXCEPT !.count = @ + 1] \/ run' = [run EXCEPT !.failed = TRUE]
      BY <2>3 DEF Written
    <3> QED BY Zenon, <1>1, <3>1, <3>2 DEF LoopInv, RunType, Running, Sending
  <2> QED BY <1>16, <2>1, <2>2, <2>3 DEF WorkerStep, Take, Marked, Deliver, Respond, Write
<1> QED BY ZenonT(30), <1>5, <1>6, <1>7, <1>8, <1>9, <1>10, <1>11, <1>12, <1>13, <1>14, <1>15, <1>16 DEF Next, RunStep, Stop

-----------------------------------------------------------------------------
(* Every line is somewhere *)

\* A line is to be handed out or settled, is answered, or has its worker.
Somewhere(n) ==
    \/ n \in run.todo \cup run.settle \cup Finished
    \/ \E w \in Workers : wk[w].pc # "idle" /\ wk[w].n = n

\* A run that could write so far has lost no line, and has counted the
\* results that are in the files.
CoverInv ==
    run.pc \in Running /\ ~run.failed =>
        disk.torn = {} /\ run.count = Cardinality(Finished) /\ \A n \in Lines : Somewhere(n)

LEMMA LinesFinite == IsFiniteSet(Lines) /\ Cardinality(Lines) = Total /\ IsFiniteSet(Finished) /\ Cardinality(Finished) \in Nat
<1>1. Total \in Nat /\ 0 \in Int /\ Total - 1 \in Int
  BY BatchAssumption
<1>2. IsFiniteSet(Lines) /\ Cardinality(Lines) = IF 0 > Total - 1 THEN 0 ELSE (Total - 1) - 0 + 1
  BY <1>1, FS_Interval DEF Lines
<1>3. Finished \subseteq Lines
  BY DEF Finished
<1> QED BY <1>1, <1>2, <1>3, FS_Subset, FS_CardinalityType

\* A batch with as many results as lines has one for every line.
LEMMA AllCounted ==
    ASSUME Cardinality(Finished) >= Total
    PROVE  \A n \in Lines : disk.answers[n] # <<>>
<1>1. Finished \subseteq Lines
  BY DEF Finished
<1>2. Cardinality(Finished) <= Cardinality(Lines) /\ (Cardinality(Lines) = Cardinality(Finished) => Lines = Finished)
  BY <1>1, LinesFinite, FS_Subset
<1>3. Lines = Finished
  BY SMTT(20), <1>2, LinesFinite, BatchAssumption
<1> QED BY <1>3 DEF Finished

\* A result that is written whole adds its line to those that are answered.
LEMMA FinishedGrows ==
    ASSUME IInv, lock # Free, lock.file # "sent", disk.torn = {}, disk' = Landed(disk, lock)
    PROVE  disk'.torn = {} /\ Finished' = Finished \cup {lock.n} /\ Cardinality(Finished') = Cardinality(Finished) + 1
<1>1. lock.n \in Lines /\ disk.answers[lock.n] = <<>> /\ disk'.torn = {} /\ disk'.answers[lock.n] = <<lock.code>>
  BY ZenonT(30), LockedLine, LandedAnswer
<1>2. \A n \in Lines : n # lock.n => disk'.answers[n] = disk.answers[n]
  BY LandedFacts
<1>3. <<lock.code>> # <<>>
  BY ZenonT(30)
<1>4. Finished' = Finished \cup {lock.n} /\ lock.n \notin Finished
  BY ZenonT(30), <1>1, <1>2, <1>3 DEF Finished
<1> QED BY Zenon, <1>1, <1>4, LinesFinite, FS_AddElement

\* A step that writes nothing, and takes no line from where it is.
LEMMA CoverSame ==
    ASSUME IInv, CoverInv, UNCHANGED disk, run'.count = run.count,
           run'.pc \in Running => run.pc \in Running /\ run.todo \cup run.settle = run'.todo \cup run'.settle,
           run.failed => run'.failed,
           \A w \in Workers : wk[w].pc # "idle" => wk'[w].pc # "idle" /\ wk'[w].n = wk[w].n
    PROVE  CoverInv'
<1>1. Finished' = Finished
  BY ZenonT(30) DEF Finished
<1> SUFFICES ASSUME run'.pc \in Running, ~run'.failed
             PROVE  disk'.torn = {} /\ run'.count = Cardinality(Finished') /\ \A n \in Lines : Somewhere(n)'
  BY ZenonT(30) DEF CoverInv
<1>2. disk.torn = {} /\ run.count = Cardinality(Finished) /\ \A n \in Lines : Somewhere(n)
  BY ZenonT(30) DEF CoverInv
<1>3. ASSUME NEW n \in Lines PROVE Somewhere(n)'
  <2>1. Somewhere(n)
    BY ZenonT(30), <1>2
  <2> QED BY ZenonT(30), <1>1, <2>1 DEF Somewhere
<1> QED BY ZenonT(30), <1>1, <1>2, <1>3

\* A run that ended, or that could not write.
LEMMA CoverOver ==
    ASSUME run'.pc \notin Running \/ run'.failed
    PROVE  CoverInv'
  BY DEF CoverInv

\* The directory is repaired and read: what is not answered is settled, if it
\* was marked, and handed out otherwise.
LEMMA OpenCovers ==
    ASSUME IInv, Open
    PROVE  CoverInv'
<1>1. disk \in DiskType /\ disk' = RepairTail(disk)
  BY DEF IInv, Typed, Open
<1>2. disk'.torn = {} /\ disk'.answers = disk.answers
  BY <1>1 DEF RepairTail, DiskType
<1>3. Finished' = Finished
  BY <1>2 DEF Finished
<1>4. run'.todo = Lines \ (disk.sent \cup Finished) /\ run'.settle = disk.sent \ Finished /\ run'.count = Cardinality(Finished)
  BY DEF Open, Down
<1>5. \A n \in Lines : Somewhere(n)'
  BY <1>3, <1>4 DEF Somewhere
<1> QED BY ZenonT(30), <1>2, <1>3, <1>4, <1>5 DEF CoverInv

\* A line left in flight is answered.
LEMMA SettleEndsCovers ==
    ASSUME IInv, CoverInv, LoopInv, SettleEnds
    PROVE  CoverInv'
<1>1. CASE Exit
  <2>1. run'.pc = "down"
    BY ZenonT(30), <1>1 DEF Exit, Down
  <2> QED BY SMTT(20), <2>1, CoverOver DEF Running
<1>2. CASE WriteOK /\ run' = [run EXCEPT !.settle = @ \ {lock.n}, !.count = @ + 1] /\ UNCHANGED wk
  <2>1. lock # Free /\ lock.by \notin Workers
    BY BatchAssumption DEF SettleEnds, Free
  <2>2. run.pc = "settle" /\ lock = ResultOf("run", lock.n, "interrupted")
    BY <2>1 DEF IInv, LockSound
  <2>3. lock.file # "sent"
    BY SMTT(20), <2>2 DEF ResultOf, FileOf
  <2>4. ~run.failed /\ run \in RunType
    BY Zenon, <2>2 DEF LoopInv, IInv, Typed
  <2>5. disk.torn = {} /\ run.count = Cardinality(Finished) /\ \A n \in Lines : Somewhere(n)
    BY <2>2, <2>4 DEF CoverInv, Running
  <2>6. disk'.torn = {} /\ Finished' = Finished \cup {lock.n} /\ Cardinality(Finished') = Cardinality(Finished) + 1
    BY ZenonT(30), <1>2, <2>1, <2>3, <2>5, FinishedGrows DEF WriteOK
  <2>7. run'.todo = run.todo /\ run'.settle = run.settle \ {lock.n} /\ run'.count = run.count + 1
    BY Zenon, <1>2, <2>4 DEF RunType
  <2>8. ASSUME NEW n \in Lines PROVE Somewhere(n)'
    <3>1. Somewhere(n)
      BY ZenonT(30), <2>5
    <3> QED BY ZenonT(30), <1>2, <2>6, <2>7, <3>1 DEF Somewhere
  <2> QED BY ZenonT(30), <2>5, <2>6, <2>7, <2>8 DEF CoverInv
<1> QED BY <1>1, <1>2 DEF SettleEnds

\* A line is handed out.
LEMMA OfferCovers ==
    ASSUME IInv, CoverInv, NEW w \in Workers, Offer(w)
    PROVE  CoverInv'
<1>1. run \in RunType /\ wk \in [Workers -> WorkerType] /\ run.line \in run.todo /\ run.pc \in Running
  BY DEF IInv, Typed, RunSound, Offer, Running
<1>2. /\ run'.todo = run.todo \ {run.line} /\ run'.settle = run.settle
      /\ run'.count = run.count /\ run'.failed = run.failed /\ disk' = disk
  BY Zenon, <1>1 DEF Offer, RunType
<1>3. wk'[w].pc = "taken" /\ wk'[w].n = run.line /\ \A v \in Workers : v # w => wk'[v] = wk[v]
  BY <1>1 DEF Offer
<1>4. Finished' = Finished
  BY ZenonT(30), <1>2 DEF Finished
<1> SUFFICES ASSUME ~run'.failed PROVE disk'.torn = {} /\ run'.count = Cardinality(Finished') /\ \A n \in Lines : Somewhere(n)'
  BY ZenonT(30) DEF CoverInv
<1>5. disk.torn = {} /\ run.count = Cardinality(Finished) /\ \A n \in Lines : Somewhere(n)
  BY ZenonT(30), <1>1, <1>2 DEF CoverInv
<1>6. ASSUME NEW n \in Lines PROVE Somewhere(n)'
  <2>1. CASE n = run.line
    BY ZenonT(30), <1>3, <2>1 DEF Somewhere
  <2>2. CASE n # run.line
    <3>1. Somewhere(n) /\ wk[w].pc = "idle"
      BY ZenonT(30), <1>5 DEF Offer
    <3> QED BY ZenonT(30), <1>2, <1>3, <1>4, <2>2, <3>1 DEF Somewhere
  <2> QED BY ZenonT(30), <2>1, <2>2
<1> QED BY ZenonT(30), <1>2, <1>4, <1>5, <1>6

\* A mark is written: no result is touched.
LEMMA MarkedCovers ==
    ASSUME IInv, WholeMarks, CoverInv, NEW w \in Workers, Marked(w)
    PROVE  CoverInv'
<1>1. wk \in [Workers -> WorkerType] /\ wk[w] \in WorkerType /\ WorkerSound(w) /\ run' = run
  BY DEF IInv, Typed, Marked
<1>2. lock = MarkOf(w, wk[w].n) /\ lock # Free /\ lock.file = "sent"
  BY <1>1, BatchAssumption DEF WorkerSound, Marked, MarkOf, Free
<1>3. disk'.answers = disk.answers
  BY ZenonT(30), <1>2, WriteFacts DEF Marked
<1>4. disk.torn = {} => disk'.torn = {}
  <2>1. disk' = disk \/ disk' = Landed(disk, lock)
    BY <1>2 DEF Marked, WriteOK, WriteFails, WholeMarks, Fault
  <2> QED BY <1>2, <2>1, LandedAnswer
<1>5. Finished' = Finished
  BY <1>3 DEF Finished
<1>6. wk'[w].pc # "idle" /\ wk'[w].n = wk[w].n /\ \A v \in Workers : v # w => wk'[v] = wk[v]
  BY SMTT(20), <1>1 DEF Marked, Answered, WorkerType
<1>7. ASSUME NEW n \in Lines, Somewhere(n) PROVE Somewhere(n)'
  BY <1>1, <1>5, <1>6, <1>7 DEF Somewhere
<1> QED BY ZenonT(30), <1>1, <1>4, <1>5, <1>7 DEF CoverInv

\* A result is written, or the run knows that it could not be.
LEMMA WrittenCovers ==
    ASSUME IInv, CoverInv, NEW w \in Workers, Written(w)
    PROVE  CoverInv'
<1>1. wk \in [Workers -> WorkerType] /\ WorkerSound(w) /\ run \in RunType
  BY DEF IInv, Typed
<1>2. lock = ResultOf(w, wk[w].n, wk[w].code) /\ run.pc \in Running
  BY ZenonT(30), <1>1 DEF WorkerSound, Written, Sending, Running
<1>3. lock # Free /\ lock.file # "sent" /\ lock.n = wk[w].n
  BY <1>2, BatchAssumption DEF ResultOf, FileOf, Free
<1>4. wk'[w].pc = "idle" /\ \A v \in Workers : v # w => wk'[v] = wk[v]
  BY <1>1 DEF Written, Idle
<1>5. CASE WriteFails /\ run' = [run EXCEPT !.failed = TRUE]
  <2>1. run'.failed
    BY ZenonT(30), <1>1, <1>5 DEF RunType
  <2> QED BY <2>1, CoverOver
<1>6. CASE WriteOK /\ run' = [run EXCEPT !.count = @ + 1]
  <2>1. run'.count = run.count + 1 /\ run'.todo = run.todo /\ run'.settle = run.settle /\ run'.failed = run.failed
    BY ZenonT(30), <1>1, <1>6 DEF RunType
  <2> SUFFICES ASSUME ~run'.failed PROVE disk'.torn = {} /\ run'.count = Cardinality(Finished') /\ \A n \in Lines : Somewhere(n)'
    BY DEF CoverInv
  <2>2. disk.torn = {} /\ run.count = Cardinality(Finished) /\ \A n \in Lines : Somewhere(n)
    BY Zenon, <1>2, <2>1 DEF CoverInv
  <2>3. disk'.torn = {} /\ Finished' = Finished \cup {wk[w].n} /\ Cardinality(Finished') = Cardinality(Finished) + 1
    BY ZenonT(30), <1>3, <1>6, <2>2, FinishedGrows DEF WriteOK
  <2>4. ASSUME NEW n \in Lines PROVE Somewhere(n)'
    <3>1. Somewhere(n)
      BY <2>2
    <3> QED BY ZenonT(30), <1>4, <2>1, <2>3, <3>1 DEF Somewhere
  <2> QED BY Zenon, <2>1, <2>2, <2>3, <2>4
<1> QED BY <1>5, <1>6 DEF Written

LEMMA CoverKeeps ==
    ASSUME IInv, WholeMarks, CoverInv, LoopInv, [Next]_vars
    PROVE  CoverInv'
<1>1. run \in RunType /\ wk \in [Workers -> WorkerType]
  BY ZenonT(30) DEF IInv, Typed
<1>2. ASSUME UNCHANGED <<disk, wk>>, run'.count = run.count, run'.failed = run.failed, run'.todo = run.todo,
             run'.settle = run.settle, run'.pc \in Running => run.pc \in Running
      PROVE  CoverInv'
  BY <1>2, CoverSame
<1>3. CASE Exit
  <2>1. run'.pc = "down"
    BY Zenon, <1>3 DEF Exit, Down
  <2> QED BY SMTT(20), <2>1, CoverOver DEF Running
<1>4. ASSUME NEW s, Hands(s) PROVE CoverInv'
  <2>1. run'.pc = "putOutput"
    BY SMTT(20), <1>4 DEF Hands, Down
  <2> QED BY <2>1, CoverOver DEF Running
<1>5. CASE (\E n \in Lines : Settle(n)) \/ Ask \/ UNCHANGED vars
  BY ZenonT(30), <1>2, <1>5 DEF Settle, Ask, vars
<1>6. CASE Settled \/ Ready \/ NextLine \/ OfferEnds
  <2>1. UNCHANGED <<disk, wk>> /\ run.pc \in Running
    BY ZenonT(30), <1>6 DEF Settled, Ready, NextLine, OfferEnds, Running
  <2>2. run'.count = run.count /\ run'.failed = run.failed /\ run'.todo = run.todo /\ run'.settle = run.settle
    BY Zenon, <1>1, <1>6 DEF Settled, Ready, NextLine, OfferEnds, RunType
  <2> QED BY SMTT(20), <1>2, <2>1, <2>2
<1>7. CASE NotReady \/ Finish
  BY Zenon, <1>3, <1>4, <1>7 DEF NotReady, Finish
<1>8. CASE PutOutput
  <2>1. run'.pc = "putErrors"
    BY Zenon, <1>1, <1>8 DEF PutOutput, RunType
  <2> QED BY <2>1, CoverOver DEF Running
<1>9. CASE UploadFails \/ PutErrors \/ Kill
  BY <1>3, <1>9 DEF UploadFails, PutErrors, Kill
<1>10. CASE (\E s \in {"int", "term"} : Signal(s)) \/ Judge \/ AbortRequests
  <2>1. UNCHANGED <<disk, wk>> /\ run.pc \in Running
    BY Zenon, <1>10 DEF Signal, Judge, AbortRequests, Running
  <2>2. run'.count = run.count /\ run'.failed = run.failed /\ run'.todo = run.todo /\ run'.settle = run.settle
    BY Zenon, <1>1, <1>10 DEF Signal, Judge, AbortRequests, RunType
  <2> QED BY <1>2, <2>1, <2>2
<1>11. ASSUME NEW w \in Workers, WorkerStep(w) PROVE CoverInv'
  <2>1. ASSUME \/ Take(w) \/ Deliver(w) \/ RequestFails(w) \/ Respond(w) \/ Write(w)  PROVE CoverInv'
    <3>1. wk[w] \in WorkerType
      BY ZenonT(30), <1>1
    <3>2. wk'[w].pc # "idle" /\ wk'[w].n = wk[w].n /\ \A v \in Workers : v # w => wk'[v] = wk[v]
      <4>1. ASSUME NEW c, Answered(w, c) PROVE wk'[w].pc # "idle" /\ wk'[w].n = wk[w].n /\ \A v \in Workers : v # w => wk'[v] = wk[v]
        BY ZenonT(30), <1>1, <3>1, <4>1 DEF Answered, WorkerType
      <4>2. CASE RequestFails(w)
        <5>1. \E c \in {"request_failed", "cancelled", "interrupted"} : Answered(w, c)
          BY Zenon, <4>2 DEF RequestFails
        <5> QED BY <4>1, <5>1
      <4>3. CASE Respond(w)
        BY <4>1, <4>3 DEF Respond
      <4>4. CASE Take(w) \/ Deliver(w) \/ Write(w)
        BY SMTT(20), <1>1, <3>1, <4>1, <4>4 DEF Take, Deliver, Write, WorkerType
      <4> QED BY <2>1, <4>2, <4>3, <4>4
    <3>3. disk' = disk /\ (run' = run \/ run' = [run EXCEPT !.noted = @ \/ run.judged = "cancel"])
      <4>1. CASE RequestFails(w)
        BY <4>1, Zenon DEF RequestFails
      <4> QED BY <2>1, <4>1 DEF Take, Deliver, Respond, Write
    <3>4. /\ run'.count = run.count /\ run'.failed = run.failed /\ run'.todo = run.todo
          /\ run'.settle = run.settle /\ run'.pc = run.pc
      BY Zenon, <1>1, <3>3 DEF RunType
    <3> QED BY SMTT(20), <3>2, <3>3, <3>4, CoverSame
  <2> QED BY <1>11, <2>1, MarkedCovers, WrittenCovers DEF WorkerStep
<1> QED BY ZenonT(30), <1>5, <1>6, <1>7, <1>8, <1>9, <1>10, <1>11, OpenCovers, SettleEndsCovers, OfferCovers DEF Next, RunStep, Stop

-----------------------------------------------------------------------------
(* How a batch ends *)

AllAnswered == \A n \in Lines : disk.answers[n] # <<>>

\* A run that calls itself completed has answered everything; what was put is
\* what the directory holds, from the first file put until the batch is over.
EndInv ==
    /\ DOMAIN put = ResultFiles
    /\ run.state = "completed" \/ ended = "completed" => AllAnswered
    /\ ended # "no" => run.pc = "down" /\ \A f \in ResultFiles : put[f] = Content(f)
    /\ run.pc = "putErrors" => put["output"] = Content("output")

\* Without a run that sends, nothing is written and no worker is busy.
LEMMA NothingWritten ==
    ASSUME IInv, run.pc \notin Running
    PROVE  lock = Free /\ \A w \in Workers : wk[w].pc = "idle"
<1>1. \A w \in Workers : wk[w].pc = "idle"
  BY DEF IInv, WorkerSound, Sending, Running
<1> QED BY ZenonT(30), <1>1 DEF IInv, LockSound, Running

LEMMA AnswersStand ==
    ASSUME IInv, run.pc \notin Running, [Next]_vars
    PROVE  disk'.answers = disk.answers /\ (AllAnswered => AllAnswered') /\ \A f \in ResultFiles : Content(f)' = Content(f)
<1>1. disk' = disk \/ disk' = RepairTail(disk)
  BY DiskStep, NothingWritten
<1>2. disk'.answers = disk.answers
  BY <1>1 DEF RepairTail, IInv, Typed, DiskType
<1>3. \A f \in ResultFiles : Content(f)' = Content(f)
  BY <1>2 DEF Content
<1> QED BY <1>2, <1>3 DEF AllAnswered

\* A batch that is over stays as it is.
LEMMA OverStays ==
    ASSUME IInv, run.pc = "down", ended # "no", [Next]_vars
    PROVE  UNCHANGED <<run, put, ended>>
<1>1. lock = Free /\ \A w \in Workers : wk[w].pc = "idle"
  BY SMTT(20), NothingWritten DEF Running
<1>2. lock.by # "run"
  BY <1>1 DEF Free
<1>3. ASSUME NEW w \in Workers, WorkerStep(w) PROVE FALSE
  BY Zenon, <1>1, <1>3 DEF WorkerStep, Take, Marked, Deliver, RequestFails, Respond, Write, Written
<1>4. ~RunStep
  BY <1>2 DEF RunStep, Open, Settle, SettleEnds, Settled, Ready, NotReady, NextLine, Offer, OfferEnds, Finish, UploadFails,
              PutOutput, PutErrors
<1>5. ~Stop
  BY DEF Stop, Ask, Signal, Judge, AbortRequests, Kill
<1> QED BY SMTT(20), <1>3, <1>4, <1>5 DEF Next, vars

\* A run that hands over as completed, at its end or when a stop found nothing
\* left to send, has a result for every line.
LEMMA CompletedCovers ==
    ASSUME IInv, CoverInv, LoopInv, NotReady \/ Finish, run'.state = "completed"
    PROVE  AllAnswered
<1>1. run \in RunType
  BY DEF IInv, Typed
<1>2. ASSUME Exit PROVE FALSE
  <2>1. run'.state = ""
    BY Zenon, <1>2 DEF Exit, Down
  <2> QED BY Zenon, <2>1
<1>3. run.pc \in Running /\ ~run.failed
  BY ZenonT(30), <1>2 DEF NotReady, Finish, LoopInv, Running
<1>4. run.count = Cardinality(Finished) /\ \A n \in Lines : Somewhere(n)
  BY SMTT(20), <1>3 DEF CoverInv
<1>5. ASSUME ~(run.count < Total) PROVE AllAnswered
  <2>1. Cardinality(Finished) >= Total
    BY SMTT(20), <1>4, <1>5, LinesFinite, BatchAssumption
  <2> QED BY SMTT(20), <2>1, AllCounted DEF AllAnswered
<1>6. ASSUME NEW s, Hands(s) PROVE s = "completed"
  <2>1. run'.state = s
    BY <1>6 DEF Hands, Down
  <2> QED BY <2>1
<1>7. CASE NotReady
  <2>1. PICK v \in {"cancel", "interruption"} : Hands(StoppedAs(v, TRUE))
    BY Zenon, <1>2, <1>7 DEF NotReady, Verdicts
  <2>2. StoppedAs(v, TRUE) = "completed"
    BY Zenon, <1>6, <2>1
  <2>3. ~(run.count < Total)
    BY <2>2 DEF StoppedAs
  <2> QED BY <1>5, <2>3
<1>8. CASE Finish
  <2>1. run.pc = "wait" /\ run.settle = {} /\ \A w \in Workers : wk[w].pc = "idle"
    BY Zenon, <1>8 DEF Finish, IInv, RunSound
  <2>2. ASSUME ~run.cancelled PROVE AllAnswered
    <3>1. run.todo = {}
      BY Zenon, <1>3, <2>1, <2>2 DEF LoopInv
    <3> QED BY SMTT(20), <1>4, <2>1, <3>1 DEF Somewhere, AllAnswered, Finished
  <2>3. CASE run.ctx = ""
    BY Zenon, <2>2, <2>3 DEF LoopInv
  <2>4. CASE run.ctx # ""
    <3>1. run.judged \in {"cancel", "interruption"}
      BY Zenon, <1>1, <1>8, <2>4 DEF Finish, RunType
    <3>2. Hands(StoppedAs(run.judged, run.cancelled \/ run.noted))
      BY Zenon, <1>3, <1>8, <2>4 DEF Finish
    <3>3. StoppedAs(run.judged, run.cancelled \/ run.noted) = "completed"
      BY <1>6, <3>2
    <3>4. ~run.cancelled \/ ~(run.count < Total)
      BY ZenonT(30), <3>1, <3>3 DEF StoppedAs
    <3> QED BY <1>5, <2>2, <3>4
  <2> QED BY Zenon, <2>3, <2>4
<1> QED BY <1>7, <1>8

LEMMA EndKeepsTrue ==
    ASSUME IInv, CoverInv, LoopInv, EndInv, [Next]_vars
    PROVE  EndInv'
<1>1. run \in RunType
  BY DEF IInv, Typed
<1>2. CASE ended # "no"
  <2>1. run.pc = "down"
    BY <1>2 DEF EndInv
  <2>2. UNCHANGED <<run, put, ended>> /\ run.pc \notin Running
    BY ZenonT(30), <1>2, <2>1, OverStays DEF Running
  <2>3. AllAnswered => AllAnswered'
    BY ZenonT(30), <2>2, AnswersStand
  <2>4. \A f \in ResultFiles : Content(f)' = Content(f)
    BY SMTT(20), <2>2, AnswersStand
  <2> QED BY ZenonT(30), <1>2, <2>1, <2>2, <2>3, <2>4 DEF EndInv
<1>3. CASE ended = "no" /\ PutErrors
  <2>1. run.pc \notin Running /\ put["output"] = Content("output") /\ DOMAIN put = ResultFiles
    BY ZenonT(30), <1>3 DEF PutErrors, EndInv, Running
  <2>2. put'["errors"] = Content("errors") /\ put'["output"] = put["output"] /\ DOMAIN put' = ResultFiles
    BY ZenonT(30), <1>3, <2>1 DEF PutErrors, ResultFiles
  <2>3. \A f \in ResultFiles : put'[f] = Content(f)'
    BY ZenonT(30), <2>1, <2>2, AnswersStand DEF ResultFiles
  <2>4. run'.pc = "down" /\ run'.state = ""
    BY Zenon, <1>3 DEF PutErrors, Exit, Down
  <2>5. ended' = "completed" => AllAnswered'
    BY ZenonT(30), <1>3, <2>1, AnswersStand DEF PutErrors, EndInv
  <2> QED BY Zenon, <2>2, <2>3, <2>4, <2>5 DEF EndInv
<1>4. CASE ended = "no" /\ PutOutput
  <2>1. run.pc \notin Running /\ DOMAIN put = ResultFiles
    BY <1>4 DEF PutOutput, EndInv, Running
  <2>2. put'["output"] = Content("output") /\ DOMAIN put' = ResultFiles /\ ended' = ended
    BY <1>4, <2>1 DEF PutOutput, ResultFiles
  <2>3. run'.pc = "putErrors" /\ run'.state = run.state
    BY Zenon, <1>1, <1>4 DEF PutOutput, RunType
  <2>4. put'["output"] = Content("output")'
    BY ZenonT(30), <2>1, <2>2, AnswersStand DEF ResultFiles
  <2> QED BY ZenonT(30), <1>4, <2>1, <2>2, <2>3, <2>4, AnswersStand DEF EndInv
<1>5. CASE ended = "no" /\ ~PutErrors /\ ~PutOutput
  <2>1. put' = put /\ ended' = ended
    BY Zenon, <1>5 DEF Next, RunStep, WorkerStep, Stop, Open, Settle, SettleEnds, Settled, Ready, NotReady, NextLine, Offer, OfferEnds,
                Finish, UploadFails, Take, Marked, Deliver, RequestFails, Respond, Write, Written, Ask, Signal, Judge,
                AbortRequests, Kill, vars
  <2>2. ASSUME run'.pc # "putErrors", run'.state # "completed" PROVE EndInv'
    BY <1>5, <2>1, <2>2 DEF EndInv
  <2>3. CASE Exit
    <3>1. run'.pc = "down" /\ run'.state = ""
      BY Zenon, <2>3 DEF Exit, Down
    <3> QED BY Zenon, <2>2, <3>1
  <2>4. CASE NotReady \/ Finish
    <3>1. UNCHANGED disk
      BY Zenon, <2>4 DEF NotReady, Finish
    <3>2. run'.pc # "putErrors"
      <4>1. Exit \/ \E t \in {"completed", "cancelled", "interrupted"} : Hands(t)
        BY Zenon, <2>4 DEF NotReady, Finish, StoppedAs
      <4>2. ASSUME Exit PROVE run'.pc = "down"
        BY Zenon, <4>2 DEF Exit, Down
      <4>3. ASSUME NEW t, Hands(t) PROVE run'.pc = "putOutput"
        BY ZenonT(30), <4>3 DEF Hands, Down
      <4> QED BY ZenonT(30), <4>1, <4>2, <4>3
    <3>3. run'.state = "completed" => AllAnswered'
      BY <2>4, <3>1, CompletedCovers DEF AllAnswered
    <3> QED BY ZenonT(30), <1>5, <2>1, <3>2, <3>3 DEF EndInv
  <2>5. CASE Open
    <3>1. run'.pc = "settle" /\ run'.state = ""
      BY ZenonT(30), <2>5 DEF Open, Down
    <3> QED BY Zenon, <2>2, <3>1
  <2>6. CASE run' = run /\ run.pc \notin Running
    BY ZenonT(30), <1>5, <2>1, <2>6, AnswersStand DEF EndInv, ResultFiles
  <2>7. CASE run'.pc \in Running /\ run.pc \in Running
    <3>1. run'.state = ""
      BY Zenon, <2>7, LoopKeeps DEF LoopInv
    <3> QED BY Zenon, <2>2, <2>7, <3>1 DEF Running
  <2>8. Exit \/ NotReady \/ Finish \/ Open \/ (run' = run /\ run.pc \notin Running) \/ (run'.pc \in Running /\ run.pc \in Running)
    <3>1. CASE RunStep
      <4>1. CASE SettleEnds
        <5>1. lock # Free
          BY <4>1 DEF SettleEnds, Free
        <5>2. run.pc \in Running
          BY <5>1, NothingWritten
        <5>3. CASE run' = [run EXCEPT !.settle = @ \ {lock.n}, !.count = @ + 1]
          BY ZenonT(30), <1>1, <5>2, <5>3 DEF RunType
        <5> QED BY <4>1, <5>2, <5>3 DEF SettleEnds
      <4>2. CASE (\E n \in Lines : Settle(n)) \/ Settled \/ Ready \/ NextLine \/ (\E w \in Workers : Offer(w)) \/ OfferEnds
        BY Zenon, <1>1, <4>2 DEF Settle, Settled, Ready, NextLine, Offer, OfferEnds, RunType, Running
      <4> QED BY <1>5, <3>1, <4>1, <4>2 DEF RunStep, UploadFails
    <3>2. ASSUME NEW w \in Workers, WorkerStep(w) PROVE run'.pc = run.pc /\ run.pc \in Running
      <4>1. wk[w].pc # "idle"
        BY Zenon, <3>2 DEF WorkerStep, Take, Marked, Deliver, RequestFails, Respond, Write, Written
      <4>2. run.pc \in Running
        BY <4>1, NothingWritten
      <4>3. CASE RequestFails(w)
        <5>1. run' = run \/ run' = [run EXCEPT !.noted = @ \/ run.judged = "cancel"]
          BY Zenon, <4>3 DEF RequestFails
        <5> QED BY Zenon, <1>1, <4>2, <5>1 DEF RunType
      <4>4. CASE Written(w)
        BY Zenon, <1>1, <4>2, <4>4 DEF Written, RunType
      <4> QED BY ZenonT(30), <3>2, <4>2, <4>3, <4>4 DEF WorkerStep, Take, Marked, Deliver, Respond, Write
    <3>3. CASE Stop
      <4>1. CASE (\E s \in {"int", "term"} : Signal(s)) \/ Judge \/ AbortRequests
        BY Zenon, <1>1, <4>1 DEF Signal, Judge, AbortRequests, RunType, Running
      <4> QED BY <3>3, <4>1 DEF Stop, Ask, Kill
    <3> QED BY ZenonT(30), <3>1, <3>2, <3>3 DEF Next, vars
  <2> QED BY ZenonT(30), <2>3, <2>4, <2>5, <2>6, <2>7, <2>8
<1> QED BY ZenonT(30), <1>2, <1>3, <1>4, <1>5

-----------------------------------------------------------------------------

FullInv == IInv /\ AnswersInv /\ LoopInv /\ CoverInv /\ EndInv

LEMMA InitFull == Init => FullInv
<1> SUFFICES ASSUME Init PROVE FullInv
  OBVIOUS
<1>1. IInv
  BY SMTT(20), InitHolds
<1>2. run.pc = "down" /\ run.settle = {} /\ run.state = "" /\ run.late = 0 /\ run.cancelled = FALSE /\ ended = "no"
  BY ZenonT(30) DEF Init, Down
<1>3. AnswersInv
  BY Zenon, <1>2 DEF Init, AnswersInv, WorkerTrue, Idle
<1>4. LoopInv
  <2>1. ~run.cancelled
    BY <1>2, Zenon
  <2>2. 0 <= 1
    OBVIOUS
  <2>3. run.pc \notin Running /\ run.pc # "offer" /\ run.pc # "wait" /\ run.pc \notin {"settle", "ready"}
    BY Zenon, <1>2 DEF Running
  <2> QED BY <1>2, <2>1, <2>2, <2>3, Zenon DEF LoopInv
<1>5. CoverInv
  BY ZenonT(30), <1>2 DEF CoverInv, Running
<1>6. EndInv
  BY Zenon, <1>2 DEF EndInv, Init
<1> QED BY ZenonT(30), <1>1, <1>3, <1>4, <1>5, <1>6 DEF FullInv

LEMMA FullKeeps ==
    ASSUME FullInv, WholeMarks, [Next]_vars
    PROVE  FullInv'
  BY NextKeeps, AnswersKeeps, LoopKeeps, CoverKeeps, EndKeepsTrue DEF FullInv

\* "At most once, on purpose": over any number of kills, stops, failed writes
\* and resumed runs, the server gets no line twice (Run, openRecord, markSent)
\* and the result files hold one answer of a line at most, in one file: a
\* resumed run sends only what no run has marked, and answers only what no run
\* has answered.
THEOREM LinesOnceAlways ==
    ASSUME WholeMarks
    PROVE  Spec => []LinesOnce
<1>1. IInv => LinesOnce
  BY DEF IInv, LineSound, LinesOnce, AtMostOnce, OneAnswer
<1>2. IInv /\ [Next]_vars => IInv'
  BY NextKeeps
<1> QED BY InitHolds, <1>1, <1>2, PTL DEF Spec

\* What a batch says of itself is true, over all its runs: a result speaks of
\* the server as it was (send, settle), a batch that ended as completed has a
\* result for every line (Run, ExitCode), a stop lets at most the line on offer
\* through (Run's select), and once the batch is over the result URLs hold what
\* the directory holds (PutResults).
THEOREM BatchAlwaysTrue ==
    ASSUME WholeMarks
    PROVE  Spec => []BatchIsTrue
<1>1. ASSUME FullInv PROVE BatchIsTrue
  <2>1. AnswersAreTrue
    <3> SUFFICES ASSUME NEW n \in Lines, NEW i \in 1..Len(disk.answers[n]) PROVE CodeTrue(n, disk.answers[n][i])
      BY ZenonT(30) DEF AnswersAreTrue, CodeTrue
    <3>1. disk.answers[n] \in Seq(Codes) /\ Len(disk.answers[n]) <= 1
      BY ZenonT(30), <1>1 DEF FullInv, IInv, Typed, DiskType, LineSound
    <3>2. i = 1 /\ disk.answers[n] # <<>>
      BY SMTT(20), <3>1
    <3> QED BY ZenonT(30), <1>1, <3>2 DEF FullInv, AnswersInv
  <2>2. CompletedIsComplete /\ ResultsHandedOver
    BY <1>1 DEF FullInv, EndInv, CompletedIsComplete, ResultsHandedOver, AllAnswered
  <2>3. StopsAtNextLine
    BY <1>1, Zenon DEF FullInv, LoopInv, StopsAtNextLine
  <2> QED BY ZenonT(30), <2>1, <2>2, <2>3 DEF BatchIsTrue
<1>2. FullInv /\ [Next]_vars => FullInv'
  BY FullKeeps
<1> QED BY InitFull, <1>1, <1>2, PTL DEF Spec
=============================================================================
