----------------------------- MODULE WeightShip -----------------------------
(***************************************************************************)
(* A GGUF file brought to every worker of a gang before it is formed: the  *)
(* leader's side (scheduler/hf_download.go, scheduler/gguf_distribute.go)  *)
(* and the worker's two handlers (agent/server.go fileCheck, fileUpload).  *)
(* The leader hashes its file, asks each worker in turn whether it holds   *)
(* that content under the file's name, and sends it where it does not.     *)
(* Several gangs are formed at once, of models whose files have one name;  *)
(* files are replaced, connections cut, replies lost and workers killed in *)
(* between.                                                                *)
(*                                                                         *)
(* A file's content is the sequence of its pieces; equal digests mean      *)
(* equal contents.  There is one name: pushes of others do not meet.       *)
(***************************************************************************)
EXTENDS Integers, Sequences, SequencesExt, FiniteSets

CONSTANTS
  Pushes,       \* ensureGGUFOnAllWorkers calls
  Source,       \* per push, the leader's file it reads
  Workers,      \* a sequence: the gang's workers, in their order
  MayBeBare,    \* workers that may have no models_dir
  Quiet,        \* workers that do not report the path
  Contents,     \* what a leader's file may hold
  MaxFaults     \* kills, cuts, lost replies and replaced files

VARIABLES
  bare,     \* the workers with no models_dir
  local,    \* leader's file -> content, or None
  push,     \* per push: stage, turn, sum, body, at, paths
  disk,     \* worker -> content under the final name, or None
  parts,    \* worker -> temp files: [of, content, dead]
  faults,
  held      \* history: what each worker held when it was reported to the push

vars == <<bare, local, push, disk, parts, faults, held>>

None == <<>>
Files == {Source[p] : p \in Pushes}
Ws == ToSet(Workers)
Node(p) == Workers[push[p].turn]
Fault == faults < MaxFaults /\ faults' = faults + 1

Init ==
  /\ bare \in SUBSET MayBeBare
  /\ local \in [Files -> Contents \cup {None}]
  /\ push = [p \in Pushes |-> [stage |-> "start", turn |-> 1, sum |-> None, body |-> None,
                               at |-> 0, paths |-> [w \in Ws |-> "none"]]]
  /\ disk = [w \in Ws |-> None] /\ parts = [w \in Ws |-> {}]
  /\ faults = 0 /\ held = [p \in Pushes |-> [w \in Ws |-> None]]

Goes(p, stage) == push' = [push EXCEPT ![p].stage = stage]
Temp(p) == {t \in parts[Node(p)] : t.of = p /\ ~t.dead}

-----------------------------------------------------------------------------
(* The leader.                                                             *)

\* ensureLocalGGUF: the file is there, or was fetched (WeightCache); then its
\* digest.
Resolve(p) ==
  /\ push[p].stage = "start"
  /\ push' = [push EXCEPT ![p].stage = IF local[Source[p]] = None THEN "failed" ELSE "check",
                          ![p].sum = local[Source[p]]]
  /\ UNCHANGED <<bare, local, disk, parts, faults, held>>

\* The next worker, or the end.
Reported(p, path) ==
  /\ push' = [push EXCEPT ![p].stage = IF push[p].turn < Len(Workers) THEN "check" ELSE "done",
                          ![p].turn = IF @ < Len(Workers) THEN @ + 1 ELSE @,
                          ![p].paths[Node(p)] = path]
  /\ held' = [held EXCEPT ![p][Node(p)] = disk'[Node(p)]]

PathSaid(p) == IF Node(p) \in Quiet THEN "leaders" ELSE "own"

\* Mutant: a file of that name is taken for the content.
CheckByName(p) ==
  /\ push[p].stage = "check" /\ UNCHANGED <<bare, local, disk, parts, faults>>
  /\ CASE Node(p) \in bare      -> Goes(p, "failed") /\ UNCHANGED held
       [] Node(p) \notin bare /\ disk[Node(p)] # None -> Reported(p, PathSaid(p))
       [] OTHER ->
            /\ push' = [push EXCEPT ![p].stage = IF local[Source[p]] = None THEN "failed" ELSE "upload",
                                    ![p].body = local[Source[p]], ![p].at = 0]
            /\ UNCHANGED held

\* fileCheck, and what ensureGGUFOnNode makes of its answer.  The file is
\* opened for the upload now.
fileCheck(p) ==
  /\ push[p].stage = "check" /\ UNCHANGED <<bare, local, disk, parts, faults>>
  /\ CASE Node(p) \in bare      -> Goes(p, "failed") /\ UNCHANGED held
       [] Node(p) \notin bare /\ disk[Node(p)] = push[p].sum -> Reported(p, PathSaid(p))
       [] OTHER ->
            /\ push' = [push EXCEPT ![p].stage = IF local[Source[p]] = None THEN "failed" ELSE "upload",
                                    ![p].body = local[Source[p]], ![p].at = 0]
            /\ UNCHANGED held

CheckLost(p) ==
  /\ push[p].stage = "check" /\ Fault /\ Goes(p, "failed")
  /\ UNCHANGED <<bare, local, disk, parts, held>>

-----------------------------------------------------------------------------
(* The worker's fileUpload.                                                *)

\* A temp file of the request's own.
Create(p) ==
  /\ push[p].stage = "upload" /\ Goes(p, "copy")
  /\ parts' = [parts EXCEPT ![Node(p)] = @ \cup {[of |-> p, content |-> None, dead |-> FALSE]}]
  /\ UNCHANGED <<bare, local, disk, faults, held>>

\* One more piece of the body into the temp file and the digest.
Copy(p) ==
  /\ push[p].stage = "copy" /\ push[p].at < Len(push[p].body)
  /\ LET n == push[p].at + 1
     IN  /\ push' = [push EXCEPT ![p].at = n]
         /\ parts' = [parts EXCEPT ![Node(p)] = (@ \ Temp(p)) \cup
                        {[t EXCEPT !.content = Append(@, push[p].body[n])] : t \in Temp(p)}]
  /\ UNCHANGED <<bare, local, disk, faults, held>>

\* The digest of what came is compared with the one announced; the temp file
\* takes the name, or goes.
Finish(p) ==
  /\ push[p].stage = "copy" /\ push[p].at = Len(push[p].body)
  /\ parts' = [parts EXCEPT ![Node(p)] = @ \ Temp(p)]
  /\ IF push[p].body # push[p].sum
     THEN Goes(p, "failed") /\ UNCHANGED <<disk, held>>
     ELSE /\ disk' = [disk EXCEPT ![Node(p)] = (CHOOSE t \in Temp(p) : TRUE).content]
          /\ Reported(p, PathSaid(p))
  /\ UNCHANGED <<bare, local, faults>>

\* The file is in place and the answer is lost.
ReplyLost(p) ==
  /\ push[p].stage = "copy" /\ push[p].at = Len(push[p].body) /\ push[p].body = push[p].sum /\ Fault
  /\ parts' = [parts EXCEPT ![Node(p)] = @ \ Temp(p)]
  /\ disk' = [disk EXCEPT ![Node(p)] = (CHOOSE t \in Temp(p) : TRUE).content]
  /\ Goes(p, "failed") /\ UNCHANGED <<bare, local, held>>

\* The connection is cut, the caller leaves, or the disk is full.
Cut(p) ==
  /\ push[p].stage = "copy" /\ Fault
  /\ parts' = [parts EXCEPT ![Node(p)] = @ \ Temp(p)]
  /\ Goes(p, "failed") /\ UNCHANGED <<bare, local, disk, held>>

-----------------------------------------------------------------------------
(* What happens to the files.                                              *)

\* The worker is killed: its uploads end where they are.
Kill(w) ==
  /\ Fault
  /\ parts' = [parts EXCEPT ![w] = {[t EXCEPT !.dead = TRUE] : t \in @}]
  /\ push' = [p \in Pushes |-> IF push[p].stage = "copy" /\ Node(p) = w
                               THEN [push[p] EXCEPT !.stage = "failed"] ELSE push[p]]
  /\ UNCHANGED <<bare, local, disk, held>>

\* The leader's file is replaced, or removed; so is the worker's.
Replace(f, c) ==
  /\ Fault /\ local' = [local EXCEPT ![f] = c] /\ UNCHANGED <<bare, push, disk, parts, held>>
Prune(w) ==
  /\ disk[w] # None /\ Fault /\ disk' = [disk EXCEPT ![w] = None] /\ UNCHANGED <<bare, local, push, parts, held>>

\* The gang is asked for again.
Again(p) ==
  /\ push[p].stage = "failed" /\ Fault
  /\ push' = [push EXCEPT ![p] = [stage |-> "start", turn |-> 1, sum |-> None, body |-> None,
                                  at |-> 0, paths |-> [w \in Ws |-> "none"]]]
  /\ held' = [held EXCEPT ![p] = [w \in Ws |-> None]]
  /\ UNCHANGED <<bare, local, disk, parts>>

Next ==
  \/ \E p \in Pushes :
       Resolve(p) \/ fileCheck(p) \/ CheckLost(p) \/ Create(p) \/ Copy(p) \/ Finish(p)
         \/ ReplyLost(p) \/ Cut(p) \/ Again(p)
  \/ \E w \in Ws : Kill(w) \/ Prune(w)
  \/ \E f \in Files, c \in Contents \cup {None} : Replace(f, c)

Spec == Init /\ [][Next]_vars

-----------------------------------------------------------------------------
(* Properties                                                              *)

\* Whatever is cut, killed, replaced or sent at the same time, a file that has
\* its name on a worker is whole (fileUpload's temp file and its rename); a
\* push that went through reported, for every worker, a path where that worker
\* held the very content the leader hashed, and the worker's own path wherever
\* the worker says it; and a temp file is left behind by a kill alone.
ShippedIsWhole ==
  /\ \A w \in Ws : disk[w] \in Contents \cup {None}
  /\ \A p \in Pushes : push[p].stage = "done" =>
       \A w \in Ws : /\ held[p][w] = push[p].sum
                     /\ push[p].paths[w] = IF w \in Quiet THEN "leaders" ELSE "own"
  /\ \A w \in Ws : \A t \in parts[w] :
       ~t.dead => push[t.of].stage = "copy" /\ Node(t.of) = w
=============================================================================
