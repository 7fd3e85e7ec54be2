------------------------------- MODULE KVTier -------------------------------
(***************************************************************************)
(* The disk tier of an engine's KV cache and the pruner that keeps it under*)
(* its cap (fetch/kvtier.go, `opod cache kv-prune`).  The engine writes a  *)
(* block to a .tmp file and renames it; the pruner lists the directory     *)
(* file by file, decides what to drop, removes it file by file, and comes  *)
(* back soon while the tier grows, later when it rests.  Each works while  *)
(* the other does.                                                         *)
(***************************************************************************)
EXTENDS Integers, FiniteSetsExt, Sequences, SequencesExt

CONSTANTS
  Order,        \* the files there may be, as a walk meets them
  Kind,         \* "bin", "tmp", "config", or "other": not the tier's
  Into,         \* the .bin a .tmp becomes
  Keep,         \* files under the entries named by --keep
  Caps,         \* MaxBytes of a request
  KVTierStaleWrite, Every, Hot,
  MaxTime, MaxWrites, MaxFaults

VARIABLES
  req,       \* max, dry
  disk,      \* file -> there, size, mod
  pass,      \* stage, at, seen, drop, used, freed, removed; history: wrote, took
  left,      \* the bytes the pass before left; -1 = none yet
  due,       \* when the next pass starts
  now, writes, faults

vars == <<req, disk, pass, left, due, now, writes, faults>>

Files == ToSet(Order)
Gone == [there |-> FALSE, size |-> 0, mod |-> 0]
NoPass == [stage |-> "wait", at |-> 1, seen |-> {}, drop |-> <<>>, used |-> 0, freed |-> 0, removed |-> 0,
           wrote |-> 0, took |-> {}]
Bytes(fs, size(_)) == MapThenSumSet(size, fs)

\* The endpoint's directory when the pruner starts: a kept file, one that is
\* not the tier's, and the layout's config.json, beside the blocks it holds.
Init ==
  /\ req \in [max : Caps, dry : BOOLEAN]
  /\ \E held \in SUBSET {f \in Files : Kind[f] = "bin"} :
       disk = [f \in Files |-> IF f \in held \/ Kind[f] \in {"config", "other"}
                               THEN [there |-> TRUE, size |-> 1, mod |-> 0] ELSE Gone]
  /\ pass = NoPass /\ left = -1 /\ due = 0 /\ now = 0 /\ writes = 0 /\ faults = 0

-----------------------------------------------------------------------------
(* The pruner.                                                             *)

Starts ==
  /\ pass.stage = "wait" /\ now >= due
  /\ pass' = [NoPass EXCEPT !.stage = "walk"]
  /\ UNCHANGED <<req, disk, left, due, now, writes, faults>>

\* WalkDir: a file that is gone, kept or not the tier's is passed by.
Walk ==
  /\ pass.stage = "walk" /\ pass.at <= Len(Order)
  /\ LET f    == Order[pass.at]
         ours == disk[f].there /\ f \notin Keep /\ Kind[f] # "other"
     IN  pass' = [pass EXCEPT !.at = @ + 1,
                    !.seen = IF ours THEN @ \cup {[file |-> f, size |-> disk[f].size, mod |-> disk[f].mod]} ELSE @,
                    !.used = IF ours THEN @ + disk[f].size ELSE @]
  /\ UNCHANGED <<req, disk, left, due, now, writes, faults>>

kvTierLowWatermark(max) == (max * 9) \div 10

\* The shortest run of the oldest blocks that brings the tier to its watermark.
Trim(blocks, used, target) ==
  LET after(k) == used - Bytes(1 .. k, LAMBDA i : blocks[i].size)
  IN  SubSeq(blocks, 1, Min({k \in 0 .. Len(blocks) : after(k) <= target \/ k = Len(blocks)}))

\* Mutant: the newest blocks go first.
OldestLast(s) == SetToSortSeq(s, LAMBDA a, b : a.mod > b.mod)

\* Oldest first.
Oldest(s) == SetToSortSeq(s, LAMBDA a, b : a.mod < b.mod)

\* Crashed writes, and over the cap the oldest blocks; a cap of 0 drops all.
Decide(seen, used) ==
  LET stale  == {f \in seen : Kind[f.file] = "tmp" /\ now - f.mod > KVTierStaleWrite}
      rest   == used - Bytes(stale, LAMBDA f : f.size)
      blocks == Oldest({f \in seen : Kind[f.file] = "bin"})
  IN  IF req.max = 0 THEN SetToSeq(seen)
      ELSE SetToSeq(stale) \o (IF rest > req.max THEN Trim(blocks, rest, kvTierLowWatermark(req.max)) ELSE <<>>)

Listed ==
  /\ pass.stage = "walk" /\ pass.at > Len(Order)
  /\ pass' = [pass EXCEPT !.stage = "drop", !.drop = Decide(pass.seen, pass.used)]
  /\ UNCHANGED <<req, disk, left, due, now, writes, faults>>

\* What is gone already counts as removed.
Unlink ==
  /\ pass.stage = "drop" /\ pass.drop # <<>>
  /\ LET f == Head(pass.drop)
     IN  /\ disk' = IF req.dry THEN disk ELSE [disk EXCEPT ![f.file] = Gone]
         /\ pass' = [pass EXCEPT !.drop = Tail(@), !.freed = @ + f.size, !.removed = @ + 1,
                                 !.took = IF req.dry \/ ~disk[f.file].there THEN @ ELSE @ \cup {f}]
  /\ UNCHANGED <<req, left, due, now, writes, faults>>

\* Directories that are left empty carry no state here; the next pass follows
\* soon after one that trimmed, or found more than the one before left.
Passed ==
  /\ pass.stage = "drop" /\ pass.drop = <<>>
  /\ LET kept == pass.used - pass.freed
         busy == (pass.removed > 0 /\ ~req.dry) \/ (left >= 0 /\ kept > left)
     IN  left' = kept /\ due' = now + (IF busy THEN Hot ELSE Every)
  /\ pass' = [pass EXCEPT !.stage = "wait"]
  /\ UNCHANGED <<req, disk, now, writes, faults>>

\* The walk or a removal fails: reported, tried again after the idle period.
Fails ==
  /\ pass.stage \in {"walk", "drop"} /\ faults < MaxFaults /\ faults' = faults + 1
  /\ pass' = [NoPass EXCEPT !.stage = "wait"] /\ due' = now + Every
  /\ UNCHANGED <<req, disk, left, now, writes>>

-----------------------------------------------------------------------------
(* The engine, and time.                                                   *)

Writes(t) ==
  /\ Kind[t] = "tmp" /\ ~disk[t].there /\ ~disk[Into[t]].there /\ writes < MaxWrites
  /\ disk' = [disk EXCEPT ![t] = [there |-> TRUE, size |-> 1, mod |-> now]]
  /\ pass' = [pass EXCEPT !.wrote = @ + 1] /\ writes' = writes + 1
  /\ UNCHANGED <<req, left, due, now, faults>>

Renames(t) ==
  /\ Kind[t] = "tmp" /\ disk[t].there /\ now - disk[t].mod <= KVTierStaleWrite
  /\ disk' = [disk EXCEPT ![t] = Gone, ![Into[t]] = disk[t]]
  /\ pass' = [pass EXCEPT !.wrote = @ + 1]
  /\ UNCHANGED <<req, left, due, now, writes, faults>>

Tick ==
  /\ now < MaxTime /\ now' = now + 1
  /\ UNCHANGED <<req, disk, pass, left, due, writes, faults>>

Next ==
  \/ Starts \/ Walk \/ Listed \/ Unlink \/ Passed \/ Fails
  \/ \E t \in Files : Writes(t) \/ Renames(t)
  \/ Tick

Spec == Init /\ [][Next]_vars

-----------------------------------------------------------------------------
(* Properties                                                              *)

Held == {f \in Files : disk[f].there /\ f \notin Keep /\ Kind[f] # "other"}

\* However the engine writes meanwhile (PruneKVTier): a file that is kept or is
\* not the tier's stays; under a cap neither the config nor a write in flight
\* is touched, and no block goes while an older one that was listed stays; a
\* pass that ended leaves the tier under its cap but for what was written since
\* it began, or with no block it saw; and a dry run removes nothing.
TierIsTrimmed ==
  /\ \A f \in Files : Kind[f] = "other" => disk[f].there
  /\ \A t \in pass.took :
       /\ t.file \notin Keep /\ Kind[t.file] # "other"
       /\ req.max > 0 => Kind[t.file] # "config" /\ (Kind[t.file] = "tmp" => t.mod + KVTierStaleWrite < now)
  /\ req.max > 0 /\ pass.stage # "walk" =>
       \A t \in pass.took, f \in pass.seen :
         Kind[t.file] = "bin" /\ Kind[f.file] = "bin" /\ f.mod < t.mod => ~disk[f.file].there \/ disk[f.file].mod # f.mod
  /\ pass.stage = "wait" /\ left >= 0 /\ ~req.dry /\ pass.seen # {} =>
       \/ Bytes(Held, LAMBDA f : disk[f].size) <= req.max + pass.wrote
       \/ \A s \in pass.seen : Kind[s.file] = "bin" => s \in pass.took
  /\ req.dry => pass.took = {}
=============================================================================
