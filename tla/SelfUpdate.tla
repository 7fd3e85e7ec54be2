----------------------------- MODULE SelfUpdate -----------------------------
(***************************************************************************)
(* `opod update` (cmd/opod/cmd_update.go, internal/update): the release is *)
(* downloaded, compared with the digest its checksums file lists, unpacked *)
(* and copied next to the running binary, then renamed over it.  Any step  *)
(* may fail, the process may be killed at any point, and the operator may  *)
(* finish by hand what needed other rights.                                *)
(*                                                                         *)
(* A file is its pieces, each of the version it was written from; a copy   *)
(* writes one after another.  The temporary directory is the process's own *)
(* and goes with it; what a download got is its outcome.                   *)
(***************************************************************************)
EXTENDS Integers, FiniteSets

CONSTANTS
  Updaters,     \* update commands that may run at the same time
  Versions,     \* published releases: a number, and whether a pre-release
  Pieces,       \* pieces of a binary
  MaxRuns, MaxFaults

VARIABLES
  inode,     \* file -> its pieces
  target,    \* the file the binary's name leads to
  staged,    \* the one .opod.new leads to; 0 when there is none
  told,      \* files the operator was told how to finish with: path, file
  run,       \* per updater: stage, wanted, force, to, at, bin, start
  runs, faults

vars == <<inode, target, staged, told, run, runs, faults>>

Empty == [i \in 1 .. Pieces |-> 0]
Whole(v) == [i \in 1 .. Pieces |-> v]
Id(v) == v.n * 2 + (IF v.pre THEN 1 ELSE 0)
Ids == {Id(v) : v \in Versions}
Other == 99   \* what an archive that is not the release unpacks to
Files == 1 .. 3 + Cardinality(Updaters)
NoRun == [stage |-> "none", wanted |-> 0, to |-> 0, at |-> 0, bin |-> 0, start |-> 0]
\* A file nothing leads to and nobody writes.
NextFile == CHOOSE f \in Files : f \notin {target, staged} \cup {run[u].to : u \in Updaters}

Init ==
  /\ inode = [f \in Files |-> IF f = 1 THEN Whole(Id(CHOOSE v \in Versions : TRUE)) ELSE Empty]
  /\ target = 1 /\ staged = 0 /\ told = {}
  /\ run = [u \in Updaters |-> NoRun] /\ runs = 0 /\ faults = 0

Goes(u, stage) == run' = [run EXCEPT ![u].stage = stage]
Fault == faults < MaxFaults /\ faults' = faults + 1
Rest(u) == UNCHANGED <<inode, target, staged, told, runs>>

\* The suffix of a pre-release does not count.
NormalizeVersion(id) == id \div 2

\* cmdUpdate: the version asked for, or the latest; nothing to do when the
\* binary has its number, unless forced.  The binary's own version is the
\* running process's.
cmdUpdate(u, v, force, check) ==
  /\ run[u].stage \in {"none", "ended", "failed"} /\ runs < MaxRuns
  /\ LET current == inode[target][1]
         same    == NormalizeVersion(current) = NormalizeVersion(Id(v))
     IN  run' = [run EXCEPT ![u] =
                   [stage |-> IF check \/ (same /\ ~force) THEN "ended" ELSE "download",
                    wanted |-> Id(v), to |-> 0, at |-> 0, bin |-> 0, start |-> target]]
  /\ runs' = runs + 1 /\ told' = {} /\ UNCHANGED <<inode, target, staged, faults>>

\* download: the archive, whole, or (what reads as success) another body.
Download(u, got) ==
  /\ run[u].stage = "download"
  /\ run' = [run EXCEPT ![u].bin = got, ![u].stage = "checksums"]
  /\ got = Other => faults < MaxFaults
  /\ faults' = IF got = Other THEN faults + 1 ELSE faults
  /\ UNCHANGED <<inode, target, staged, told, runs>>

\* Mutant: an archive the file does not list is let through.
VerifyListed(u, listed) ==
  /\ run[u].stage = "checksums"
  /\ Goes(u, IF ~listed \/ run[u].bin = run[u].wanted THEN "extract" ELSE "failed")
  /\ Rest(u) /\ UNCHANGED faults

\* LookupChecksum and the comparison: an archive that the checksums file does
\* not list, or lists with another digest, is refused.
Verify(u, listed) ==
  /\ run[u].stage = "checksums"
  /\ Goes(u, IF listed /\ run[u].bin = run[u].wanted THEN "extract" ELSE "failed")
  /\ Rest(u) /\ UNCHANGED faults

\* ExtractTarGz: entries that would leave the directory, and those that are
\* neither files nor directories, are skipped; without an opod file it fails.
ExtractTarGz(u, holds) ==
  /\ run[u].stage = "extract"
  /\ Goes(u, IF holds THEN "open" ELSE "failed")
  /\ Rest(u) /\ UNCHANGED faults

\* copyFile opens .opod.new, emptying one that is there.
Open(u) ==
  /\ run[u].stage = "open"
  /\ LET f == IF staged # 0 THEN staged ELSE NextFile
     IN  /\ staged' = f /\ inode' = [inode EXCEPT ![f] = Empty]
         /\ run' = [run EXCEPT ![u].stage = "copy", ![u].to = f, ![u].at = 0]
  /\ UNCHANGED <<target, told, runs, faults>>

copyFile(u) ==
  /\ run[u].stage = "copy" /\ run[u].at < Pieces
  /\ inode' = [inode EXCEPT ![run[u].to][run[u].at + 1] = run[u].bin]
  /\ run' = [run EXCEPT ![u].at = @ + 1]
  /\ UNCHANGED <<target, staged, told, runs, faults>>

\* The directory cannot be written, or the copy breaks: a copy elsewhere, and
\* the command that finishes.
stagePersistent(u, kept) ==
  /\ run[u].stage \in {"open", "copy"} /\ Fault
  /\ told' = IF kept THEN told \cup {[path |-> "persist", id |-> run[u].bin]} ELSE told
  /\ Goes(u, "failed") /\ UNCHANGED <<inode, target, staged, runs>>

\* chmod fails: the staged file is removed.
ChmodFails(u) ==
  /\ run[u].stage = "copy" /\ run[u].at = Pieces /\ Fault
  /\ staged' = 0 /\ Goes(u, "failed") /\ UNCHANGED <<inode, target, told, runs>>

\* The rename; or the command that finishes it, the staged file left in place.
Rename(u) ==
  /\ run[u].stage = "copy" /\ run[u].at = Pieces
  /\ target' = (IF staged = 0 THEN target ELSE staged) /\ staged' = 0
  /\ Goes(u, IF staged = 0 THEN "failed" ELSE "ended") /\ UNCHANGED <<inode, told, runs, faults>>
RenameFails(u) ==
  /\ run[u].stage = "copy" /\ run[u].at = Pieces /\ Fault
  /\ told' = told \cup {[path |-> "staged", id |-> run[u].bin]}
  /\ Goes(u, "failed") /\ UNCHANGED <<inode, target, staged, runs>>

\* A download or a step in the temporary directory fails, or the process is
\* killed, anywhere.
Fails(u) ==
  /\ run[u].stage \notin {"none", "ended", "failed"} /\ Fault /\ Goes(u, "failed") /\ Rest(u)

\* The operator finishes, if at all, before the next update is started.
Finish(t) ==
  /\ t \in told /\ \A u \in Updaters : run[u].stage \in {"none", "ended", "failed"}
  /\ told' = told \ {t}
  /\ IF t.path = "staged"
     THEN /\ target' = (IF staged = 0 THEN target ELSE staged) /\ staged' = 0 /\ UNCHANGED inode
     ELSE /\ target' = NextFile /\ inode' = [inode EXCEPT ![NextFile] = Whole(t.id)] /\ UNCHANGED staged
  /\ run' = [u \in Updaters |-> NoRun] /\ UNCHANGED <<runs, faults>>

Next ==
  \/ \E u \in Updaters :
       \/ \E v \in Versions, force, check \in BOOLEAN : cmdUpdate(u, v, force, check)
       \/ \E got \in {run[u].wanted, Other} : Download(u, got)
       \/ \E b \in BOOLEAN : Verify(u, b) \/ ExtractTarGz(u, b) \/ stagePersistent(u, b)
       \/ Open(u) \/ copyFile(u) \/ ChmodFails(u) \/ Rename(u) \/ RenameFails(u) \/ Fails(u)
  \/ \E t \in told : Finish(t)

Spec == Init /\ [][Next]_vars

-----------------------------------------------------------------------------
(* Properties                                                              *)

\* The binary's name leads to a whole release that was verified.
TargetIsWhole == \E v \in Ids : inode[target] = Whole(v)

\* Whatever fails or is killed on the way, the binary's name leads to a whole
\* release that was verified (installFrom: a digest nobody can check is never
\* installed, and the rename is the one step that changes it); an update that
\* was refused or broke has left it what it was; and one that ended well has
\* left the number that was wanted.
BinaryIsWhole ==
  /\ TargetIsWhole
  /\ \A u \in Updaters :
       /\ run[u].stage \notin {"none", "ended"} => target = run[u].start
       /\ run[u].stage = "ended" /\ run[u].bin # 0 => inode[target] = Whole(run[u].wanted)
=============================================================================
