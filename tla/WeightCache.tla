---------------------------- MODULE WeightCache ----------------------------
(***************************************************************************)
(* internal/fetch: the directory of model weights that the pods of a node  *)
(* share.  Processes pull files into it (one file, or the files of a       *)
(* snapshot and then its manifest), prune it and sweep it.  A file is a    *)
(* sequence of blocks; block i of the right content is i, a damaged block  *)
(* is 0.  The digest of some bytes is the bytes themselves.                *)
(***************************************************************************)
EXTENDS Integers, Sequences, FiniteSets, TLC

CONSTANTS
  Files,
  Size,        \* Size[f]: blocks of the right content of f
  Procs,
  Job,         \* Job[p]: [kind |-> "pull" | "prune" | "sweep", files, pins, sized, manifest]
  MaxCrashes,  \* bound: processes killed
  MaxDamage,   \* bound: blocks the network or the server damages
  MaxDays,     \* bound: times a day passes with no process at work
  MaxAges      \* bound: locks that get older than LockWait

NoFile == <<-1>>
Right(f) == [i \in 1..Size[f] |-> i]

VARIABLES
  target,    \* the file under its own name, or NoFile
  marker,    \* "none" | "plain" | "sha" (the pinned digest was verified)
  fresh,     \* files whose marker says they were used within MinAge
  partial,   \* the half-downloaded bytes, or NoFile
  stale,     \* files whose partial is older than the sweep's age
  lock,      \* the process that wrote the lock file; "none"; "old": a dead one's, past the sweep's age
  manifest,  \* the snapshot's manifest is there
  proc,      \* the processes
  aged,      \* files whose lock, if there is one, is older than LockWait
  overtaken, \* files whose lock was removed as left behind while its holder lived (a history variable)
  crashes, damage, days, ages

vars == <<target, marker, fresh, partial, stale, lock, manifest, proc, aged, overtaken, crashes, damage, days, ages>>
disk == <<target, marker, fresh, partial, stale, lock, manifest>>
rest == <<aged, overtaken, crashes, damage, days, ages>>

\* want: the expected length, 0 when unknown; h: what the hash has seen; from: where the
\* download began; n: bytes written; exp: the length it must end with; fd: the name its
\* open file goes by; held: the locks it holds; res: how the call ended.
Fresh0 == [pc |-> "idle", i |-> 1, want |-> 0, h |-> <<>>, from |-> 0, n |-> 0, exp |-> 0,
           fd |-> "none", held |-> {}, res |-> "none"]

Init ==
  /\ target = [f \in Files |-> NoFile] /\ partial = [f \in Files |-> NoFile]
  /\ marker = [f \in Files |-> "none"] /\ fresh = {} /\ stale = {}
  /\ lock = [f \in Files |-> "none"] /\ manifest = FALSE
  /\ proc = [p \in Procs |-> Fresh0]
  /\ aged = {} /\ overtaken = {}
  /\ crashes = 0 /\ damage = 0 /\ days = 0 /\ ages = 0

File(p) == Job[p].files[proc[p].i]
Pinned(p) == File(p) \in Job[p].pins
Alive(p) == proc[p].pc \notin {"idle", "done", "dead"}
Set(p, r) == proc' = [proc EXCEPT ![p] = r @@ @]
At(p, pc) == proc[p].pc = pc
\* complete(target, want, known)
Complete(f, want) == target[f] \notin {NoFile, <<>>} /\ (want = 0 \/ Len(target[f]) = want)

\* defer release(): the lock file of that name goes, whoever wrote the one that is there now.
Unlock(S) == lock' = [f \in Files |-> IF f \in S THEN "none" ELSE lock[f]]
\* The call ends in an error.
Fail(p, why) == Set(p, [pc |-> IF proc[p].held = {} THEN "done" ELSE "release", res |-> why, fd |-> "none"])

---------------------------------------------------------------------------
(* one: make a file present.                                               *)

Pull(p) ==
  /\ At(p, "idle") /\ Job[p].kind = "pull"
  /\ Set(p, [pc |-> "look"])
  /\ UNCHANGED <<disk, rest>>

\* The size is the listing's, or what HEAD answers, which may be nothing.
Look(p) ==
  /\ At(p, "look")
  /\ \E w \in {Size[File(p)]} \cup (IF Job[p].sized THEN {} ELSE {0}) :
       Set(p, [want |-> w, pc |-> IF Complete(File(p), w) THEN "cached" ELSE "lock"])
  /\ UNCHANGED <<disk, rest>>

\* The call has this file; a snapshot goes on with the next, then writes its manifest.
Next1(p) ==
  IF proc[p].i < Len(Job[p].files) THEN [pc |-> "look", i |-> proc[p].i + 1]
  ELSE IF Job[p].manifest THEN [pc |-> "manifest", i |-> proc[p].i + 1]
  ELSE [pc |-> "done", i |-> proc[p].i + 1, res |-> "ok"]
Served(p) == IF proc[p].held = {} THEN Next1(p) ELSE [pc |-> "release", res |-> "file"]

\* Mutant: a file of the right size is believed.
VerifiedBySize(p) ==
  /\ At(p, "cached")
  /\ fresh' = IF marker[File(p)] = "none" THEN fresh ELSE fresh \cup {File(p)}
  /\ Set(p, Served(p))
  /\ UNCHANGED <<target, marker, partial, stale, lock, manifest, rest>>

\* verifiedCached: a marker that records the pinned digest is believed; else the file is read.
VerifiedCached(p) ==
  LET f == File(p) IN
  /\ At(p, "cached")
  /\ fresh' = IF marker[f] = "none" THEN fresh ELSE fresh \cup {f}
  /\ \/ (~Pinned(p) \/ marker[f] = "sha")
        /\ Set(p, Served(p))
     \/ Pinned(p) /\ marker[f] # "sha" /\ target[f] = Right(f)
        /\ Set(p, [pc |-> "hashed"])
     \/ Pinned(p) /\ marker[f] # "sha" /\ target[f] # Right(f)
        /\ Fail(p, IF target[f] = NoFile THEN "error" ELSE "digest")
  /\ UNCHANGED <<target, marker, partial, stale, lock, manifest, rest>>

HashRecorded(p) ==
  /\ At(p, "hashed")
  /\ marker' = [marker EXCEPT ![File(p)] = IF @ = "none" THEN @ ELSE "sha"]
  /\ Set(p, Served(p))
  /\ UNCHANGED <<target, fresh, partial, stale, lock, manifest, rest>>

\* acquireLockFile: created exclusively.
TakeLock(p) ==
  LET f == File(p) IN
  /\ At(p, "lock")
  /\ \/ lock[f] = "none" /\ lock' = [lock EXCEPT ![f] = p] /\ Set(p, [pc |-> "held", held |-> {f}])
     \/ lock[f] # "none" /\ Set(p, [pc |-> "wait"]) /\ UNCHANGED lock
  /\ aged' = IF lock[f] = "none" THEN aged \ {f} ELSE aged
  /\ UNCHANGED <<target, marker, fresh, partial, stale, manifest, overtaken, crashes, damage, days, ages>>

\* lockHolderGone: the flock of a live holder cannot be taken.
LockHolderGone(f) == IF lock[f] \in Procs THEN ~Alive(lock[f]) ELSE lock[f] = "old"

\* One round of the wait.  The holder's death, or the lock's age whoever holds
\* it, is seen here and acted upon in TakeOver.
WaitLock(p) ==
  LET f == File(p)
      left == LockHolderGone(f) \/ f \in aged IN
  /\ At(p, "wait")
  /\ \/ Complete(f, proc[p].want) /\ Set(p, [pc |-> "cached"])
     \/ ~Complete(f, proc[p].want) /\ lock[f] = "none" /\ Set(p, [pc |-> "lock"])
     \/ ~Complete(f, proc[p].want) /\ lock[f] # "none" /\ left /\ Set(p, [pc |-> "takeover"])
     \/ ~Complete(f, proc[p].want) /\ lock[f] # "none" /\ ~left
        /\ Fail(p, "error")                        \* LockWait is over, or the caller left
  /\ UNCHANGED <<disk, rest>>

\* The lock file is removed, whoever wrote the one that is there by now.
RemoveLock(f) ==
  /\ Unlock({f})
  /\ overtaken' = IF lock[f] \in Procs /\ Alive(lock[f]) THEN overtaken \cup {f} ELSE overtaken
  /\ UNCHANGED <<aged, crashes, damage, days, ages>>

TakeOver(p) ==
  /\ At(p, "takeover")
  /\ RemoveLock(File(p))
  /\ Set(p, [pc |-> "lock"])
  /\ UNCHANGED <<target, marker, fresh, partial, stale, manifest>>

---------------------------------------------------------------------------
(* download.                                                               *)

\* seedFromPartial: with a digest pinned the bytes on disk are hashed, and resumed from when
\* they are fewer than the file.  The hash keeps what it has read either way.
Seed(p) ==
  LET f == File(p)
      had == IF Pinned(p) /\ partial[f] # NoFile THEN partial[f] ELSE <<>> IN
  /\ At(p, "held")
  /\ IF Complete(f, proc[p].want) THEN Set(p, [pc |-> "cached"])
     ELSE Set(p, [pc |-> "get", h |-> had, n |-> 0,
                  from |-> IF proc[p].want = 0 \/ Len(had) < proc[p].want THEN Len(had) ELSE 0])
  /\ UNCHANGED <<disk, rest>>

\* Who has the file of that name open, and the processes once it goes by another name or none.
Opens(q, f, name) == proc[q].fd = name /\ File(q) = f
Renamed(q, f, name, new) == IF Opens(q, f, name) THEN [proc[q] EXCEPT !.fd = new] ELSE proc[q]

\* The request is answered and the partial opened: to append, or truncated.
Get(p) ==
  LET f == File(p)
      from == proc[p].from
      Open(start, hash, len) ==
        /\ partial' = [partial EXCEPT ![f] = IF start > 0 /\ @ # NoFile THEN @ ELSE <<>>]
        /\ stale' = IF start > 0 /\ partial[f] # NoFile THEN stale ELSE stale \ {f}
        /\ Set(p, [pc |-> "copy", from |-> start, h |-> hash, exp |-> len, fd |-> "partial"])
      Whole(len) == Open(0, IF from > 0 THEN <<>> ELSE proc[p].h, len) IN
  /\ At(p, "get")
  /\ \/ Fail(p, "error") /\ UNCHANGED <<partial, stale>>               \* no answer, a refusal, another status
     \/ Whole(Size[f])                                                 \* 200
     \/ Whole(proc[p].want)                                            \* 200 without a length
     \/ from \in 1..(Size[f] - 1) /\ Open(from, proc[p].h, Size[f])    \* 206
     \/ from >= Size[f] /\ from > 0                                    \* 416
        /\ partial' = [partial EXCEPT ![f] = NoFile] /\ stale' = stale \ {f}
        /\ Fail(p, "error")
  /\ UNCHANGED <<target, marker, fresh, lock, manifest, rest>>

WriteAt(s, k, b) == [j \in 1..(IF k > Len(s) THEN k ELSE Len(s)) |-> IF j = k THEN b ELSE IF j <= Len(s) THEN s[j] ELSE 0]
Written(p, s, b) == IF proc[p].from > 0 THEN Append(s, b) ELSE WriteAt(s, proc[p].n + 1, b)

\* io.Copy: one more block, to the file and to the hash.
Copy(p) ==
  LET f == File(p)
      at == proc[p].from + proc[p].n + 1 IN
  /\ At(p, "copy") /\ at <= Size[f]
  /\ \E b \in {at} \cup (IF damage < MaxDamage THEN {0} ELSE {}) :
       /\ damage' = IF b = 0 THEN damage + 1 ELSE damage
       /\ partial' = IF proc[p].fd = "partial" THEN [partial EXCEPT ![f] = Written(p, @, b)] ELSE partial
       /\ target' = IF proc[p].fd = "target" THEN [target EXCEPT ![f] = Written(p, @, b)] ELSE target
       /\ stale' = IF proc[p].fd = "partial" THEN stale \ {f} ELSE stale
       /\ Set(p, [n |-> proc[p].n + 1, h |-> Append(proc[p].h, b)])
  /\ UNCHANGED <<marker, fresh, lock, manifest, aged, overtaken, crashes, days, ages>>

\* The connection breaks: with a digest pinned the bytes are kept for the next attempt.
CopyBreaks(p) ==
  LET f == File(p) IN
  /\ At(p, "copy")
  /\ partial' = IF Pinned(p) THEN partial ELSE [partial EXCEPT ![f] = NoFile]
  /\ stale' = IF Pinned(p) THEN stale ELSE stale \ {f}
  /\ proc' = [q \in Procs |->
       IF q = p THEN [proc[p] EXCEPT !.pc = "release", !.res = "error", !.fd = "none"]
       ELSE IF Pinned(p) THEN proc[q] ELSE Renamed(q, f, "partial", "gone")]
  /\ UNCHANGED <<target, marker, fresh, lock, manifest, rest>>

\* The body has ended; one without a declared length may end early.
CopyEnds(p) ==
  /\ At(p, "copy")
  /\ Set(p, [pc |-> "check", fd |-> "none"])
  /\ UNCHANGED <<disk, rest>>

\* What download makes of the bytes it has: the length, then the digest.
WrongLength(s, f) == s.exp > 0 /\ s.from + s.n # s.exp
WrongDigest(s, f) == s.h # Right(f)

\* The length, then the digest; what passes both is renamed into place.
Check(p) ==
  LET f == File(p)
      s == proc[p]
      short == WrongLength(s, f)
      wrong == Pinned(p) /\ WrongDigest(s, f)
      refuse == short \/ wrong \/ partial[f] = NoFile IN
  /\ At(p, "check")
  /\ target' = IF refuse THEN target ELSE [target EXCEPT ![f] = partial[f]]
  /\ partial' = [partial EXCEPT ![f] = NoFile] /\ stale' = stale \ {f}
  /\ proc' = [q \in Procs |->
       IF q = p
       THEN IF refuse THEN [s EXCEPT !.pc = "release", !.res = IF wrong /\ ~short THEN "digest" ELSE "error"]
            ELSE [s EXCEPT !.pc = "mark"]
       ELSE IF Opens(q, f, "partial") \/ refuse THEN Renamed(q, f, "partial", IF refuse THEN "gone" ELSE "target")
       ELSE Renamed(q, f, "target", "gone")]
  /\ UNCHANGED <<marker, fresh, lock, manifest, rest>>

WriteMarker(p) ==
  LET f == File(p) IN
  /\ At(p, "mark")
  /\ marker' = [marker EXCEPT ![f] = IF Pinned(p) THEN "sha" ELSE "plain"]
  /\ fresh' = fresh \cup {f}
  /\ Set(p, [pc |-> "release", res |-> "file"])
  /\ UNCHANGED <<target, partial, stale, lock, manifest, rest>>

\* defer release()
Release(p) ==
  /\ At(p, "release") /\ Job[p].kind = "pull"
  /\ Unlock(proc[p].held)
  /\ Set(p, [held |-> {}] @@ (IF proc[p].res = "file" THEN Next1(p) @@ [res |-> "none"] ELSE [pc |-> "done"]))
  /\ UNCHANGED <<target, marker, fresh, partial, stale, manifest, rest>>

\* Snapshot: every file is there; the manifest is renamed into place.
WriteManifest(p) ==
  /\ At(p, "manifest")
  /\ manifest' = TRUE
  /\ Set(p, [pc |-> "done", res |-> "ok"])
  /\ UNCHANGED <<target, marker, fresh, partial, stale, lock, rest>>

---------------------------------------------------------------------------
(* Prune and SweepPartials.                                                *)

Here(p) == {f \in {Job[p].files[k] : k \in DOMAIN Job[p].files} : target[f] # NoFile}
Ours(S) == \A f \in S : marker[f] # "none"
\* List: a directory with a manifest is one entry, else every file is.
Entries(p) == IF manifest THEN {Here(p)} ELSE {{f} : f \in Here(p)}
\* What a prune may take: ours, not kept, not used within MinAge.
Candidates(p) == {S \in Entries(p) : Ours(S) /\ S \cap fresh = {}}

\* The candidates are taken up one after the other, in an order the marks of use decide.
Prune(p) ==
  /\ At(p, "idle") /\ Job[p].kind = "prune"
  /\ Set(p, [pc |-> "plan", h |-> Candidates(p), res |-> IF manifest THEN "whole" ELSE "files"])
  /\ UNCHANGED <<disk, rest>>

\* The next candidate; or none is left, or enough room is free.
PruneNext(p) ==
  /\ At(p, "plan")
  /\ \/ \E S \in proc[p].h : Set(p, [pc |-> "plock", h |-> proc[p].h \ {S}, i |-> S, n |-> 0])
     \/ Set(p, [pc |-> "done", res |-> "ok"])
  /\ UNCHANGED <<disk, rest>>

PruneFails(p) == Set(p, [pc |-> "prelease", res |-> "error"])

\* lockForPrune, for every file of the candidate; a dead holder's lock is taken over once.
PruneLock(p) ==
  LET s == proc[p] IN
  /\ At(p, "plock")
  /\ IF s.i \subseteq s.held THEN Set(p, [pc |-> "pcheck"]) /\ UNCHANGED lock
     ELSE LET f == CHOOSE g \in s.i \ s.held : TRUE IN
          \/ lock[f] = "none" /\ lock' = [lock EXCEPT ![f] = p]
             /\ Set(p, [held |-> s.held \cup {f}, n |-> 0])
          \/ lock[f] # "none" /\ s.n = 0 /\ LockHolderGone(f) /\ Set(p, [pc |-> "ptake"]) /\ UNCHANGED lock
          \/ lock[f] # "none" /\ (s.n = 1 \/ ~LockHolderGone(f)) /\ PruneFails(p) /\ UNCHANGED lock
  /\ aged' = aged \ {g \in Files : lock[g] # lock'[g]}
  /\ UNCHANGED <<target, marker, fresh, partial, stale, manifest, overtaken, crashes, damage, days, ages>>

PruneTakeOver(p) ==
  /\ At(p, "ptake")
  /\ RemoveLock(CHOOSE g \in proc[p].i \ proc[p].held : TRUE)
  /\ Set(p, [pc |-> "plock", n |-> 1])
  /\ UNCHANGED <<target, marker, fresh, partial, stale, manifest>>

\* Under the locks: still ours?  The manifest goes first.
PruneCheck(p) ==
  /\ At(p, "pcheck")
  /\ IF Ours(proc[p].i)
     THEN /\ manifest' = (manifest /\ proc[p].res # "whole")
          /\ Set(p, [pc |-> "ptrash"])
     ELSE PruneFails(p) /\ UNCHANGED manifest
  /\ UNCHANGED <<target, marker, fresh, partial, stale, lock, rest>>

\* trash: renamed away, the marker removed, unlinked.
PruneTrash(p) ==
  LET s == proc[p] IN
  /\ At(p, "ptrash")
  /\ \/ s.i = {} /\ Set(p, [pc |-> "prelease"]) /\ UNCHANGED <<target, marker, fresh>>
     \/ \E f \in s.i :
          /\ target' = [target EXCEPT ![f] = NoFile]
          /\ marker' = [marker EXCEPT ![f] = IF target[f] = NoFile THEN @ ELSE "none"] /\ fresh' = fresh \ {f}
          /\ proc' = [q \in Procs |->
               IF q # p THEN Renamed(q, f, "target", "gone")
               ELSE IF target[f] = NoFile THEN [s EXCEPT !.pc = "prelease", !.res = "error"]
               ELSE [s EXCEPT !.i = @ \ {f}]]
  /\ UNCHANGED <<partial, stale, lock, manifest, rest>>

PruneRelease(p) ==
  /\ At(p, "prelease")
  /\ Unlock(proc[p].held)
  /\ Set(p, [held |-> {}, pc |-> IF proc[p].res = "error" THEN "done" ELSE "plan"])
  /\ UNCHANGED <<target, marker, fresh, partial, stale, manifest, rest>>

\* sweepDir: what is older than the age goes, one file at a time.
Sweep(p) ==
  LET f == File(p) IN
  /\ proc[p].pc \in {"idle", "sweep"} /\ Job[p].kind = "sweep"
  /\ partial' = IF f \in stale THEN [partial EXCEPT ![f] = NoFile] ELSE partial
  /\ stale' = stale \ {f}
  /\ lock' = IF lock[f] = "old" THEN [lock EXCEPT ![f] = "none"] ELSE lock
  /\ proc' = [q \in Procs |->
       IF q = p THEN [proc[p] EXCEPT !.i = @ + 1, !.pc = IF proc[p].i < Len(Job[p].files) THEN "sweep" ELSE "done"]
       ELSE IF f \in stale THEN Renamed(q, f, "partial", "gone") ELSE proc[q]]
  /\ UNCHANGED <<target, marker, fresh, manifest, rest>>

---------------------------------------------------------------------------
\* SnapshotPath: the manifest and every file's size.
SnapshotPath == manifest /\ \A f \in Files : Complete(f, Size[f])

\* An engine starts from the snapshot: its files are in use.
Use ==
  /\ SnapshotPath
  /\ fresh' = {f \in Files : marker[f] # "none"}
  /\ UNCHANGED <<target, marker, partial, stale, lock, manifest, proc, rest>>

\* A process is killed.
Crash(p) ==
  /\ crashes < MaxCrashes /\ Alive(p)
  /\ Set(p, [pc |-> "dead", fd |-> "none", h |-> <<>>])
  /\ crashes' = crashes + 1
  /\ UNCHANGED <<disk, aged, overtaken, damage, days, ages>>

\* No pull lasts a day, so a day passes between them.
Day ==
  /\ days < MaxDays /\ \A p \in Procs : ~Alive(p)
  /\ days' = days + 1
  /\ fresh' = {} /\ stale' = {f \in Files : partial[f] # NoFile}
  /\ lock' = [f \in Files |-> IF lock[f] = "none" THEN "none" ELSE "old"]
  /\ UNCHANGED <<target, marker, partial, manifest, proc, aged, overtaken, crashes, damage, ages>>

\* A pull lasts longer than LockWait.
Age(f) ==
  /\ ages < MaxAges /\ lock[f] \in Procs /\ f \notin aged
  /\ aged' = aged \cup {f} /\ ages' = ages + 1
  /\ UNCHANGED <<disk, proc, overtaken, crashes, damage, days>>

Over ==
  /\ \A p \in Procs : proc[p].pc \in {"done", "dead"}
  /\ \A f \in Files : lock[f] \in Procs => proc[lock[f]].pc = "dead"
  /\ UNCHANGED vars

Step(p) ==
  \/ Pull(p) \/ Look(p) \/ VerifiedCached(p) \/ HashRecorded(p)
  \/ TakeLock(p) \/ WaitLock(p) \/ TakeOver(p)
  \/ Seed(p) \/ Get(p) \/ Copy(p) \/ CopyBreaks(p) \/ CopyEnds(p) \/ Check(p)
  \/ WriteMarker(p) \/ Release(p) \/ WriteManifest(p)
  \/ Prune(p) \/ PruneNext(p) \/ PruneLock(p) \/ PruneTakeOver(p) \/ PruneCheck(p) \/ PruneTrash(p) \/ PruneRelease(p)
  \/ Sweep(p) \/ Crash(p)
Next == (\E p \in Procs : Step(p)) \/ (\E f \in Files : Age(f)) \/ Use \/ Day \/ Over
Spec == Init /\ [][Next]_vars

---------------------------------------------------------------------------
\* A pull that hands out a file under a pinned digest (its index moves on) hands out the right
\* bytes, or a name a prune has just taken away: whatever was killed, damaged, resumed or
\* found in the cache before (verifiedCached, download), until the lock of a pull that is
\* still at work was removed (overtaken).
PinnedStep ==
  \A p \in Procs :
    Job[p].kind = "pull" /\ proc'[p].i # proc[p].i /\ Pinned(p) /\ File(p) \notin overtaken
    => target'[File(p)] \in {NoFile, Right(File(p))}
PinnedIsRight == [][PinnedStep]_vars

\* The directory SnapshotPath would hand to an engine, by sizes alone, holds the right bytes of
\* every file that has a digest (the manifest goes last in Snapshot and first in a prune).
ServedIsVerified ==
  SnapshotPath => \A p \in Procs : Job[p].manifest => \A f \in Job[p].pins \ overtaken : target[f] = Right(f)

\* One process at a time works under a file's lock: "Two callers cannot collide on it because a
\* fetch is exclusive per target" (partialPath).  No kill, prune, release or end of a wait puts
\* two there; what does is a waiter that removes the lock of a process at work (overtaken): one
\* that found it older than LockWait, or a second one that found the same dead holder.
OneFetcher ==
  \A p, q \in Procs : p # q /\ Alive(p) /\ Alive(q) => proc[p].held \cap proc[q].held \subseteq overtaken

\* The same without the exception, which an age above LockWait or a third pull refutes.
AlwaysOneFetcher ==
  \A p, q \in Procs : p # q /\ Alive(p) /\ Alive(q) => proc[p].held \cap proc[q].held = {}

\* A pull that got every block undamaged does not report a wrong digest (download).  A killed
\* pull that left a partial as long as the file refutes it: the hash keeps those bytes.
DigestRefusalIsTrue ==
  damage = 0 => \A p \in Procs : proc[p].res = "digest" => proc[p].from + proc[p].n < Size[File(p)]
=============================================================================
