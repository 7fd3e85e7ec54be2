----------------------------- MODULE AuthFile ------------------------------
(***************************************************************************)
(* The watched auth snapshot: applyAuthSnapshot writes its keys into the   *)
(* store row by row while requests read them, any write may fail, and a    *)
(* tombstone outlives the snapshot that carried it.  Its other half is the *)
(* policy on worker certificates, which connections were handshaked under. *)
(* A key's hash is a number; expiry 0 is never, Unreadable does not parse. *)
(***************************************************************************)
EXTENDS Naturals, Sequences, FiniteSets

CONSTANTS
  Docs,              \* the snapshots written in turn: [good, keys, tomb, issued, mode, ca, revoked]
  Ids,               \* ids of snapshot keys
  Unreadable,
  MaxSnapshotAge,    \* the policy's bound, 0 for none
  WorkerCA,          \* the authority that signed the worker's certificate
  MaxFaults, MaxClock, MaxJoins

VARIABLES
  file, seen,        \* the snapshot on disk; the last one read well
  apply,             \* applyAuthSnapshot: what is left to do, under the lock
  rows,              \* api_keys
  issued, mtls, gen, \* of the snapshot in force
  clock, faults,
  conn, bound, joins, \* the worker's connection; who its node row is bound to; calls since the policy moved
  answer,            \* the last answer of a request, and of a join
  last, faulty, buried \* history: the snapshot applied before, whether a write of either failed, applied tombstones
vars == <<file, seen, apply, rows, issued, mtls, gen, clock, faults, conn, bound, joins, answer, last, faulty, buried>>

Absent == [hash |-> 0, exp |-> 0, revoked |-> FALSE]
Off == [mode |-> "off", ca |-> "none", revoked |-> FALSE]
Idle == [at |-> "idle"]
NoConn == [up |-> FALSE, gen |-> 0, verified |-> "none"]
Nothing == [v1 |-> "none", join |-> "none", ca |-> "none"]

Init ==
  /\ file = 1 /\ seen = 0 /\ apply = Idle
  /\ rows = [i \in Ids |-> Absent]
  /\ issued = 0 /\ mtls = Off /\ gen = 0 /\ clock = 1 /\ faults = 0
  /\ conn = NoConn /\ bound = "none" /\ joins = 0 /\ answer = Nothing
  /\ last = 0 /\ faulty = FALSE /\ buried = {}

Exists(i) == rows[i].hash # 0
Live(i) == Exists(i) /\ ~rows[i].revoked
NotConn == UNCHANGED <<conn, bound, joins, answer>>
NotFile == UNCHANGED <<file, seen, apply, rows, issued, mtls, gen, last, faulty, buried>>

\* A write to the store, which may fail.
Fails == faults < MaxFaults /\ faults' = faults + 1 /\ faulty' = TRUE
Works == UNCHANGED <<faults, faulty>>

---------------------------------------------------------------------------
(* The watcher and applyAuthSnapshot.                                      *)

WriteFile ==
  /\ file < Len(Docs)
  /\ file' = file + 1
  /\ UNCHANGED <<seen, apply, rows, issued, mtls, gen, clock, faults, last, faulty, buried>> /\ NotConn

\* load: a snapshot that does not parse keeps the last good one and is read again.
Load ==
  /\ apply = Idle /\ file > seen /\ Docs[file].good
  /\ seen' = file
  /\ \/ /\ Works
        /\ LET tomb == Docs[file].tomb
               listed == DOMAIN Docs[file].keys \ tomb IN
           apply' = [at |-> "apply", byID |-> rows, keys |-> listed, tomb |-> tomb,
                     gone |-> {i \in Ids : Live(i)} \ (listed \cup tomb)]
     \/ Fails /\ apply' = apply      \* the rows cannot be listed: nothing of it is applied
  /\ UNCHANGED <<file, rows, issued, mtls, gen, clock, last, buried>> /\ NotConn

\* The rows' hashes are unique.
Taken(h, i) == \E j \in Ids \ {i} : rows[j].hash = h

\* One key: created, updated in place, or left as it is.
ApplyKey(i) ==
  LET k == Docs[seen].keys[i] cur == apply.byID[i]
      leave == k.exp = Unreadable \/ cur.revoked \/ (cur.hash = k.hash /\ cur.exp = k.exp) IN
  /\ apply.at = "apply" /\ i \in apply.keys
  /\ apply' = [apply EXCEPT !.keys = @ \ {i}]
  /\ \/ leave /\ Works /\ rows' = rows
     \/ ~leave /\ ~Taken(k.hash, i) /\ Works /\ rows' = [rows EXCEPT ![i] = [hash |-> k.hash, exp |-> k.exp, revoked |-> FALSE]]
     \/ ~leave /\ Fails /\ rows' = rows
  /\ UNCHANGED <<file, seen, issued, mtls, gen, clock, last, buried>> /\ NotConn

Revoke(i) ==
  \/ Works /\ rows' = [rows EXCEPT ![i].revoked = TRUE]
  \/ Fails /\ rows' = rows

\* A key that left the snapshot.
RevokeGone(i) ==
  /\ apply.at = "apply" /\ apply.keys = {} /\ i \in apply.gone
  /\ apply' = [apply EXCEPT !.gone = @ \ {i}]
  /\ Revoke(i)
  /\ UNCHANGED <<file, seen, issued, mtls, gen, clock, last, buried>> /\ NotConn

\* Mutant: a key the store does not have is not buried.
TombstoneKnownOnly(i) ==
  /\ apply.at = "apply" /\ apply.keys = {} /\ apply.gone = {} /\ i \in apply.tomb
  /\ apply' = [apply EXCEPT !.tomb = @ \ {i}]
  /\ IF Exists(i) THEN Revoke(i) ELSE Works /\ rows' = rows
  /\ buried' = IF Exists(i) /\ ~rows'[i].revoked THEN buried ELSE buried \cup {i}
  /\ UNCHANGED <<file, seen, issued, mtls, gen, clock, last>> /\ NotConn

\* A tombstone: an id without a row gets one that no key matches.
Tombstone(i) ==
  /\ apply.at = "apply" /\ apply.keys = {} /\ apply.gone = {} /\ i \in apply.tomb
  /\ apply' = [apply EXCEPT !.tomb = @ \ {i}]
  /\ \/ Works /\ rows' = IF Exists(i) THEN [rows EXCEPT ![i].revoked = TRUE]
                         ELSE [rows EXCEPT ![i] = [hash |-> 100, exp |-> 0, revoked |-> TRUE]]
     \/ Fails /\ rows' = rows
     \/ ~Exists(i) /\ Fails /\ rows' = [rows EXCEPT ![i] = [hash |-> 100, exp |-> 0, revoked |-> FALSE]]
  /\ buried' = IF faulty' = faulty /\ faults' = faults THEN buried \cup {i} ELSE buried
  /\ UNCHANGED <<file, seen, issued, mtls, gen, clock, last>> /\ NotConn

\* applyNodeMTLS: an authority that does not parse, or none, turns the mode off.  A snapshot may
\* revoke the worker's certificate by its serial, which makes no new generation.
MTLSOf(d) ==
  LET on == d.ca \notin {"none", "garbled"} IN
  [mode |-> IF on THEN d.mode ELSE "off", ca |-> IF on THEN d.ca ELSE "none", revoked |-> d.revoked]

Applied ==
  LET next == MTLSOf(Docs[seen]) IN
  /\ apply.at = "apply" /\ apply.keys = {} /\ apply.gone = {} /\ apply.tomb = {}
  /\ apply' = Idle /\ last' = seen
  /\ issued' = Docs[seen].issued
  /\ mtls' = next /\ gen' = IF next.mode = mtls.mode /\ next.ca = mtls.ca THEN gen ELSE gen + 1
  /\ joins' = IF next = mtls THEN joins ELSE 0
  /\ UNCHANGED <<file, seen, rows, clock, faults, faulty, buried, conn, bound, answer>>

Tick == clock < MaxClock /\ clock' = clock + 1 /\ UNCHANGED faults /\ NotFile /\ NotConn

---------------------------------------------------------------------------
(* Requests, and the worker's calls.                                       *)

staleAuthReason == MaxSnapshotAge > 0 /\ issued # 0 /\ clock > issued + MaxSnapshotAge

\* staleAuthGate, then the key middleware.
Request(h) ==
  LET mine == {i \in Ids : rows[i].hash = h} IN
  /\ answer' = [answer EXCEPT !.v1 =
       IF staleAuthReason THEN "unavailable"
       ELSE IF \A i \in mine : rows[i].revoked THEN "invalid"
       ELSE IF \A i \in mine : rows[i].exp # 0 /\ clock > rows[i].exp THEN "expired" ELSE "ok"]
  /\ UNCHANGED <<clock, faults, conn, bound, joins>> /\ NotFile

\* The handshake asks for a certificate only while there is an authority to check it with.
Handshake ==
  /\ ~conn.up
  /\ conn' = [up |-> TRUE, gen |-> gen, verified |-> IF mtls.ca = WorkerCA THEN mtls.ca ELSE "none"]
  /\ UNCHANGED <<clock, faults, bound, joins, answer>> /\ NotFile

\* mayActAs, for a worker that holds the node's key: "key", or the certificate.
mayActAs(caller) == caller = "certificate" \/ bound \in {"none", caller} \/ (bound = "certificate" /\ mtls.mode = "off")

FreshConn == mtls.mode = "off" \/ conn.gen = gen

\* Mutant: revocation is left to the handshake.
GateOpenOnceVerified(present) == present \/ mtls.mode # "require"

\* nodeCertGate: a certificate that was revoked is refused, also on a connection it opened before.
GateOpen(present) == IF present THEN ~mtls.revoked ELSE mtls.mode # "require"

\* nodeCertGate and RegisterNode: the connection is closed after the answer if its policy is gone.
Register ==
  LET present == mtls.mode # "off" /\ conn.verified # "none"
      caller == IF present THEN "certificate" ELSE "key"
      ok == GateOpen(present) /\ mayActAs(caller) IN
  /\ conn.up /\ joins < MaxJoins /\ joins' = joins + 1
  /\ conn' = IF FreshConn THEN conn ELSE NoConn
  /\ bound' = IF ok THEN caller ELSE bound
  /\ answer' = [answer EXCEPT !.join = IF ok THEN caller ELSE "refused", !.ca = IF present THEN conn.verified ELSE "none"]
  /\ UNCHANGED <<clock, faults>> /\ NotFile

Next ==
  \/ WriteFile \/ Load \/ Applied \/ Tick \/ Handshake \/ Register
  \/ \E i \in Ids : ApplyKey(i) \/ RevokeGone(i) \/ Tombstone(i)
  \/ \E h \in 1..3 : Request(h)
Spec == Init /\ [][Next]_vars

---------------------------------------------------------------------------
Lists(d, i) == d # 0 /\ i \in DOMAIN Docs[d].keys /\ rows[i].hash = Docs[d].keys[i].hash

\* While no write has failed, the keys are the snapshot's (applyAuthSnapshot): a live key is one the
\* snapshot in force lists, or the one being applied, or one whose new expiry cannot be read; when
\* none is being applied every listed key is live as listed, unless it was revoked before; and a
\* tombstone, once applied, holds whatever later snapshots list (applyKeyTombstones).
KeysFollowFile ==
  /\ ~faulty => \A i \in Ids : Live(i) => \/ Lists(last, i) \/ Lists(seen, i)
                                          \/ last # 0 /\ i \in DOMAIN Docs[last].keys /\ Docs[last].keys[i].exp = Unreadable
  /\ (~faulty /\ apply = Idle /\ last # 0) =>
       \A i \in DOMAIN Docs[last].keys \ Docs[last].tomb :
         rows[i].revoked \/ Docs[last].keys[i].exp = Unreadable \/ (Lists(last, i) /\ rows[i].exp = Docs[last].keys[i].exp)
  /\ \A i \in buried : ~Live(i)

\* From its second call after the policy moved, a worker is judged under the policy in force: no
\* certificate checked against another authority counts (nodeCertGate, withHandshakeMTLSGen).  From
\* its first one on, no certificate counts that this policy revokes.
JudgedByCurrent ==
  /\ (joins >= 2 /\ answer.join = "certificate") => answer.ca = mtls.ca
  /\ (joins >= 1 /\ answer.join = "certificate") => ~mtls.revoked
=============================================================================
