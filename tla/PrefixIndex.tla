---------------------------- MODULE PrefixIndex ----------------------------
(***************************************************************************)
(* What the leader believes of a worker's prefix cache.  The engine says   *)
(* in numbered frames which blocks it stored and evicted, on the card and  *)
(* in host memory; the worker translates them into its own hashes and      *)
(* hands what changed to each heartbeat; the leader folds that into the    *)
(* set it keeps for the worker.  Frames and heartbeats may be lost, the    *)
(* engine and the leader may restart.                                      *)
(***************************************************************************)
EXTENDS Integers, Sequences, FiniteSets, SequencesExt

CONSTANTS
  Blocks, Parent,        \* a block's parent in its chain, or "none"
  maxKnown, maxPending,  \* the translator's bounds
  prefixIndexPerWorker,  \* the leader's
  Copies,                \* announcements of one block in host memory (cache groups)
  MaxEvents, MaxLosses   \* bounds: engine events; lost frames, failed heartbeats, restarts

VARIABLES
  card, ram,    \* what the engine holds: blocks; copies by block
  eseq,         \* its next frame number
  frames,       \* frames on their way
  tr,           \* the translator
  post,         \* the heartbeat under way
  index,        \* the leader's set for the worker, or None
  listed,       \* the leader knows the worker
  events, losses,
  blurred       \* history: blocks stored and removed within one heartbeat, by tier
vars == <<card, ram, eseq, frames, tr, post, index, listed, events, losses, blurred>>
engine == <<card, ram, eseq>>
counts == <<events, losses>>

None == [on |-> FALSE]
Empty == [on |-> TRUE, seq |-> 0, held |-> <<>>, cpuHeld |-> <<>>]
NoPost == [at |-> "none"]
NewTranslator == [known |-> {}, order |-> <<>>, stored |-> <<>>, removed |-> <<>>, cleared |-> FALSE,
                  seq |-> 0, last |-> 0 - 1, cpuKnown |-> {}, cpuOrder |-> <<>>,
                  cpuRefs |-> [b \in Blocks |-> 0], cpuStored |-> <<>>, cpuRemoved |-> <<>>]

Init ==
  /\ card = {} /\ ram = [b \in Blocks |-> 0] /\ eseq = 0 /\ frames = <<>>
  /\ tr = NewTranslator /\ post = NoPost /\ index = None /\ listed = TRUE
  /\ events = 0 /\ losses = 0 /\ blurred = {}

---------------------------------------------------------------------------
(* The engine.                                                             *)

Publish(tier, tag, b) ==
  /\ events < MaxEvents /\ events' = events + 1
  /\ frames' = Append(frames, [seq |-> eseq, tier |-> tier, tag |-> tag, block |-> b])
  /\ eseq' = eseq + 1
  /\ UNCHANGED <<tr, post, index, listed, losses, blurred>>

EngineStores(b) ==
  /\ b \notin card /\ Parent[b] \in card \cup {"none"}
  /\ card' = card \cup {b} /\ UNCHANGED ram
  /\ Publish("gpu", "BlockStored", b)

EngineEvicts(b) ==
  /\ b \in card
  /\ card' = card \ {b} /\ UNCHANGED ram
  /\ Publish("gpu", "BlockRemoved", b)

EngineOffloads(b) ==
  /\ b \in card /\ ram[b] < Copies
  /\ ram' = [ram EXCEPT ![b] = @ + 1] /\ UNCHANGED card
  /\ Publish("cpu", "BlockStored", b)

EngineDrops(b) ==
  /\ ram[b] > 0
  /\ ram' = [ram EXCEPT ![b] = @ - 1] /\ UNCHANGED card
  /\ Publish("cpu", "BlockRemoved", b)

EngineClears ==
  /\ card # {}
  /\ card' = {} /\ ram' = [b \in Blocks |-> 0]
  /\ Publish("gpu", "AllBlocksCleared", "none")

Loss == losses < MaxLosses /\ losses' = losses + 1

FrameLost ==
  /\ frames # <<>> /\ Loss
  /\ frames' = Tail(frames)
  /\ UNCHANGED <<engine, tr, post, index, listed, events, blurred>>

\* The worker listens again after its socket failed: frames of the meantime are lost.
Reopen ==
  /\ Loss
  /\ tr' = [NewTranslator EXCEPT !.seq = tr.seq, !.cleared = TRUE]
  /\ frames' = <<>>
  /\ UNCHANGED <<engine, post, index, listed, events, blurred>>

---------------------------------------------------------------------------
(* The translator: kvevents.Translator.                                    *)

Reset(t) ==
  [NewTranslator EXCEPT !.seq = t.seq, !.last = t.last, !.cleared = TRUE]

GapSeen(t, f) == t.last >= 0 /\ f.seq # t.last + 1

\* chainOf: a block whose parent was never seen is left out.
Named(t, b) == Parent[b] = "none" \/ Parent[b] \in t.known \cup t.cpuKnown

Rest(s, n) == SubSeq(s, n + 1, Len(s))
Beyond(s, bound) == IF Len(s) > bound THEN Len(s) - bound ELSE 0
Without(s, b) == SelectSeq(s, LAMBDA x : x # b)

\* A name is appended once while it is known; the oldest beyond the bound are forgotten.
Learn(known, order, b) ==
  LET o == IF b \in known THEN order ELSE Append(order, b)
      over == Beyond(o, maxKnown) IN
  [known |-> (known \cup {b}) \ ToSet(SubSeq(o, 1, over)), order |-> Rest(o, over)]

Stored(t, b) ==
  LET l == Learn(t.known, t.order, b) IN
  IF ~Named(t, b) THEN t
  ELSE [t EXCEPT !.known = l.known, !.order = l.order, !.stored = Append(@, b)]

Removed(t, b) ==
  IF b \notin t.known THEN t ELSE [t EXCEPT !.known = @ \ {b}, !.removed = Append(@, b)]

CPUStored(t, b) ==
  LET l == Learn(t.cpuKnown, t.cpuOrder, b) IN
  IF ~Named(t, b) THEN t
  ELSE [t EXCEPT !.cpuKnown = l.known, !.cpuOrder = l.order, !.cpuRefs[b] = @ + 1,
                 !.cpuStored = IF t.cpuRefs[b] = 0 THEN Append(@, b) ELSE @]

\* The block has left host memory with the last of its announcements.
CPURemoved(t, b) ==
  IF b \notin t.cpuKnown THEN t
  ELSE IF t.cpuRefs[b] > 1 THEN [t EXCEPT !.cpuRefs[b] = @ - 1]
  ELSE [t EXCEPT !.cpuRefs[b] = 0, !.cpuKnown = @ \ {b}, !.cpuRemoved = Append(@, b)]

Event(t, f) ==
  CASE f.tag = "AllBlocksCleared" -> Reset(t)
    [] f.tag = "BlockStored" -> IF f.tier = "cpu" THEN CPUStored(t, f.block) ELSE Stored(t, f.block)
    [] f.tag = "BlockRemoved" -> IF f.tier = "cpu" THEN CPURemoved(t, f.block) ELSE Removed(t, f.block)

Pending(t) == Len(t.stored) + Len(t.removed) + Len(t.cpuStored) + Len(t.cpuRemoved)

\* A gap, and too much at once, start over.
Read(t, f) ==
  LET u == Event([(IF GapSeen(t, f) THEN Reset(t) ELSE t) EXCEPT !.last = f.seq], f) IN
  IF Pending(u) > maxPending THEN Reset(u) ELSE u

\* Blocks this frame removes although their arrival has not been handed on yet.
Blurred(t, f) ==
  IF f.tag = "BlockRemoved" /\ f.block \in ToSet(IF f.tier = "cpu" THEN t.cpuStored ELSE t.stored)
  THEN {<<f.tier, f.block>>} ELSE {}

Frame ==
  /\ frames # <<>>
  /\ tr' = Read(tr, frames[1])
  /\ blurred' = blurred \cup Blurred(tr, frames[1])
  /\ frames' = Tail(frames)
  /\ UNCHANGED <<engine, post, index, listed, counts>>

Sends(t) == t.cleared \/ Pending(t) > 0

\* Drain, into the heartbeat's body.
Drain ==
  /\ post = NoPost
  /\ post' = [at |-> "sent", any |-> Sends(tr), seq |-> tr.seq + 1, stored |-> tr.stored, removed |-> tr.removed,
              cleared |-> tr.cleared, cpuStored |-> tr.cpuStored, cpuRemoved |-> tr.cpuRemoved]
  /\ tr' = IF ~Sends(tr) THEN tr
           ELSE [tr EXCEPT !.seq = @ + 1, !.stored = <<>>, !.removed = <<>>, !.cleared = FALSE,
                           !.cpuStored = <<>>, !.cpuRemoved = <<>>]
  /\ UNCHANGED <<engine, frames, index, listed, counts, blurred>>

\* The last maxPending names still known, oldest first.
Held(order, known) ==
  LET s == SelectSeq(order, LAMBDA b : b \in known)
      once == SelectSeq([k \in DOMAIN s |-> <<k, s[k]>>], LAMBDA p : p[2] \notin ToSet(Rest(s, p[1])))
  IN  Rest([k \in DOMAIN once |-> once[k][2]], Beyond(once, maxPending))

\* Mutant: what was to be said is forgotten, and nothing said again.
ResyncOnly(t) == [t EXCEPT !.stored = <<>>, !.removed = <<>>, !.cpuStored = <<>>, !.cpuRemoved = <<>>]

\* After a heartbeat that failed, everything is said again.
Resync(t) ==
  [t EXCEPT !.stored = Held(t.order, t.known), !.removed = <<>>, !.cleared = TRUE,
            !.cpuStored = Held(t.cpuOrder, t.cpuKnown), !.cpuRemoved = <<>>]

---------------------------------------------------------------------------
(* The leader: prefixIndex.                                                *)

\* Blocks that are held already move to the end; the oldest beyond the bound go.
Keep(held, new) ==
  FoldLeft(LAMBDA s, b : LET o == Append(Without(s, b), b) IN Rest(o, Beyond(o, prefixIndexPerWorker)), held, new)
Drop(held, gone) == SelectSeq(held, LAMBDA b : b \notin ToSet(gone))

\* apply: a batch that was never seen starts the set over.
Apply(w, kb) ==
  LET from == IF ~w.on \/ kb.cleared \/ (w.seq # 0 /\ kb.seq # w.seq + 1) THEN Empty ELSE w IN
  [from EXCEPT !.seq = kb.seq, !.held = Keep(Drop(@, kb.removed), kb.stored),
               !.cpuHeld = Keep(Drop(@, kb.cpuRemoved), kb.cpuStored)]

HeartbeatTaken ==
  /\ post.at = "sent" /\ listed
  /\ index' = IF post.any THEN Apply(index, post) ELSE index
  /\ post' = [post EXCEPT !.at = "taken"]
  /\ UNCHANGED <<engine, frames, tr, listed, counts, blurred>>

HeartbeatDone ==
  /\ post.at = "taken" /\ post' = NoPost
  /\ UNCHANGED <<engine, frames, tr, index, listed, counts, blurred>>

\* The request or its answer is lost.
HeartbeatFails ==
  /\ post # NoPost /\ Loss
  /\ post' = NoPost /\ tr' = Resync(tr)
  /\ UNCHANGED <<engine, frames, index, listed, events, blurred>>

\* 404: the worker says everything again, and registers.
HeartbeatUnknown ==
  /\ post.at = "sent" /\ ~listed
  /\ post' = NoPost /\ tr' = Resync(tr) /\ listed' = TRUE
  /\ UNCHANGED <<engine, frames, index, counts, blurred>>

\* prunePrefixIndex, liveReporter: a worker that fell silent is forgotten.
Forget ==
  /\ index # None /\ Loss
  /\ index' = None
  /\ UNCHANGED <<engine, frames, tr, post, listed, events, blurred>>

LeaderRestarts ==
  /\ listed /\ Loss
  /\ index' = None /\ listed' = FALSE
  /\ UNCHANGED <<engine, frames, tr, post, events, blurred>>

Next ==
  \/ \E b \in Blocks : EngineStores(b) \/ EngineEvicts(b) \/ EngineOffloads(b) \/ EngineDrops(b)
  \/ EngineClears \/ FrameLost \/ Reopen \/ Frame
  \/ Drain \/ HeartbeatTaken \/ HeartbeatDone \/ HeartbeatFails \/ HeartbeatUnknown
  \/ Forget \/ LeaderRestarts
Spec == Init /\ [][Next]_vars

---------------------------------------------------------------------------
\* Everything the engine said has been handed on: no frame, change or heartbeat is on its way.
Settled == frames = <<>> /\ ~Sends(tr) /\ post = NoPost /\ listed /\ tr.last + 1 = eseq
Believed == IF index.on THEN {<<"gpu", b>> : b \in ToSet(index.held)} \cup {<<"cpu", b>> : b \in ToSet(index.cpuHeld)}
            ELSE {}
True == {<<"gpu", b>> : b \in card} \cup {<<"cpu", b>> : b \in {c \in Blocks : ram[c] > 0}}

\* Once everything has been handed on, the leader lists no block the engine has let go (Frame, Drain,
\* Resync, apply), whatever was lost in between.
IndexIsTrue == Settled => Believed \subseteq True

\* The same for the blocks whose arrival and removal were not handed on together: apply takes the
\* removed ones out before it puts the stored ones in.
IndexIsTrueApart == Settled => Believed \ blurred \subseteq True
=============================================================================
