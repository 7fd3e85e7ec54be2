-------------------------- MODULE ModelMoveProofs --------------------------
(***************************************************************************)
(* For every set of nodes, moves and requests and every bound on faults: a *)
(* row that is draining has a move behind it, or one that said it stays;   *)
(* and a source that was released leaves that mark only with the model     *)
(* gone or in memory again, or under the flip of a further move.  The      *)
(* second needs that one move at most has a claim and that it knows its    *)
(* nodes.                                                                  *)
(*                                                                         *)
(* One move after another, with restarts of the leader and lost answers,   *)
(* keeps the model in service.  For this the invariant says, for every     *)
(* place of the move, what stands at its two nodes and what a heartbeat of *)
(* either, on its way since before, would write.                           *)
(***************************************************************************)
EXTENDS ModelMove, TLAPS

Pcs == {"idle", "admitted", "load", "await", "flip", "drain", "unload", "putback", "settle", "cleanup"}

Row == [status : {"none", "ready", "draining", "released"}, cold : BOOLEAN]

\* The part of the type invariant the argument needs.
MoveType ==
    /\ row \in [Nodes -> Row]
    /\ mv \in [Moves -> [pc : Pcs, from : Nodes \cup {""}, to : Nodes \cup {""}, already : BOOLEAN]]
    /\ left \subseteq Nodes

\* A move past its admission knows its two nodes.
NodesKnown == \A m \in Moves : mv[m].pc # "idle" => mv[m].from \in Nodes /\ mv[m].to \in Nodes

IInv == MoveType /\ NodesKnown /\ DrainHasADriver

\* What a report writes is a row, and it is draining only if it was before.
LEMMA ReportKeepsMark ==
  ASSUME NEW old \in Row, NEW held
  PROVE  /\ ReplaceForNode(old, held) \in Row
         /\ ReplaceForNode(old, held).status = "draining" => old.status = "draining"
<1> DEFINE cold == held = "installed"
<1>1. cold \in BOOLEAN
  OBVIOUS
<1>2. CASE held = "none"
  BY <1>2 DEF ReplaceForNode, NoRow, RowOf, Row
<1>3. CASE held # "none" /\ old.status = "draining"
  BY <1>1, <1>3 DEF ReplaceForNode, NoRow, RowOf, Row
<1>4. CASE held # "none" /\ old.status # "draining" /\ old.status = "released" /\ cold
  BY <1>1, <1>4 DEF ReplaceForNode, NoRow, RowOf, Row
<1>5. CASE held # "none" /\ old.status # "draining" /\ ~(old.status = "released" /\ cold)
  BY <1>1, <1>5 DEF ReplaceForNode, NoRow, RowOf, Row
<1> QED BY <1>2, <1>3, <1>4, <1>5

\* The inductive invariant holds initially.
LEMMA InitIInv == Init => IInv
<1> SUFFICES ASSUME Init PROVE IInv
  OBVIOUS
<1>1. NoRow \in Row
  BY DEF NoRow, RowOf, Row
<1>2. \A n \in Nodes : row[n] = ReplaceForNode(NoRow, engine[n])
  BY Zenon DEF Init
<1>3. \A n \in Nodes : row[n].status # "draining"
  <2>1. NoRow.status # "draining"
    BY DEF NoRow, RowOf
  <2> QED BY <1>1, <1>2, <2>1, ReportKeepsMark
<1>4. row \in [Nodes -> Row]
  <2>1. \A n \in Nodes : row[n] \in Row
    BY <1>1, <1>2, ReportKeepsMark
  <2> QED BY Zenon, <2>1 DEF Init
<1>5. mv \in [Moves -> [pc : Pcs, from : Nodes \cup {""}, to : Nodes \cup {""}, already : BOOLEAN]]
  BY Zenon DEF Init, Idle, Pcs
<1>6. NodesKnown
  BY Zenon DEF Init, Idle, NodesKnown
<1> QED BY Zenon, <1>3, <1>4, <1>5, <1>6 DEF Init, IInv, MoveType, DrainHasADriver

\* A step of a move that only goes on to a phase on the same side of the flip.
LEMMA GotoKeeps ==
  ASSUME IInv, NEW m \in Moves, NEW pc \in Pcs, mv[m].pc # "idle", Goto(m, pc), UNCHANGED <<row, left>>,
         Flipped(m) => pc \in {"drain", "unload", "putback", "settle"}
  PROVE  IInv'
<1>1. mv' \in [Moves -> [pc : Pcs, from : Nodes \cup {""}, to : Nodes \cup {""}, already : BOOLEAN]]
  BY Zenon DEF Goto, IInv, MoveType
<1>2. \A o \in Moves : mv'[o].from = mv[o].from /\ mv'[o].to = mv[o].to /\ (o # m => mv'[o].pc = mv[o].pc)
  BY Zenon DEF Goto, IInv, MoveType
<1>3. mv'[m].pc = pc
  BY Zenon DEF Goto, IInv, MoveType
<1>4. \A o \in Moves : Flipped(o) => Flipped(o)'
  BY <1>2, <1>3 DEF Flipped
<1>5. NodesKnown'
  BY <1>2 DEF NodesKnown, IInv
<1>6. DrainHasADriver'
  BY <1>2, <1>4 DEF DrainHasADriver, IInv
<1> QED BY Zenon, <1>1, <1>5, <1>6 DEF IInv, MoveType

\* The end of a move that leaves its source's row accounted for.
LEMMA EndKeeps ==
  ASSUME IInv, NEW m \in Moves, Ended(m),
         row' \in [Nodes -> Row],
         left' \subseteq Nodes,
         \A n \in Nodes : row'[n].status = "draining" =>
            /\ row[n].status = "draining"
            /\ n \in left => n \in left'
            /\ Flipped(m) /\ mv[m].from = n => n \in left'
  PROVE  IInv'
<1>1. mv' \in [Moves -> [pc : Pcs, from : Nodes \cup {""}, to : Nodes \cup {""}, already : BOOLEAN]]
  BY Zenon DEF Ended, Idle, IInv, MoveType, Pcs
<1>2. \A o \in Moves : o # m => mv'[o] = mv[o]
  BY Zenon DEF Ended, IInv, MoveType
<1>3. mv'[m].pc = "idle"
  BY Zenon DEF Ended, Idle, IInv, MoveType
<1>4. NodesKnown'
  BY <1>2, <1>3 DEF NodesKnown, IInv
<1>5. \A o \in Moves : o # m /\ Flipped(o) => Flipped(o)' /\ mv'[o].from = mv[o].from
  BY <1>2 DEF Flipped
<1>6. DrainHasADriver'
  BY <1>5 DEF DrainHasADriver, IInv
<1> QED BY Zenon, <1>1, <1>4, <1>6 DEF IInv, MoveType
\* A step that leaves moves alone and marks no row keeps the invariant.
LEMMA RowKeeps ==
  ASSUME IInv, UNCHANGED mv, row' \in [Nodes -> Row], left' \subseteq Nodes,
         \A n \in Nodes : row'[n].status = "draining" => row[n].status = "draining" /\ (n \in left => n \in left')
  PROVE  IInv'
<1>1. NodesKnown'
  BY DEF NodesKnown, IInv
<1>2. DrainHasADriver'
  BY DEF DrainHasADriver, Flipped, IInv
<1> QED BY Zenon, <1>1, <1>2 DEF IInv, MoveType, Row

\* Every step of a move keeps it.
LEMMA MoveKeeps ==
  ASSUME IInv, NEW m \in Moves, MoveStep(m)
  PROVE  IInv'
<1> USE DEF Flipped, Pcs
<1>t. row \in [Nodes -> Row] /\ left \subseteq Nodes /\ mv[m].pc \in Pcs
  BY Zenon DEF IInv, MoveType, Row
<1>same. ASSUME Ended(m), UNCHANGED <<row, left>>, ~Flipped(m) PROVE IInv'
  BY <1>same, <1>t, EndKeeps DEF Row
<1>abort. ASSUME Abort(m), UNCHANGED <<row, left>>, mv[m].pc \in {"await", "flip"} PROVE IInv'
  <2>1. CASE mv[m].already
    BY <2>1, <1>abort, <1>same DEF Abort
  <2>2. CASE ~mv[m].already
    BY <2>2, <1>abort, GotoKeeps DEF Abort
  <2> QED BY <2>1, <2>2
<1>1. ASSUME NEW from \in Nodes, NEW to \in Nodes, Admit(m, from, to) PROVE IInv'
  <2>1. mv' = [mv EXCEPT ![m] = [pc |-> "admitted", from |-> from, to |-> to, already |-> Serving(to)]]
    BY <1>1 DEF Admit
  <2>2. Serving(to) \in BOOLEAN
    BY DEF Serving
  <2>3. mv' \in [Moves -> [pc : Pcs, from : Nodes \cup {""}, to : Nodes \cup {""}, already : BOOLEAN]]
    BY Zenon, <2>1, <2>2 DEF IInv, MoveType
  <2>4. \A o \in Moves : o # m => mv'[o] = mv[o]
    BY Zenon, <2>1 DEF IInv, MoveType
  <2>5. mv'[m].from \in Nodes /\ mv'[m].to \in Nodes
    BY Zenon, <2>1, <2>2 DEF IInv, MoveType
  <2>6. NodesKnown'
    BY <2>4, <2>5 DEF NodesKnown, IInv
  <2>7. mv[m].pc = "idle" /\ row' = row /\ left' = left
    BY <1>1 DEF Admit
  <2>8. DrainHasADriver'
    BY <2>4, <2>7 DEF DrainHasADriver, IInv
  <2> QED BY Zenon, <2>3, <2>6, <2>7, <2>8 DEF IInv, MoveType
<1>2. CASE Claim(m)
  <2>1. CASE Ended(m)
    BY <2>1, <1>2, <1>same DEF Claim
  <2>2. CASE ~Ended(m)
    <3> DEFINE pc == IF mv[m].already THEN "await" ELSE "load"
    <3>1. pc \in Pcs /\ Goto(m, pc)
      BY <2>2, <1>2 DEF Claim
    <3> QED BY <3>1, <1>2, GotoKeeps DEF Claim
  <2> QED BY <2>1, <2>2
<1>3. CASE Load(m)
  BY <1>3, GotoKeeps DEF Load
<1>4. CASE LoadRefused(m)
  BY <1>4, GotoKeeps DEF LoadRefused
<1>5. CASE AwaitRoutable(m)
  <2>1. CASE Abort(m)
    BY <2>1, <1>5, <1>abort DEF AwaitRoutable
  <2>2. CASE Goto(m, "flip")
    BY <2>2, <1>5, GotoKeeps DEF AwaitRoutable
  <2> QED BY <2>1, <2>2, <1>5 DEF AwaitRoutable
<1>6. CASE Flip(m)
  <2>1. CASE row[mv[m].from].status = "none"
    BY <2>1, <1>6, <1>abort DEF Flip
  <2>2. CASE row[mv[m].from].status # "none"
    <3>1. mv[m].from \in Nodes /\ mv[m].to \in Nodes
      BY <1>6 DEF Flip, IInv, NodesKnown
    <3>2. row' = [row EXCEPT ![mv[m].from].status = "draining"] /\ left' = left \ {mv[m].from} /\ Goto(m, "drain")
      BY <2>2, <1>6 DEF Flip, SetStatus
    <3>3. row' \in [Nodes -> Row]
      BY <3>1, <3>2, <1>t DEF Row
    <3>4. \A n \in Nodes : n # mv[m].from => row'[n] = row[n]
      BY <3>2, <1>t
    <3>5. mv' \in [Moves -> [pc : Pcs, from : Nodes \cup {""}, to : Nodes \cup {""}, already : BOOLEAN]]
      BY ZenonT(30), <3>2 DEF Goto, IInv, MoveType
    <3>6. \A o \in Moves : mv'[o].from = mv[o].from /\ mv'[o].to = mv[o].to /\ (o # m => mv'[o].pc = mv[o].pc)
      BY Zenon, <3>2 DEF Goto, IInv, MoveType
    <3>7. mv'[m].pc = "drain"
      BY Zenon, <3>2 DEF Goto, IInv, MoveType
    <3>8. NodesKnown'
      BY <3>6, <3>1 DEF NodesKnown, IInv
    <3>9. mv[m].pc = "flip"
      BY <1>6 DEF Flip
    <3>10. DrainHasADriver'
      <4> SUFFICES ASSUME NEW n \in Nodes, row'[n].status = "draining"
                   PROVE  n \in left' \/ \E o \in Moves : Flipped(o)' /\ mv'[o].from = n
        BY DEF DrainHasADriver
      <4>1. CASE n = mv[m].from
        BY <4>1, <3>6, <3>7
      <4>2. CASE n # mv[m].from
        BY <4>2, <3>2, <3>4, <3>6, <3>9 DEF DrainHasADriver, IInv
      <4> QED BY <4>1, <4>2
    <3> QED BY Zenon, <3>2, <3>3, <3>5, <3>8, <3>10, <1>t DEF IInv, MoveType, Row
  <2> QED BY <2>1, <2>2
<1>7. CASE AwaitIdle(m)
  BY <1>7, GotoKeeps DEF AwaitIdle
<1>8. CASE DrainTimeout(m)
  BY <1>8, GotoKeeps DEF DrainTimeout
<1>9. CASE Unload(m)
  BY <1>9, GotoKeeps DEF Unload
<1>10. CASE UnloadRefused(m)
  BY <1>10, GotoKeeps DEF UnloadRefused
<1>11. CASE PutBack(m)
  <2>1. mv[m].from \in Nodes
    BY <1>11 DEF PutBack, IInv, NodesKnown
  <2>2. \/ row' = row /\ row[mv[m].from].status = "none"
        \/ row' = [row EXCEPT ![mv[m].from].status = "ready"]
    BY <1>11 DEF PutBack, SetStatus
  <2>3. row' \in [Nodes -> Row] /\ row'[mv[m].from].status # "draining" /\ \A n \in Nodes : n # mv[m].from => row'[n] = row[n]
    BY <2>1, <2>2, <1>t DEF Row
  <2>4. Ended(m) /\ left' = left \ {mv[m].from}
    BY <1>11 DEF PutBack
  <2> QED BY <2>1, <2>3, <2>4, <1>t, EndKeeps DEF Row
<1>12. CASE SettleSource(m)
  <2>1. mv[m].from \in Nodes
    BY <1>12 DEF SettleSource, IInv, NodesKnown
  <2>2. Ended(m)
    BY <1>12 DEF SettleSource
  <2>3. CASE row[mv[m].from].status = "none" /\ UNCHANGED <<row, left>>
    BY <2>1, <2>2, <2>3, <1>t, EndKeeps DEF Row
  <2>4. CASE SetStatus(mv[m].from, "released") /\ left' = left \ {mv[m].from}
    <3>1. row' \in [Nodes -> Row] /\ row'[mv[m].from].status # "draining" /\ \A n \in Nodes : n # mv[m].from => row'[n] = row[n]
      BY <2>1, <2>4, <1>t DEF Row, SetStatus
    <3> QED BY <2>1, <2>2, <2>4, <3>1, <1>t, EndKeeps DEF Row
  <2>5. CASE left' = left \cup {mv[m].from} /\ UNCHANGED row
    BY <2>1, <2>2, <2>5, <1>t, EndKeeps DEF Row
  <2> QED BY <2>3, <2>4, <2>5, <1>12 DEF SettleSource
<1>13. CASE CleanupTarget(m)
  BY <1>13, <1>same DEF CleanupTarget
<1> QED BY <1>1, <1>2, <1>3, <1>4, <1>5, <1>6, <1>7, <1>8, <1>9, <1>10, <1>11, <1>12, <1>13 DEF MoveStep
\* Every step keeps the inductive invariant.
LEMMA NextIInv == IInv /\ [Next]_vars => IInv'
<1> SUFFICES ASSUME IInv, [Next]_vars PROVE IInv'
  OBVIOUS
<1>t. row \in [Nodes -> Row] /\ left \subseteq Nodes
  BY Zenon DEF IInv, MoveType
<1>same. ASSUME UNCHANGED <<row, mv, left>> PROVE IInv'
  BY <1>same, <1>t, RowKeeps
<1>1. ASSUME NEW m \in Moves, MoveStep(m) PROVE IInv'
  BY <1>1, MoveKeeps
<1>2. ASSUME NEW r \in Requests, RequestStep(r) PROVE IInv'
  BY Zenon, <1>2, <1>same DEF RequestStep, Pick, Send, FirstEvent, Finish
<1>3. ASSUME NEW n \in Nodes, WorkerStep(n) PROVE IInv'
  <2>1. CASE Heartbeat(n)
    <3>1. row' = [row EXCEPT ![n] = ReplaceForNode(row[n], report[n])]
      BY <2>1 DEF Heartbeat
    <3>2. row[n] \in Row
      BY <1>t
    <3>3. ReplaceForNode(row[n], report[n]) \in Row
      BY <3>2, ReportKeepsMark
    <3>4. row' \in [Nodes -> Row]
      BY <3>1, <3>3, <1>t
    <3>5. \A k \in Nodes : row'[k].status = "draining" => row[k].status = "draining"
      BY <3>1, <3>2, <1>t, ReportKeepsMark
    <3>6. left' \subseteq Nodes /\ \A k \in Nodes : row'[k].status = "draining" /\ k \in left => k \in left'
      BY <2>1, <1>t DEF Heartbeat
    <3>7. mv' = mv
      BY <2>1 DEF Heartbeat
    <3> QED BY <3>4, <3>5, <3>6, <3>7, RowKeeps
  <2>2. CASE Report(n) \/ FinishLoad(n) \/ FailLoad(n)
    BY <2>2, <1>same DEF Report, FinishLoad, FailLoad
  <2>3. CASE EngineRestart(n) \/ Flap(n)
    BY <2>3, <1>same DEF EngineRestart, Flap
  <2> QED BY <1>3, <2>1, <2>2, <2>3 DEF WorkerStep
<1>4. CASE Restart
  <2>1. row' = [n \in Nodes |-> IF row[n].status = "draining" THEN RowOf("ready", row[n].cold) ELSE row[n]]
    BY Zenon, <1>4 DEF Restart
  <2>2. \A n \in Nodes : row'[n] \in Row /\ row'[n].status # "draining"
    BY <2>1, <1>t DEF Row, RowOf
  <2>3. row' \in [Nodes -> Row]
    BY <2>1, <2>2
  <2>4. mv' = [m \in Moves |-> Idle] /\ left' = {}
    BY Zenon, <1>4 DEF Restart
  <2>5. mv' \in [Moves -> [pc : Pcs, from : Nodes \cup {""}, to : Nodes \cup {""}, already : BOOLEAN]]
    BY Zenon, <2>4 DEF Idle, Pcs
  <2>6. NodesKnown'
    BY Zenon, <2>4 DEF NodesKnown, Idle
  <2>7. DrainHasADriver'
    BY <2>2 DEF DrainHasADriver
  <2> QED BY Zenon, <2>3, <2>4, <2>5, <2>6, <2>7 DEF IInv, MoveType
<1>5. CASE UNCHANGED vars
  BY <1>5, <1>same DEF vars
<1> QED BY <1>1, <1>2, <1>3, <1>4, <1>5 DEF Next

\* Whatever the leader, the workers and the answers do, liftStaleDrains,
\* ReplaceForNode and the ends of MoveModel leave no row draining that no move
\* is going to settle and none has reported as left.
THEOREM DrainAlwaysHasADriver == Spec => []DrainHasADriver
<1>1. IInv => DrainHasADriver
  BY DEF IInv
<1> QED BY InitIInv, NextIInv, <1>1, PTL DEF Spec

-----------------------------------------------------------------------------
(* A released row comes back only with its model in memory *)

\* claim lets one move at a time past its admission.
OneClaim == \A m, o \in Moves : Claimed(m) /\ Claimed(o) => m = o

\* The source of a move that has flipped is not released: that is how it ends.
UnderWay == \A m \in Moves : Flipped(m) => row[mv[m].from].status # "released"

ClaimInv == OneClaim /\ UnderWay

\* A step that claims for no further move, flips none and releases nothing.
LEMMA ClaimKeeps ==
  ASSUME IInv, ClaimInv, \A m \in Moves : Claimed(m)' => Claimed(m),
         \A m \in Moves : Flipped(m)' => mv'[m].from \in Nodes /\ Flipped(m) /\ mv'[m].from = mv[m].from,
         \A n \in Nodes : row'[n].status = "released" => row[n].status = "released"
  PROVE  ClaimInv'
<1>1. OneClaim'
  BY DEF OneClaim, ClaimInv
<1>2. UnderWay'
  BY DEF UnderWay, ClaimInv
<1> QED BY <1>1, <1>2 DEF ClaimInv

\* A move goes on, on the same side of the claim and of the flip.
LEMMA GotoClaim ==
  ASSUME IInv, ClaimInv, NEW m \in Moves, NEW pc \in Pcs, Goto(m, pc), UNCHANGED row, Claimed(m),
         pc \in {"drain", "unload", "putback", "settle"} => Flipped(m)
  PROVE  ClaimInv'
<1>1. \A o \in Moves : mv'[o].from = mv[o].from /\ (o # m => mv'[o].pc = mv[o].pc)
  BY Zenon DEF Goto, IInv, MoveType
<1>2. mv'[m].pc = pc
  BY Zenon DEF Goto, IInv, MoveType
<1>3. \A o \in Moves : Claimed(o)' => Claimed(o)
  BY <1>1 DEF Claimed
<1>4. \A o \in Moves : Flipped(o)' => mv'[o].from \in Nodes /\ Flipped(o) /\ mv'[o].from = mv[o].from
  BY <1>1, <1>2 DEF Flipped, IInv, NodesKnown
<1> QED BY <1>3, <1>4, ClaimKeeps

\* A move ends, and its source may be released with that.
LEMMA EndClaim ==
  ASSUME IInv, ClaimInv, NEW m \in Moves, Ended(m),
         \A n \in Nodes : row'[n].status = "released" => row[n].status = "released" \/ Claimed(m)
  PROVE  ClaimInv'
<1>1. \A o \in Moves : o # m => mv'[o] = mv[o]
  BY Zenon DEF Ended, IInv, MoveType
<1>2. mv'[m].pc = "idle"
  BY Zenon DEF Ended, Idle, IInv, MoveType
<1>3. \A o \in Moves : Claimed(o)' => Claimed(o) /\ o # m
  BY <1>1, <1>2 DEF Claimed
<1>4. OneClaim'
  BY <1>3 DEF OneClaim, ClaimInv
<1>5. \A o \in Moves : Flipped(o)' => Claimed(o)' /\ mv[o].from \in Nodes
  BY <1>1, <1>3 DEF Flipped, Claimed, IInv, NodesKnown
<1>6. ASSUME NEW o \in Moves, Flipped(o)' PROVE row'[mv'[o].from].status # "released"
  <2>1. o # m /\ mv'[o] = mv[o] /\ Claimed(o) /\ mv[o].from \in Nodes
    BY <1>1, <1>3, <1>5, <1>6
  <2>2. ~Claimed(m)
    BY <2>1 DEF OneClaim, ClaimInv
  <2>3. Flipped(o)
    BY <2>1, <1>6 DEF Flipped
  <2> QED BY <2>1, <2>2, <2>3 DEF UnderWay, ClaimInv
<1>7. UnderWay'
  BY <1>6 DEF UnderWay
<1> QED BY <1>4, <1>7 DEF ClaimInv

\* Every step of a move keeps the claim its own.
LEMMA MoveClaim ==
  ASSUME IInv, ClaimInv, NEW m \in Moves, MoveStep(m)
  PROVE  ClaimInv'
<1> USE DEF Pcs
<1>t. row \in [Nodes -> Row] /\ mv[m].pc \in Pcs
  BY Zenon DEF IInv, MoveType, Row
<1>abort. ASSUME Abort(m), UNCHANGED row, mv[m].pc \in {"await", "flip"} PROVE ClaimInv'
  BY <1>abort, EndClaim, GotoClaim DEF Abort, Claimed
<1>1. ASSUME NEW from \in Nodes, NEW to \in Nodes, Admit(m, from, to) PROVE ClaimInv'
  <2>1. \A o \in Moves : o # m => mv'[o] = mv[o]
    BY Zenon, <1>1 DEF Admit, IInv, MoveType
  <2>2. mv'[m].pc = "admitted" /\ UNCHANGED row
    BY Zenon, <1>1 DEF Admit, IInv, MoveType
  <2>3. \A o \in Moves : Claimed(o)' => Claimed(o)
    BY <2>1, <2>2 DEF Claimed
  <2>4. \A o \in Moves : Flipped(o)' => mv'[o].from \in Nodes /\ Flipped(o) /\ mv'[o].from = mv[o].from
    BY <2>1, <2>2 DEF Flipped, IInv, NodesKnown
  <2> QED BY <2>2, <2>3, <2>4, ClaimKeeps
<1>2. CASE Claim(m)
  <2>1. CASE Ended(m)
    BY <2>1, <1>2, EndClaim DEF Claim
  <2>2. CASE ~Ended(m)
    <3> DEFINE pc == IF mv[m].already THEN "await" ELSE "load"
    <3>1. Goto(m, pc) /\ UNCHANGED row /\ \A o \in Moves : ~Claimed(o)
      BY <2>2, <1>2 DEF Claim
    <3>2. \A o \in Moves : o # m => mv'[o] = mv[o]
      BY Zenon, <3>1 DEF Goto, IInv, MoveType
    <3>3. mv'[m].pc \in {"await", "load"}
      BY Zenon, <3>1 DEF Goto, IInv, MoveType
    <3>4. OneClaim'
      BY <3>1, <3>2 DEF OneClaim, Claimed
    <3>5. UnderWay'
      BY <3>1, <3>2, <3>3 DEF UnderWay, Flipped, Claimed
    <3> QED BY <3>4, <3>5 DEF ClaimInv
  <2> QED BY <2>1, <2>2
<1>3. CASE Load(m) \/ LoadRefused(m)
  BY <1>3, GotoClaim DEF Load, LoadRefused, Claimed
<1>4. CASE AwaitRoutable(m)
  BY <1>4, <1>abort, GotoClaim DEF AwaitRoutable, Claimed
<1>5. CASE Flip(m)
  <2>1. CASE row[mv[m].from].status = "none"
    BY <2>1, <1>5, <1>abort DEF Flip
  <2>2. CASE row[mv[m].from].status # "none"
    <3>1. mv[m].from \in Nodes /\ Claimed(m)
      BY <1>5 DEF Flip, Claimed, IInv, NodesKnown
    <3>2. row' = [row EXCEPT ![mv[m].from].status = "draining"] /\ Goto(m, "drain")
      BY <2>2, <1>5 DEF Flip, SetStatus
    <3>3. row'[mv[m].from].status = "draining"
      BY <3>1, <3>2, <1>t DEF Row
    <3>4. \A o \in Moves : mv'[o].from = mv[o].from /\ (o # m => mv'[o].pc = mv[o].pc)
      BY Zenon, <3>2 DEF Goto, IInv, MoveType
    <3>5. \A o \in Moves : Claimed(o)' => Claimed(o)
      BY <3>1, <3>4 DEF Claimed
    <3>6. OneClaim'
      BY <3>5 DEF OneClaim, ClaimInv
    <3>7. \A o \in Moves : Flipped(o)' => o = m
      BY <3>1, <3>4, <3>5 DEF Flipped, Claimed, OneClaim, ClaimInv
    <3>8. UnderWay'
      BY <3>3, <3>4, <3>7 DEF UnderWay
    <3> QED BY <3>6, <3>8 DEF ClaimInv
  <2> QED BY <2>1, <2>2
<1>6. CASE AwaitIdle(m) \/ DrainTimeout(m)
  BY <1>6, GotoClaim DEF AwaitIdle, DrainTimeout, Claimed, Flipped
<1>7. CASE Unload(m) \/ UnloadRefused(m)
  BY <1>7, GotoClaim DEF Unload, UnloadRefused, Claimed, Flipped
<1>8. CASE PutBack(m)
  BY <1>8, EndClaim DEF PutBack, Claimed
<1>9. CASE SettleSource(m)
  BY <1>9, EndClaim DEF SettleSource, Claimed
<1>10. CASE CleanupTarget(m)
  BY <1>10, EndClaim DEF CleanupTarget, Claimed
<1> QED BY <1>1, <1>2, <1>3, <1>4, <1>5, <1>6, <1>7, <1>8, <1>9, <1>10 DEF MoveStep

\* What a report makes of a row: it is released only if it was, and a released
\* row is made ready only by a report of a model in memory.
LEMMA ReportReleases ==
  ASSUME NEW old \in Row, NEW held
  PROVE  /\ ReplaceForNode(old, held).status = "released" => old.status = "released"
         /\ old.status = "released" /\ ReplaceForNode(old, held).status = "ready" => ~ReplaceForNode(old, held).cold
<1> DEFINE cold == held = "installed"
<1>1. CASE held = "none"
  BY <1>1 DEF ReplaceForNode, NoRow, RowOf
<1>2. CASE held # "none" /\ old.status = "draining"
  BY <1>2 DEF ReplaceForNode, NoRow, RowOf
<1>3. CASE held # "none" /\ old.status = "released" /\ cold
  BY <1>3 DEF ReplaceForNode, NoRow, RowOf
<1>4. CASE held # "none" /\ old.status = "released" /\ ~cold
  BY Zenon, <1>4 DEF ReplaceForNode, NoRow, RowOf
<1>5. CASE held # "none" /\ old.status # "draining" /\ old.status # "released"
  BY <1>5 DEF ReplaceForNode, NoRow, RowOf
<1> QED BY <1>1, <1>2, <1>3, <1>4, <1>5

\* Every step keeps the claim.
LEMMA NextClaim == IInv /\ ClaimInv /\ [Next]_vars => ClaimInv'
<1> SUFFICES ASSUME IInv, ClaimInv, [Next]_vars PROVE ClaimInv'
  OBVIOUS
<1>t. row \in [Nodes -> Row]
  BY Zenon DEF IInv, MoveType
<1>same. ASSUME UNCHANGED mv, \A n \in Nodes : row'[n].status = "released" => row[n].status = "released" PROVE ClaimInv'
  <2>1. \A m \in Moves : (Claimed(m)' => Claimed(m)) /\ (Flipped(m)' => mv'[m].from \in Nodes /\ Flipped(m) /\ mv'[m].from = mv[m].from)
    BY <1>same DEF Claimed, Flipped, IInv, NodesKnown
  <2> QED BY <2>1, <1>same, ClaimKeeps
<1>1. ASSUME NEW m \in Moves, MoveStep(m) PROVE ClaimInv'
  BY <1>1, MoveClaim
<1>2. ASSUME NEW r \in Requests, RequestStep(r) PROVE ClaimInv'
  BY Zenon, <1>2, <1>same DEF RequestStep, Pick, Send, FirstEvent, Finish
<1>3. ASSUME NEW n \in Nodes, WorkerStep(n) PROVE ClaimInv'
  <2>1. CASE Heartbeat(n)
    <3>1. row' = [row EXCEPT ![n] = ReplaceForNode(row[n], report[n])] /\ UNCHANGED mv /\ row[n] \in Row
      BY <2>1, <1>t DEF Heartbeat
    <3>2. \A k \in Nodes : row'[k].status = "released" => row[k].status = "released"
      BY <3>1, <1>t, ReportReleases
    <3> QED BY <3>1, <3>2, <1>same
  <2>2. CASE ~Heartbeat(n)
    BY <2>2, <1>3, <1>same DEF WorkerStep, Report, FinishLoad, FailLoad, EngineRestart, Flap
  <2> QED BY <2>1, <2>2
<1>4. CASE Restart
  BY Zenon, <1>4 DEF Restart, Idle, ClaimInv, OneClaim, UnderWay, Claimed, Flipped
<1>5. CASE UNCHANGED vars
  BY <1>5, <1>same DEF vars
<1> QED BY <1>1, <1>2, <1>3, <1>4, <1>5 DEF Next

\* A released row loses its mark by a report, without the model or of a model in
\* memory, or by the flip of a move.
LEMMA NextReleases == IInv /\ ClaimInv /\ [Next]_vars => [ReleasedStep]_vars
<1> SUFFICES ASSUME IInv, ClaimInv, Next PROVE ReleasedStep
  OBVIOUS
<1>t. row \in [Nodes -> Row]
  BY Zenon DEF IInv, MoveType
<1>same. ASSUME UNCHANGED row PROVE ReleasedStep
  BY <1>same DEF ReleasedStep
<1>set. ASSUME NEW n \in Nodes, NEW status, SetStatus(n, status), status = "released" \/ row[n].status # "released"
        PROVE  ReleasedStep
  <2>1. \A k \in Nodes : k # n => row'[k] = row[k]
    BY <1>set, <1>t DEF SetStatus
  <2>2. row'[n].status = status
    BY <1>set, <1>t DEF SetStatus, Row
  <2> QED BY <1>set, <2>1, <2>2 DEF ReleasedStep
<1>1. ASSUME NEW m \in Moves, MoveStep(m) PROVE ReleasedStep
  <2>1. CASE PutBack(m)
    <3>1. mv[m].from \in Nodes /\ row[mv[m].from].status # "released"
      BY <2>1 DEF PutBack, IInv, NodesKnown, ClaimInv, UnderWay, Flipped
    <3> QED BY <2>1, <3>1, <1>same, <1>set DEF PutBack
  <2>2. CASE SettleSource(m)
    <3>1. mv[m].from \in Nodes
      BY <2>2 DEF SettleSource, IInv, NodesKnown
    <3> QED BY <2>2, <3>1, <1>same, <1>set DEF SettleSource
  <2>3. CASE Flip(m)
    <3> DEFINE f == mv[m].from
    <3>1. f \in Nodes /\ mv[m].pc = "flip"
      BY ZenonT(30), <2>3 DEF Flip, IInv, NodesKnown
    <3>2. CASE UNCHANGED row
      BY <3>2, <1>same
    <3>3. CASE SetStatus(f, "draining") /\ Goto(m, "drain")
      <4>1. mv'[m].pc = "drain"
        BY Zenon, <3>3 DEF Goto, IInv, MoveType
      <4>2. row'[f].status = "draining" /\ \A k \in Nodes : k # f => row'[k] = row[k]
        BY <3>1, <3>3, <1>t DEF SetStatus, Row
      <4> QED BY <3>1, <4>1, <4>2 DEF ReleasedStep
    <3> QED BY <2>3, <3>2, <3>3 DEF Flip
  <2>4. CASE ~PutBack(m) /\ ~SettleSource(m) /\ ~Flip(m)
    BY <2>4, <1>1, <1>same DEF MoveStep, Admit, Claim, Load, LoadRefused, AwaitRoutable, AwaitIdle, DrainTimeout,
                               Unload, UnloadRefused, CleanupTarget
  <2> QED BY <2>1, <2>2, <2>3, <2>4
<1>2. ASSUME NEW r \in Requests, RequestStep(r) PROVE ReleasedStep
  BY Zenon, <1>2, <1>same DEF RequestStep, Pick, Send, FirstEvent, Finish
<1>3. ASSUME NEW n \in Nodes, WorkerStep(n) PROVE ReleasedStep
  <2>1. CASE Heartbeat(n)
    <3>1. row' = [row EXCEPT ![n] = ReplaceForNode(row[n], report[n])] /\ row[n] \in Row
      BY <2>1, <1>t DEF Heartbeat
    <3>2. ASSUME NEW k \in Nodes, row[k].status = "released", row'[k].status # "released"
          PROVE  row'[k].status = "none" \/ (row'[k].status = "ready" /\ ~row'[k].cold)
      <4>1. k = n /\ row'[k] = ReplaceForNode(row[k], report[k])
        BY <3>1, <3>2, <1>t
      <4>2. row'[k].status \in {"none", "ready", "draining", "released"} /\ row'[k].status # "draining"
        BY <3>1, <3>2, <4>1, ReportKeepsMark DEF Row
      <4>3. row'[k].status = "ready" => ~row'[k].cold
        BY <3>1, <3>2, <4>1, ReportReleases
      <4> QED BY <3>2, <4>2, <4>3
    <3> QED BY <3>2 DEF ReleasedStep
  <2>2. CASE ~Heartbeat(n)
    BY <2>2, <1>3, <1>same DEF WorkerStep, Report, FinishLoad, FailLoad, EngineRestart, Flap
  <2> QED BY <2>1, <2>2
<1>4. CASE Restart
  <2>1. \A n \in Nodes : row[n].status = "released" => row'[n] = row[n]
    BY Zenon, <1>4 DEF Restart
  <2> QED BY <2>1 DEF ReleasedStep
<1> QED BY <1>1, <1>2, <1>3, <1>4 DEF Next

\* A source that MoveModel released is not put back in rotation by a heartbeat
\* of a model out of memory, the end of a move, a lost answer or a restart of
\* the leader; it loses the mark with the model gone or in memory again, or to
\* a move that was admitted before and flips it once more.
THEOREM ReleasedAlwaysStaysOut == Spec => ReleasedStaysOut
<1>1. Init => ClaimInv
  <2> SUFFICES ASSUME Init PROVE ClaimInv
    OBVIOUS
  <2>1. \A m \in Moves : mv[m].pc = "idle"
    BY Zenon DEF Init, Idle
  <2>2. \A m \in Moves : ~Claimed(m) /\ ~Flipped(m)
    BY <2>1 DEF Claimed, Flipped
  <2> QED BY <2>2 DEF ClaimInv, OneClaim, UnderWay
<1> QED BY <1>1, InitIInv, NextIInv, NextClaim, NextReleases, PTL DEF Spec, ReleasedStaysOut

-----------------------------------------------------------------------------
(* One move after another keeps the model in service *)

\* One caller asks for a move at a time, once every worker has reported what the
\* last one did; workers stay, and no engine fails by itself.  The leader may
\* restart, answers may be lost, and loads, unloads and waits may fail.
Undisturbed ==
    /\ Patient = TRUE
    /\ MaxFaults["crash"] = 0 /\ MaxFaults["flap"] = 0
    /\ \A m, o \in Moves : m = o

\* A worker that serves: its engine holds the model, requests are sent there, and
\* no heartbeat on its way says otherwise.
Anchor(n) == engine[n] = "resident" /\ row[n].status = "ready" /\ report[n] # "none"

\* An engine of one model per process has no weights it keeps, and it is out of
\* rotation only under a move or when it is stopped for good.
NodeInv(n) ==
    n \notin Keeps =>
        /\ engine[n] # "installed"
        /\ report[n] # "installed"
        /\ row[n].cold = FALSE
        /\ row[n].status # "released"
        /\ row[n].status = "draining" =>
              \/ engine[n] = "none" /\ n \notin loading
              \/ \E m \in Moves : Flipped(m) /\ mv[m].from = n

\* Before the flip another worker than the target serves, unless the target did
\* at the admission; from the flip on the target does.
Stand(m) ==
    /\ mv[m].already \/ Flipped(m) => Anchor(mv[m].to)
    /\ ~(mv[m].already \/ Flipped(m)) => \E a \in Nodes : a # mv[m].to /\ Anchor(a)

\* Nothing but the absence of the model can be said of a node.
Silent(n) == report[n] \in {NoReport, "none"}

\* The target until the flip: it is started again by the load only if nothing
\* runs there, and its row and its heartbeat say that it serves only if it does.
TargetInv(m) ==
    /\ mv[m].already => mv[m].pc \notin {"load", "cleanup"}
    /\ mv[m].pc \in {"admitted", "load"} /\ ~mv[m].already /\ mv[m].to \notin Keeps =>
          engine[mv[m].to] = "none" /\ mv[m].to \notin loading /\ row[mv[m].to] = NoRow /\ Silent(mv[m].to)
    /\ mv[m].pc \in {"admitted", "load", "await", "flip"} =>
          /\ report[mv[m].to] = "resident" => engine[mv[m].to] = "resident"
          /\ Serving(mv[m].to) => engine[mv[m].to] = "resident" /\ report[mv[m].to] # "none"
    /\ mv[m].pc = "flip" => Anchor(mv[m].to)

\* The source: nothing brings the model in there, a heartbeat says that it is
\* gone only if it is, and once its row is gone its engine is.
SourceInv(m) ==
    /\ mv[m].from # mv[m].to
    /\ mv[m].from \notin loading
    /\ report[mv[m].from] = "none" => engine[mv[m].from] = "none"
    /\ Flipped(m) => row[mv[m].from].status \in {"none", "draining"}
    /\ Flipped(m) /\ row[mv[m].from].status = "none" => engine[mv[m].from] = "none" /\ Silent(mv[m].from)
    /\ mv[m].pc = "settle" /\ mv[m].from \notin Keeps => engine[mv[m].from] = "none"

WorldType ==
    /\ engine \in [Nodes -> Held]
    /\ report \in [Nodes -> Held \cup {NoReport}]
    /\ loading \subseteq Nodes
    /\ taking = Nodes
    /\ faults \in [FaultKinds -> Nat] /\ faults["crash"] = 0 /\ faults["flap"] = 0

ServiceInv ==
    /\ WorldType
    /\ \E a \in Nodes : Anchor(a)
    /\ \A n \in Nodes : NodeInv(n)
    /\ \A m \in Moves : mv[m].pc # "idle" => Stand(m) /\ TargetInv(m) /\ SourceInv(m)

\* What a report writes, by what the engine holds.
LEMMA ReportSays ==
  ASSUME NEW old \in Row, NEW held \in Held
  PROVE  /\ held = "none" => ReplaceForNode(old, held) = NoRow
         /\ held # "none" => ReplaceForNode(old, held).status # "none"
         /\ held = "installed" => ReplaceForNode(old, held).cold = TRUE
         /\ held = "resident" => ReplaceForNode(old, held).cold = FALSE
         /\ held # "none" /\ old.status = "draining" => ReplaceForNode(old, held).status = "draining"
         /\ held # "none" /\ old.status = "ready" => ReplaceForNode(old, held).status = "ready"
         /\ held = "resident" /\ old.status # "draining" => ReplaceForNode(old, held) = RowOf("ready", FALSE)
<1> DEFINE cold == held = "installed"
<1>1. CASE held = "none"
  <2>1. ReplaceForNode(old, held) = NoRow
    BY <1>1 DEF ReplaceForNode
  <2> QED BY <1>1, <2>1
<1>2. CASE held = "installed"
  <2>1. CASE old.status = "draining"
    BY Zenon, <1>2, <2>1 DEF ReplaceForNode, RowOf
  <2>2. CASE old.status = "released"
    BY Zenon, <1>2, <2>2 DEF ReplaceForNode, RowOf
  <2>3. CASE old.status \notin {"draining", "released"}
    BY Zenon, <1>2, <2>3 DEF ReplaceForNode, RowOf
  <2> QED BY Zenon, <2>1, <2>2, <2>3
<1>3. CASE held = "resident"
  <2>1. CASE old.status = "draining"
    BY Zenon, <1>3, <2>1 DEF ReplaceForNode, RowOf
  <2>2. CASE old.status # "draining"
    <3>1. ReplaceForNode(old, held) = RowOf("ready", FALSE)
      BY Zenon, <1>3, <2>2 DEF ReplaceForNode
    <3> QED BY <1>3, <2>2, <3>1 DEF RowOf
  <2> QED BY Zenon, <2>1, <2>2
<1> QED BY Zenon, <1>1, <1>2, <1>3 DEF Held

LEMMA RowFields == NoRow.status = "none" /\ NoRow.cold = FALSE /\ NoRow \in Row
                   /\ RowOf("ready", FALSE).status = "ready" /\ RowOf("ready", FALSE).cold = FALSE
  BY DEF NoRow, RowOf, Row

\* No worker goes or comes, and no engine fails.
LEMMA NoFault ==
  ASSUME Undisturbed, WorldType, NEW k \in {"crash", "flap"}
  PROVE  ~Fault(k)
  BY DEF Undisturbed, WorldType, Fault

\* With one move there is nothing to show of others.
LEMMA OneMove ==
  ASSUME Undisturbed, NEW m \in Moves, WorldType', \E a \in Nodes : Anchor(a)', \A n \in Nodes : NodeInv(n)',
         mv'[m].pc # "idle" => Stand(m)' /\ TargetInv(m)' /\ SourceInv(m)'
  PROVE  ServiceInv'
<1>1. \A o \in Moves : o = m
  BY ZenonT(30) DEF Undisturbed
<1> QED BY <1>1 DEF ServiceInv

\* A step of a worker: an engine that serves goes on, one that is stopped stays
\* so, and a heartbeat says what the engine holds.
LEMMA WorldKeeps ==
  ASSUME IInv, ServiceInv, UNCHANGED <<mv, row>>, WorldType',
         \A n \in Nodes : engine[n] = "none" /\ n \notin loading => engine'[n] = "none" /\ n \notin loading',
         loading' \subseteq loading,
         \A n \in Nodes : engine[n] = "resident" => engine'[n] = "resident",
         \A n \in Nodes : n \notin Keeps /\ engine[n] # "installed" => engine'[n] # "installed",
         \A n \in Nodes : report'[n] = report[n] \/ report'[n] = engine'[n]
  PROVE  ServiceInv'
<1>m. \A m \in Moves : mv'[m] = mv[m] /\ Flipped(m)' = Flipped(m)
  BY ZenonT(30) DEF Flipped
<1>r. \A n \in Nodes : row'[n] = row[n] /\ Serving(n)' = Serving(n)
  BY DEF Serving
<1>1. ASSUME NEW n \in Nodes, Anchor(n) PROVE Anchor(n)'
  BY Zenon, <1>1, <1>r DEF Anchor
<1>2. ASSUME NEW n \in Nodes PROVE NodeInv(n)'
  <2> SUFFICES ASSUME n \notin Keeps PROVE NodeInv(n)'
    BY Zenon DEF NodeInv
  <2>0. NodeInv(n)
    BY DEF ServiceInv
  <2>1. engine'[n] # "installed" /\ report'[n] # "installed"
    BY <2>0 DEF NodeInv
  <2> QED BY ZenonT(30), <2>0, <2>1, <1>m, <1>r DEF NodeInv
<1>3. ASSUME NEW m \in Moves, mv[m].pc # "idle" PROVE Stand(m)' /\ TargetInv(m)' /\ SourceInv(m)'
  <2>0. Stand(m) /\ TargetInv(m) /\ SourceInv(m) /\ mv[m].from \in Nodes /\ mv[m].to \in Nodes
    BY ZenonT(30), <1>3 DEF ServiceInv, IInv, NodesKnown
  <2>1. Stand(m)'
    BY ZenonT(30), <2>0, <1>1, <1>m DEF Stand
  <2>5. TargetInv(m)'
    <3> DEFINE t == mv[m].to
    <3>1. mv[m].pc \in {"admitted", "load"} /\ ~mv[m].already /\ t \notin Keeps =>
             engine'[t] = "none" /\ t \notin loading' /\ row'[t] = NoRow /\ Silent(t)'
      BY <2>0, <1>r DEF TargetInv, Silent
    <3>2. mv[m].pc \in {"admitted", "load", "await", "flip"} =>
             /\ report'[t] = "resident" => engine'[t] = "resident"
             /\ Serving(t)' => engine'[t] = "resident" /\ report'[t] # "none"
      BY <2>0, <1>r DEF TargetInv
    <3>3. mv[m].pc = "flip" => Anchor(t)'
      BY ZenonT(30), <2>0, <1>1 DEF TargetInv
    <3> QED BY ZenonT(30), <2>0, <3>1, <3>2, <3>3, <1>m DEF TargetInv
  <2>6. SourceInv(m)'
    <3> DEFINE f == mv[m].from
    <3>0. engine[f] = "none" => engine'[f] = "none"
      BY <2>0 DEF SourceInv
    <3>1. report'[f] = "none" => engine'[f] = "none"
      BY <2>0, <3>0 DEF SourceInv
    <3>2. Flipped(m) /\ row[f].status = "none" => engine'[f] = "none" /\ Silent(f)'
      BY <2>0, <3>0 DEF SourceInv, Silent
    <3>3. mv[m].pc = "settle" /\ f \notin Keeps => engine'[f] = "none"
      BY ZenonT(30), <2>0, <3>0 DEF SourceInv
    <3> QED BY SMTT(20), <2>0, <3>1, <3>2, <3>3, <1>m, <1>r DEF SourceInv
  <2> QED BY ZenonT(30), <2>1, <2>5, <2>6
<1> QED BY <1>1, <1>2, <1>3, <1>m DEF ServiceInv

\* A heartbeat is written, which may be of before: where it matters, what it says
\* is still so.
LEMMA HeartbeatKeeps ==
  ASSUME IInv, ServiceInv, NEW n \in Nodes, Heartbeat(n)
  PROVE  ServiceInv'
<1> DEFINE old == row[n]
           held == report[n]
           new == ReplaceForNode(old, held)
<1>a. WorldType /\ row \in [Nodes -> Row]
  BY Zenon DEF IInv, MoveType, ServiceInv
<1>t. WorldType /\ row \in [Nodes -> Row] /\ old \in Row /\ held \in Held
  BY <1>a DEF WorldType, Heartbeat
<1>u. UNCHANGED <<engine, loading, taking, mv, faults>>
  BY DEF Heartbeat
<1>m. \A m \in Moves : mv'[m] = mv[m] /\ Flipped(m)' = Flipped(m)
  BY ZenonT(30), <1>u DEF Flipped
<1>r. row'[n] = new /\ report'[n] = NoReport /\ \A k \in Nodes : k # n => row'[k] = row[k] /\ report'[k] = report[k]
  BY <1>t DEF Heartbeat, WorldType
<1>w. WorldType'
  BY <1>t, <1>u DEF WorldType, Heartbeat
<1>s. /\ held = "none" => new = NoRow /\ new.status = "none" /\ new.cold = FALSE
      /\ held = "installed" => new.cold = TRUE
      /\ held = "resident" => new.cold = FALSE
      /\ held # "none" => new.status # "none"
      /\ held # "none" /\ old.status = "draining" => new.status = "draining"
      /\ held # "none" /\ old.status = "ready" => new.status = "ready"
  <2>1. /\ held = "none" => new = NoRow
        /\ held = "installed" => new.cold = TRUE
        /\ held = "resident" => new.cold = FALSE
        /\ held # "none" => new.status # "none"
        /\ held # "none" /\ old.status = "draining" => new.status = "draining"
        /\ held # "none" /\ old.status = "ready" => new.status = "ready"
    BY Zenon, <1>t, ReportSays
  <2> HIDE DEF new, held, old
  <2> QED BY Zenon, <2>1, RowFields
<1>k. new.status = "draining" => old.status = "draining"
  BY <1>t, ReportKeepsMark
<1>l. new.status = "released" => old.status = "released"
  BY <1>t, ReportReleases
<1> HIDE DEF new
<1>1. ASSUME NEW k \in Nodes, Anchor(k) PROVE Anchor(k)'
  <2>1. CASE k = n
    BY <1>1, <1>r, <1>s, <1>u, <2>1 DEF Anchor, NoReport
  <2>2. CASE k # n
    BY <1>1, <1>r, <1>u, <2>2 DEF Anchor
  <2> QED BY <2>1, <2>2
<1>2. ASSUME NEW k \in Nodes PROVE NodeInv(k)'
  <2> SUFFICES ASSUME k \notin Keeps PROVE NodeInv(k)'
    BY Zenon DEF NodeInv
  <2>0. NodeInv(k)
    BY DEF ServiceInv
  <2>1. CASE k = n
    <3>1. new.cold = FALSE /\ new.status # "released" /\ report'[k] # "installed"
      BY <1>t, <1>r, <1>s, <1>l, <2>0, <2>1 DEF NodeInv, Held, NoReport
    <3> QED BY ZenonT(30), <1>k, <1>m, <1>r, <1>u, <2>0, <2>1, <3>1 DEF NodeInv
  <2>2. CASE k # n
    BY ZenonT(30), <1>m, <1>r, <1>u, <2>0, <2>2 DEF NodeInv
  <2> QED BY <2>1, <2>2
<1>3. ASSUME NEW m \in Moves, mv[m].pc # "idle" PROVE Stand(m)' /\ TargetInv(m)' /\ SourceInv(m)'
  <2>0. Stand(m) /\ TargetInv(m) /\ SourceInv(m) /\ mv[m].from \in Nodes /\ mv[m].to \in Nodes
    BY ZenonT(30), <1>3 DEF ServiceInv, IInv, NodesKnown
  <2>1. Stand(m)'
    BY ZenonT(30), <2>0, <1>1, <1>m DEF Stand
  <2>2. TargetInv(m)'
    <3> DEFINE t == mv[m].to
    <3>1. mv[m].pc \in {"admitted", "load"} /\ ~mv[m].already /\ t \notin Keeps =>
             engine'[t] = "none" /\ t \notin loading' /\ row'[t] = NoRow /\ Silent(t)'
      BY <1>r, <1>s, <1>t, <1>u, <2>0 DEF TargetInv, Silent, NoReport, Held
    <3>2. mv[m].pc \in {"admitted", "load", "await", "flip"} =>
             /\ report'[t] = "resident" => engine'[t] = "resident"
             /\ Serving(t)' => engine'[t] = "resident" /\ report'[t] # "none"
      BY <1>r, <1>s, <1>t, <1>u, <2>0 DEF TargetInv, Serving, NoReport, Held
    <3>3. mv[m].pc = "flip" => Anchor(t)'
      <4>1. t \in Nodes /\ (mv[m].pc = "flip" => Anchor(t))
        BY <2>0 DEF TargetInv
      <4> QED BY Zenon, <1>1, <1>m, <4>1
    <3> QED BY ZenonT(30), <2>0, <3>1, <3>2, <3>3, <1>m DEF TargetInv
  <2>3. SourceInv(m)'
    <3> DEFINE f == mv[m].from
    <3>1. report'[f] = "none" => engine'[f] = "none"
      BY <1>r, <1>u, <2>0 DEF SourceInv, NoReport
    <3>2. Flipped(m) => row'[f].status \in {"none", "draining"}
      BY <1>r, <1>s, <1>t, <2>0 DEF SourceInv, Silent, NoReport, Held
    <3>3. Flipped(m) /\ row'[f].status = "none" => engine'[f] = "none" /\ Silent(f)'
      BY <1>r, <1>s, <1>t, <1>u, <2>0 DEF SourceInv, Silent, NoReport, Held
    <3> QED BY SMTT(20), <2>0, <3>1, <3>2, <3>3, <1>m, <1>u DEF SourceInv
  <2> QED BY ZenonT(30), <2>1, <2>2, <2>3
<1> QED BY <1>1, <1>2, <1>3, <1>m, <1>w DEF ServiceInv

\* A move goes on without a call to a worker and without marking a row.
LEMMA GotoService ==
  ASSUME Undisturbed, IInv, ServiceInv, NEW m \in Moves, NEW pc \in Pcs, Goto(m, pc), mv[m].pc # "idle",
         UNCHANGED <<engine, loading, report, row, taking, faults>>,
         pc \in {"drain", "unload", "putback", "settle"} <=> Flipped(m),
         mv[m].already => pc \notin {"load", "cleanup"},
         pc \in {"admitted", "load"} => mv[m].pc \in {"admitted", "load"},
         pc \in {"admitted", "load", "await", "flip"} => mv[m].pc \in {"admitted", "load", "await", "flip"},
         pc = "flip" => mv[m].pc = "await" /\ Serving(mv[m].to),
         pc # "settle"
  PROVE  ServiceInv'
<1>1. mv'[m].pc = pc /\ mv'[m].from = mv[m].from /\ mv'[m].to = mv[m].to /\ mv'[m].already = mv[m].already
  BY Zenon DEF Goto, IInv, MoveType
<1>2. Flipped(m)' <=> Flipped(m)
  BY ZenonT(30), <1>1 DEF Flipped
<1>3. WorldType' /\ (\E a \in Nodes : Anchor(a)') /\ \A n \in Nodes : Anchor(n)' = Anchor(n) /\ Serving(n)' = Serving(n)
  BY ZenonT(30) DEF ServiceInv, WorldType, Anchor, Serving
<1>4. \A n \in Nodes : NodeInv(n)'
  <2>1. \A o \in Moves : Flipped(o) => Flipped(o)' /\ mv'[o].from = mv[o].from
    BY <1>1, <1>2 DEF Undisturbed
  <2>2. ASSUME NEW n \in Nodes PROVE NodeInv(n)'
    <3>0. engine'[n] = engine[n] /\ loading' = loading /\ row'[n] = row[n] /\ report'[n] = report[n]
      OBVIOUS
    <3>1. NodeInv(n)
      BY DEF ServiceInv
    <3>2. (\E o \in Moves : Flipped(o) /\ mv[o].from = n) => \E o \in Moves : Flipped(o)' /\ mv'[o].from = n
      BY Zenon, <2>1
    <3> QED BY Zenon, <3>0, <3>1, <3>2 DEF NodeInv
  <2> QED BY <2>2
<1>5. Stand(m) /\ TargetInv(m) /\ SourceInv(m) /\ mv[m].to \in Nodes
  BY ZenonT(30) DEF ServiceInv, IInv, NodesKnown
<1>6. Stand(m)'
  BY <1>1, <1>2, <1>3, <1>5 DEF Stand
<1>7. TargetInv(m)'
  <2> DEFINE t == mv[m].to
  <2>0. t \in Nodes /\ UNCHANGED <<engine, loading, row, report>> /\ mv'[m].to = t
    BY <1>1, <1>5
  <2>s. Serving(t)' = Serving(t) /\ Anchor(t)' = Anchor(t) /\ Silent(t)' = Silent(t)
    BY Zenon, <2>0 DEF Serving, Anchor, Silent
  <2>t. /\ mv[m].pc \in {"admitted", "load"} /\ ~mv[m].already /\ t \notin Keeps =>
              engine[t] = "none" /\ t \notin loading /\ row[t] = NoRow /\ Silent(t)
        /\ mv[m].pc \in {"admitted", "load", "await", "flip"} =>
              /\ report[t] = "resident" => engine[t] = "resident"
              /\ Serving(t) => engine[t] = "resident" /\ report[t] # "none"
    BY Zenon, <1>5 DEF TargetInv
  <2> HIDE DEF t
  <2>1. pc = "flip" => Anchor(t)'
    <3>1. ASSUME pc = "flip" PROVE Anchor(t)
      <4>1. mv[m].pc = "await" /\ Serving(t)
        BY <3>1 DEF t
      <4> QED BY <2>t, <4>1 DEF Serving, Anchor
    <3> QED BY <2>s, <3>1
  <2>2. pc \in {"admitted", "load"} /\ ~mv[m].already /\ t \notin Keeps =>
           engine'[t] = "none" /\ t \notin loading' /\ row'[t] = NoRow /\ Silent(t)'
    BY Zenon, <2>0, <2>s, <2>t
  <2>3. pc \in {"admitted", "load", "await", "flip"} =>
           /\ report'[t] = "resident" => engine'[t] = "resident"
           /\ Serving(t)' => engine'[t] = "resident" /\ report'[t] # "none"
    BY Zenon, <2>0, <2>s, <2>t
  <2> QED BY Zenon, <1>1, <2>1, <2>2, <2>3 DEF TargetInv, t
<1>8. SourceInv(m)'
  BY <1>1, <1>2, <1>5 DEF SourceInv, Silent
<1> QED BY <1>3, <1>4, <1>6, <1>7, <1>8, OneMove

\* A move that has not flipped ends.
LEMMA EndService ==
  ASSUME Undisturbed, IInv, ServiceInv, NEW m \in Moves, Ended(m), ~Flipped(m),
         UNCHANGED <<engine, loading, report, row, taking, faults>>
  PROVE  ServiceInv'
<1>1. mv'[m].pc = "idle"
  BY Zenon DEF Ended, Idle, IInv, MoveType
<1>2. WorldType' /\ \E a \in Nodes : Anchor(a)'
  BY SMTT(20) DEF ServiceInv, WorldType, Anchor
<1>3. \A n \in Nodes : NodeInv(n)'
  BY Zenon DEF ServiceInv, NodeInv, Undisturbed
<1> QED BY <1>1, <1>2, <1>3, OneMove

\* The admission: what the rows say is so, hence a target that does not serve is
\* not the one that does, and one whose engine would be started again has none.
LEMMA AdmitService ==
  ASSUME Undisturbed, IInv, ServiceInv, NEW m \in Moves, NEW from \in Nodes, NEW to \in Nodes, Admit(m, from, to)
  PROVE  ServiceInv'
<1>1. mv[m].pc = "idle" /\ Reported /\ from # to /\ UNCHANGED <<engine, loading, report, row, taking, faults>>
  BY DEF Admit, Undisturbed
<1>2. mv'[m].pc = "admitted" /\ mv'[m].from = from /\ mv'[m].to = to /\ mv'[m].already = Serving(to)
  BY Zenon DEF Admit, IInv, MoveType
<1>3. ~Flipped(m) /\ ~Flipped(m)'
  BY ZenonT(30), <1>1, <1>2 DEF Flipped
<1>4. WorldType' /\ (\E a \in Nodes : Anchor(a)') /\ \A n \in Nodes : Anchor(n)' = Anchor(n) /\ Serving(n)' = Serving(n)
  BY SMTT(20), <1>1 DEF ServiceInv, WorldType, Anchor, Serving
<1>5. \A n \in Nodes : NodeInv(n)'
  BY Zenon, <1>1, <1>3 DEF ServiceInv, NodeInv, Undisturbed
<1> DEFINE old == row[to]
           held == engine[to]
<1>6. /\ old \in Row /\ held \in Held /\ old = ReplaceForNode(old, held) /\ to \notin loading /\ from \notin loading
      /\ report[to] \in {NoReport, held} /\ report[from] \in {NoReport, engine[from]}
  BY Zenon, <1>1 DEF IInv, MoveType, ServiceInv, WorldType, Reported
<1> HIDE DEF old, held
<1>7. /\ held = "none" => old = NoRow /\ old.status = "none"
      /\ held = "installed" => old.cold = TRUE
      /\ held = "resident" /\ old.status # "draining" => old.status = "ready" /\ old.cold = FALSE
  <2>1. held = "none" => old = NoRow
    BY Zenon, <1>6, ReportSays
  <2>2. held = "installed" => old.cold = TRUE
    BY Zenon, <1>6, ReportSays
  <2>3. held = "resident" /\ old.status # "draining" => old = RowOf("ready", FALSE)
    BY Zenon, <1>6, ReportSays
  <2> QED BY Zenon, <2>1, <2>2, <2>3, RowFields
<1>8. Serving(to) => held = "resident"
  BY <1>6, <1>7 DEF Serving, old, Held
<1>9. held = "resident" /\ old.status # "draining" => Serving(to)
  BY <1>7 DEF Serving, old
<1>10. Stand(m)'
  <2>1. CASE Serving(to)
    <3>1. Anchor(to)
      BY <1>6, <1>8, <2>1 DEF Anchor, Serving, held, NoReport
    <3> QED BY <1>2, <1>4, <2>1, <3>1 DEF Stand
  <2>2. CASE ~Serving(to)
    <3>1. PICK a \in Nodes : Anchor(a)
      BY DEF ServiceInv
    <3>2. a # to
      BY <1>9, <2>2, <3>1 DEF Anchor, held, old
    <3> QED BY SMTT(20), <1>2, <1>3, <1>4, <2>2, <3>1, <3>2 DEF Stand
  <2> QED BY <2>1, <2>2
<1>11. ~Serving(to) /\ to \notin Keeps => held = "none" /\ old = NoRow
  <2>1. SUFFICES ASSUME ~Serving(to), to \notin Keeps PROVE held = "none"
    BY <1>7
  <2>2. NodeInv(to)
    BY DEF ServiceInv
  <2>3. held # "installed" /\ (old.status = "draining" => held = "none")
    BY SMTT(20), <1>3, <2>1, <2>2 DEF NodeInv, held, old, Undisturbed
  <2> QED BY <1>6, <1>9, <2>1, <2>3 DEF Held
<1>12. TargetInv(m)'
  <2>1. report'[to] = "resident" => engine'[to] = "resident"
    BY <1>1, <1>6 DEF held, NoReport
  <2>2. Serving(to)' => engine'[to] = "resident" /\ report'[to] # "none"
    BY <1>1, <1>4, <1>6, <1>8 DEF held, NoReport
  <2>3. ~Serving(to) /\ to \notin Keeps => engine'[to] = "none" /\ to \notin loading' /\ row'[to] = NoRow /\ Silent(to)'
    BY <1>1, <1>6, <1>11 DEF held, old, Silent
  <2> QED BY Zenon, <1>2, <2>1, <2>2, <2>3 DEF TargetInv
<1>13. SourceInv(m)'
  <2>1. report'[from] = "none" => engine'[from] = "none"
    BY <1>1, <1>6 DEF NoReport
  <2> QED BY <1>1, <1>2, <1>3, <1>6, <2>1 DEF SourceInv
<1> QED BY SMTT(20), <1>4, <1>5, <1>10, <1>12, <1>13, OneMove

\* A call to a worker touches no other one.
LEMMA LoadTouches ==
  ASSUME IInv, ServiceInv, NEW n \in Nodes, LoadReaches(n)
  PROVE  /\ engine' \in [Nodes -> Held] /\ loading' \subseteq Nodes
         /\ \A k \in Nodes : k # n => engine'[k] = engine[k] /\ (k \in loading' <=> k \in loading)
         /\ n \in Keeps => engine'[n] = engine[n]
         /\ n \notin Keeps => engine'[n] = "none"
<1>1. engine \in [Nodes -> Held] /\ loading \subseteq Nodes /\ "none" \in Held
  BY DEF ServiceInv, WorldType, Held
<1> QED BY <1>1 DEF LoadReaches

LEMMA UnloadTouches ==
  ASSUME IInv, ServiceInv, NEW n \in Nodes, UnloadReaches(n)
  PROVE  /\ engine' \in [Nodes -> Held] /\ loading' \subseteq loading
         /\ \A k \in Nodes : k # n => engine'[k] = engine[k] /\ (k \in loading' <=> k \in loading)
         /\ engine[n] = "none" => engine'[n] = "none"
         /\ n \notin Keeps => engine'[n] = "none" /\ n \notin loading'
<1>1. engine \in [Nodes -> Held] /\ loading \subseteq Nodes /\ "none" \in Held /\ "installed" \in Held
  BY DEF ServiceInv, WorldType, Held
<1>2. CASE n \in Keeps
  BY <1>1, <1>2 DEF UnloadReaches
<1>3. CASE n \notin Keeps
  BY SMTT(20), <1>1, <1>3 DEF UnloadReaches
<1> QED BY <1>2, <1>3

\* The load: it stops an engine only where none runs, and another worker serves.
LEMMA LoadService ==
  ASSUME Undisturbed, IInv, ServiceInv, NEW m \in Moves, Load(m)
  PROVE  ServiceInv'
<1>1. mv[m].pc = "load" /\ LoadReaches(mv[m].to) /\ UNCHANGED <<report, row, taking, faults>>
  BY DEF Load
<1>2. mv'[m].pc \in {"await", "cleanup"} /\ mv'[m].from = mv[m].from /\ mv'[m].to = mv[m].to /\ mv'[m].already = mv[m].already
  <2>1. PICK pc \in {"await", "cleanup"} : Goto(m, pc)
    BY DEF Load
  <2> QED BY Zenon, <2>1 DEF Goto, IInv, MoveType
<1>3. Stand(m) /\ TargetInv(m) /\ SourceInv(m) /\ mv[m].to \in Nodes /\ mv[m].from \in Nodes
  BY ZenonT(30), <1>1 DEF ServiceInv, IInv, NodesKnown
<1>4. ~mv[m].already /\ ~Flipped(m) /\ ~Flipped(m)'
  BY ZenonT(30), <1>1, <1>2, <1>3 DEF TargetInv, Flipped
<1> DEFINE t == mv[m].to
<1>5. /\ engine' \in [Nodes -> Held] /\ loading' \subseteq Nodes
      /\ \A k \in Nodes : k # t => engine'[k] = engine[k] /\ (k \in loading' <=> k \in loading)
      /\ t \in Keeps => engine'[t] = engine[t]
      /\ t \notin Keeps => engine'[t] = "none"
  BY ZenonT(30), <1>1, <1>3, LoadTouches
<1>6. WorldType'
  BY ZenonT(30), <1>1, <1>5 DEF WorldType, ServiceInv
<1>7. t \notin Keeps => row[t].status = "none" /\ row[t].cold = FALSE /\ Silent(t)
  BY ZenonT(30), <1>1, <1>3, <1>4, RowFields DEF TargetInv
<1>8. \E a \in Nodes : a # t /\ Anchor(a)'
  BY <1>1, <1>3, <1>4, <1>5 DEF Stand, Anchor
<1>9. ASSUME NEW n \in Nodes PROVE NodeInv(n)'
  <2>1. NodeInv(n)
    BY DEF ServiceInv
  <2>2. \A o \in Moves : ~Flipped(o)
    BY ZenonT(30), <1>4 DEF Undisturbed
  <2>3. CASE n = t
    BY <1>1, <1>5, <1>7, <2>3 DEF NodeInv, Silent, NoReport
  <2>4. CASE n # t
    BY ZenonT(30), <1>1, <1>5, <2>1, <2>2, <2>4 DEF NodeInv
  <2> QED BY <2>3, <2>4
<1>10. Stand(m)'
  BY ZenonT(30), <1>2, <1>4, <1>8 DEF Stand
<1>11. TargetInv(m)'
  <2>1. Serving(t)' => engine'[t] = "resident" /\ report'[t] # "none"
    <3>1. Serving(t)' = Serving(t) /\ report'[t] = report[t]
      BY <1>1, <1>2 DEF Serving
    <3>2. Serving(t) => engine[t] = "resident" /\ report[t] # "none"
      BY Zenon, <1>1, <1>3 DEF TargetInv
    <3>3. t \notin Keeps => ~Serving(t)
      BY <1>7 DEF Serving
    <3> QED BY Zenon, <1>5, <3>1, <3>2, <3>3
  <2>2. report'[t] = "resident" => engine'[t] = "resident"
    BY <1>1, <1>3, <1>5, <1>7 DEF TargetInv, Silent, NoReport
  <2> QED BY ZenonT(30), <1>2, <1>4, <2>1, <2>2 DEF TargetInv
<1>12. SourceInv(m)'
  BY Zenon, <1>1, <1>2, <1>3, <1>4, <1>5 DEF SourceInv
<1> QED BY <1>6, <1>8, <1>9, <1>10, <1>11, <1>12, OneMove

\* The unload of the source, and of a target whose move was given up: another
\* worker serves.
LEMMA UnloadService ==
  ASSUME Undisturbed, IInv, ServiceInv, NEW m \in Moves, Unload(m) \/ CleanupTarget(m)
  PROVE  ServiceInv'
<1>1. mv[m].pc \in {"unload", "cleanup"} /\ UNCHANGED <<report, row, taking>>
  BY SMTT(20) DEF Unload, CleanupTarget
<1>2. Stand(m) /\ TargetInv(m) /\ SourceInv(m) /\ mv[m].to \in Nodes /\ mv[m].from \in Nodes
  BY ZenonT(30), <1>1 DEF ServiceInv, IInv, NodesKnown
<1>t. WorldType
  BY Zenon DEF ServiceInv
<1>3. CASE Unload(m)
  <2> DEFINE f == mv[m].from
  <2>1. PICK pc \in {"settle", "putback"} : UnloadReaches(f) /\ Goto(m, pc) /\ Flipped(m)
    BY <1>3 DEF Unload, Flipped
  <2>2. UnloadReaches(f) /\ Goto(m, pc) /\ Flipped(m)
    BY <2>1
  <2>3. mv'[m].pc \in {"settle", "putback"} /\ mv'[m].from = f /\ mv'[m].to = mv[m].to
    BY Zenon, <2>2 DEF Goto, IInv, MoveType
  <2>4. Flipped(m)'
    BY ZenonT(30), <2>3 DEF Flipped
  <2>5. /\ engine' \in [Nodes -> Held] /\ loading' \subseteq loading
        /\ \A k \in Nodes : k # f => engine'[k] = engine[k] /\ (k \in loading' <=> k \in loading)
        /\ engine[f] = "none" => engine'[f] = "none"
        /\ f \notin Keeps => engine'[f] = "none" /\ f \notin loading'
    BY ZenonT(30), <1>2, <2>2, UnloadTouches
  <2>6. WorldType'
    <3>1. faults' = faults \/ Fault("lost")
      BY <1>3 DEF Unload
    <3>2. faults' \in [FaultKinds -> Nat] /\ faults'["crash"] = 0 /\ faults'["flap"] = 0
      BY <1>t, <3>1 DEF WorldType, Fault, FaultKinds
    <3> QED BY <1>1, <1>t, <2>5, <3>2 DEF WorldType
  <2>7. \E a \in Nodes : a = mv[m].to /\ Anchor(a)'
    BY Zenon, <1>1, <1>2, <2>2, <2>5 DEF Stand, SourceInv, Anchor
  <2>8. ASSUME NEW n \in Nodes PROVE NodeInv(n)'
    <3>1. NodeInv(n)
      BY DEF ServiceInv
    <3>2. \A o \in Moves : Flipped(o)' /\ mv'[o].from = mv[o].from
      BY ZenonT(30), <2>3, <2>4 DEF Undisturbed
    <3>3. CASE n = f
      BY <1>1, <2>5, <3>1, <3>3 DEF NodeInv
    <3>4. CASE n # f
      BY ZenonT(30), <1>1, <2>5, <3>1, <3>2, <3>4 DEF NodeInv
    <3> QED BY ZenonT(30), <3>3, <3>4
  <2>9. Stand(m)'
    BY ZenonT(30), <2>3, <2>4, <2>7 DEF Stand
  <2>10. TargetInv(m)'
    BY SMTT(20), <2>3 DEF TargetInv
  <2>11. SourceInv(m)'
    <3>1. report'[f] = "none" => engine'[f] = "none"
      BY <1>1, <1>2, <2>5 DEF SourceInv
    <3>2. row'[f].status \in {"none", "draining"} /\ (row'[f].status = "none" => engine'[f] = "none" /\ Silent(f)')
      <4>1. row[f].status \in {"none", "draining"} /\ (row[f].status = "none" => engine[f] = "none" /\ Silent(f))
        BY Zenon, <1>2, <2>2 DEF SourceInv
      <4>2. row'[f] = row[f] /\ Silent(f)' = Silent(f)
        BY Zenon, <1>1, <2>3 DEF Silent
      <4> QED BY Zenon, <2>5, <4>1, <4>2
    <3>3. f # mv[m].to /\ f \notin loading' /\ (f \notin Keeps => engine'[f] = "none")
      BY <1>2, <2>5 DEF SourceInv
    <3> QED BY ZenonT(30), <2>3, <3>1, <3>2, <3>3 DEF SourceInv
  <2> QED BY SMTT(20), <2>6, <2>7, <2>8, <2>9, <2>10, <2>11, OneMove
<1>4. CASE CleanupTarget(m)
  <2> DEFINE t == mv[m].to
  <2>1. mv'[m].pc = "idle" /\ UNCHANGED faults
    BY ZenonT(30), <1>4 DEF CleanupTarget, Ended, Idle, IInv, MoveType
  <2>2. ~Flipped(m) /\ ~mv[m].already
    BY ZenonT(30), <1>2, <1>4 DEF CleanupTarget, TargetInv, Flipped
  <2>3. CASE UNCHANGED <<engine, loading, rq>>
    BY ZenonT(30), <1>4, <2>2, <2>3, EndService DEF CleanupTarget
  <2>4. CASE UnloadReaches(t)
    <3>1. /\ engine' \in [Nodes -> Held] /\ loading' \subseteq loading
          /\ \A k \in Nodes : k # t => engine'[k] = engine[k] /\ (k \in loading' <=> k \in loading)
          /\ t \notin Keeps => engine'[t] = "none" /\ t \notin loading'
      BY ZenonT(30), <1>2, <2>4, UnloadTouches
    <3>2. WorldType'
      BY <1>1, <1>t, <2>1, <3>1 DEF WorldType
    <3>3. \E a \in Nodes : Anchor(a)'
      BY <1>1, <1>2, <2>2, <3>1 DEF Stand, Anchor
    <3>4. ASSUME NEW n \in Nodes PROVE NodeInv(n)'
      <4>1. NodeInv(n)
        BY DEF ServiceInv
      <4>2. \A o \in Moves : ~Flipped(o)
        BY ZenonT(30), <2>2 DEF Undisturbed
      <4>3. CASE n = t
        BY ZenonT(30), <1>1, <3>1, <4>1, <4>3 DEF NodeInv
      <4>4. CASE n # t
        BY ZenonT(30), <1>1, <3>1, <4>1, <4>2, <4>4 DEF NodeInv
      <4> QED BY <4>3, <4>4
    <3> QED BY ZenonT(30), <2>1, <3>2, <3>3, <3>4, OneMove
  <2> QED BY <1>4, <2>3, <2>4 DEF CleanupTarget
<1> QED BY ZenonT(30), <1>3, <1>4

\* The flip: the target's row says that it serves, and it does.
LEMMA FlipService ==
  ASSUME Undisturbed, IInv, ServiceInv, NEW m \in Moves, Flip(m), row[mv[m].from].status # "none"
  PROVE  ServiceInv'
<1> DEFINE f == mv[m].from
           t == mv[m].to
<1>1. mv[m].pc = "flip" /\ UNCHANGED <<engine, loading, report, taking, faults>> /\ Goto(m, "drain")
  BY ZenonT(30) DEF Flip
<1>2. Stand(m) /\ TargetInv(m) /\ SourceInv(m) /\ t \in Nodes /\ f \in Nodes
  BY <1>1 DEF ServiceInv, IInv, NodesKnown
<1>3. row \in [Nodes -> Row] /\ row' = [row EXCEPT ![f].status = "draining"]
  BY Zenon DEF Flip, SetStatus, IInv, MoveType
<1>4. row'[f].status = "draining" /\ row'[f].cold = row[f].cold /\ \A n \in Nodes : n # f => row'[n] = row[n]
  BY <1>2, <1>3 DEF Row
<1>5. mv'[m].pc = "drain" /\ mv'[m].from = f /\ mv'[m].to = t
  BY Zenon, <1>1 DEF Goto, IInv, MoveType
<1>6. Flipped(m)'
  BY ZenonT(30), <1>5 DEF Flipped
<1>7. WorldType'
  BY ZenonT(30), <1>1 DEF ServiceInv, WorldType
<1>8. \E a \in Nodes : a = t /\ Anchor(a)'
  BY <1>1, <1>2, <1>4 DEF TargetInv, SourceInv, Anchor
<1>9. ASSUME NEW n \in Nodes PROVE NodeInv(n)'
  <2>1. NodeInv(n)
    BY ZenonT(30) DEF ServiceInv
  <2>2. \A o \in Moves : ~Flipped(o)
    BY SMTT(20), <1>1 DEF Undisturbed, Flipped
  <2>3. CASE n = f
    BY Zenon, <1>1, <1>4, <1>5, <1>6, <2>1, <2>3 DEF NodeInv
  <2>4. CASE n # f
    BY ZenonT(30), <1>1, <1>4, <2>1, <2>2, <2>4 DEF NodeInv
  <2> QED BY ZenonT(30), <2>3, <2>4
<1>10. Stand(m)'
  BY ZenonT(30), <1>5, <1>6, <1>8 DEF Stand
<1>11. TargetInv(m)'
  BY ZenonT(30), <1>5 DEF TargetInv
<1>12. SourceInv(m)'
  BY ZenonT(30), <1>1, <1>2, <1>4, <1>5 DEF SourceInv
<1> QED BY ZenonT(30), <1>7, <1>8, <1>9, <1>10, <1>11, <1>12, OneMove

\* A move that has flipped ends: its target serves, and its source is back in
\* rotation, or has no engine any more, or one that keeps its weights.
LEMMA SettleService ==
  ASSUME Undisturbed, IInv, ServiceInv, NEW m \in Moves, PutBack(m) \/ SettleSource(m)
  PROVE  ServiceInv'
<1> DEFINE f == mv[m].from
           t == mv[m].to
<1>1. mv[m].pc \in {"putback", "settle"} /\ UNCHANGED <<engine, loading, report, taking, faults>> /\ Ended(m)
  BY Zenon DEF PutBack, SettleSource
<1>2. Stand(m) /\ SourceInv(m) /\ t \in Nodes /\ f \in Nodes /\ Flipped(m)
  BY ZenonT(30), <1>1 DEF ServiceInv, IInv, NodesKnown, Flipped
<1>3. mv'[m].pc = "idle"
  BY Zenon, <1>1 DEF Ended, Idle, IInv, MoveType
<1>4. \/ row' = row /\ (row[f].status # "none" => mv[m].pc = "settle")
      \/ row' = [row EXCEPT ![f].status = "ready"]
      \/ row' = [row EXCEPT ![f].status = "released"] /\ row[f].cold
  BY DEF PutBack, SettleSource, SetStatus
<1>5. row \in [Nodes -> Row]
  BY Zenon DEF IInv, MoveType
<1>6. row'[f].cold = row[f].cold /\ \A n \in Nodes : n # f => row'[n] = row[n]
  BY SMTT(20), <1>2, <1>4, <1>5 DEF Row
<1>7. WorldType'
  BY ZenonT(30), <1>1 DEF ServiceInv, WorldType
<1>8. \E a \in Nodes : Anchor(a)'
  BY <1>1, <1>2, <1>6 DEF Stand, SourceInv, Anchor
<1>9. ASSUME NEW n \in Nodes PROVE NodeInv(n)'
  <2> SUFFICES ASSUME n \notin Keeps PROVE NodeInv(n)'
    BY ZenonT(30) DEF NodeInv
  <2>1. NodeInv(n)
    BY ZenonT(30) DEF ServiceInv
  <2>2. CASE n = f
    <3>1. row[f].cold = FALSE /\ row[f].status # "released"
      BY Zenon, <2>1, <2>2 DEF NodeInv
    <3>2. row'[f].status # "released"
      BY <1>2, <1>4, <1>5, <3>1 DEF Row
    <3>3. row'[f].status = "draining" => mv[m].pc = "settle"
      BY SMTT(20), <1>2, <1>4, <1>5, <3>1 DEF Row
    <3>4. row'[f].status = "draining" => engine[f] = "none" /\ f \notin loading
      BY Zenon, <1>2, <2>2, <3>3 DEF SourceInv
    <3> QED BY ZenonT(30), <1>1, <1>6, <2>1, <2>2, <3>1, <3>2, <3>4 DEF NodeInv
  <2>3. CASE n # f
    <3>1. \A o \in Moves : mv[o].from # n
      BY <2>3 DEF Undisturbed
    <3> QED BY <1>1, <1>6, <2>1, <2>3, <3>1 DEF NodeInv
  <2> QED BY SMTT(20), <2>2, <2>3
<1> QED BY ZenonT(30), <1>3, <1>7, <1>8, <1>9, OneMove

\* Every step of a move keeps the model in service.
LEMMA MoveService ==
  ASSUME Undisturbed, IInv, ServiceInv, NEW m \in Moves, MoveStep(m)
  PROVE  ServiceInv'
<1> USE DEF Pcs, Flipped
<1>inv. mv[m].pc # "idle" => TargetInv(m)
  BY ZenonT(30) DEF ServiceInv
<1>abort. ASSUME Abort(m), mv[m].pc \in {"await", "flip"}, UNCHANGED <<engine, loading, report, row, taking, faults>> PROVE ServiceInv'
  BY <1>abort, EndService, GotoService DEF Abort
<1>1. ASSUME NEW from \in Nodes, NEW to \in Nodes, Admit(m, from, to) PROVE ServiceInv'
  BY <1>1, AdmitService
<1>2. CASE Claim(m)
  <2>1. CASE Ended(m)
    BY ZenonT(30), <1>2, <2>1, EndService DEF Claim
  <2>2. CASE ~Ended(m)
    <3> DEFINE pc == IF mv[m].already THEN "await" ELSE "load"
    <3>1. Goto(m, pc) /\ mv[m].pc = "admitted" /\ UNCHANGED <<engine, loading, report, row, taking, faults>>
      BY <1>2, <2>2 DEF Claim
    <3>2. pc \in {"await", "load"} /\ (mv[m].already => pc # "load")
      OBVIOUS
    <3> HIDE DEF pc
    <3> QED BY <3>1, <3>2, GotoService
  <2> QED BY ZenonT(30), <2>1, <2>2
<1>3. CASE Load(m)
  BY ZenonT(30), <1>3, LoadService
<1>4. CASE LoadRefused(m)
  BY ZenonT(30), <1>4, <1>inv, GotoService DEF LoadRefused, TargetInv
<1>5. CASE AwaitRoutable(m)
  BY ZenonT(30), <1>5, <1>abort, GotoService DEF AwaitRoutable
<1>6. CASE Flip(m)
  BY ZenonT(30), <1>6, <1>abort, FlipService DEF Flip
<1>7. CASE AwaitIdle(m) \/ DrainTimeout(m) \/ UnloadRefused(m)
  BY <1>7, GotoService DEF AwaitIdle, DrainTimeout, UnloadRefused
<1>8. CASE Unload(m) \/ CleanupTarget(m)
  BY <1>8, UnloadService
<1>9. CASE PutBack(m) \/ SettleSource(m)
  BY <1>9, SettleService
<1> QED BY SMTT(20), <1>1, <1>2, <1>3, <1>4, <1>5, <1>6, <1>7, <1>8, <1>9 DEF MoveStep

\* The leader restarts: the move is forgotten and its source back in rotation,
\* and the worker that served before serves.
LEMMA RestartService ==
  ASSUME IInv, ServiceInv, Restart
  PROVE  ServiceInv'
<1>t. WorldType /\ row \in [Nodes -> Row]
  BY Zenon DEF ServiceInv, IInv, MoveType
<1>1. UNCHANGED <<engine, loading, taking>> /\ \A m \in Moves : mv'[m].pc = "idle"
  BY Zenon DEF Restart, Idle
<1>2. report' \in [Nodes -> Held \cup {NoReport}] /\ \A n \in Nodes : report'[n] = NoReport
  BY Zenon DEF Restart
<1>3. faults' \in [FaultKinds -> Nat] /\ faults'["crash"] = 0 /\ faults'["flap"] = 0
  <2>1. faults' = [faults EXCEPT !["restart"] = faults["restart"] + 1]
    BY Zenon DEF Restart, Fault
  <2> QED BY <1>t, <2>1 DEF WorldType, FaultKinds
<1>4. WorldType'
  BY <1>t, <1>1, <1>2, <1>3 DEF WorldType
<1>5. ASSUME NEW n \in Nodes
      PROVE  /\ row'[n].cold = row[n].cold /\ row'[n].status # "draining"
             /\ row[n].status # "draining" => row'[n] = row[n]
             /\ row'[n].status = "released" => row[n].status = "released"
  <2>1. row' = [k \in Nodes |-> IF row[k].status = "draining" THEN RowOf("ready", row[k].cold) ELSE row[k]]
    BY Zenon DEF Restart
  <2> QED BY <1>t, <2>1 DEF RowOf, Row
<1>6. ASSUME NEW n \in Nodes, Anchor(n) PROVE Anchor(n)'
  <2>1. engine'[n] = engine[n] /\ report'[n] # "none" /\ row'[n] = row[n]
    BY <1>1, <1>2, <1>5, <1>6 DEF Anchor, NoReport
  <2> QED BY Zenon, <1>6, <2>1 DEF Anchor
<1>7. ASSUME NEW n \in Nodes PROVE NodeInv(n)'
  <2>1. NodeInv(n)
    BY DEF ServiceInv
  <2>2. engine'[n] = engine[n] /\ report'[n] # "installed"
    BY <1>1, <1>2 DEF NoReport
  <2> QED BY Zenon, <1>5, <2>1, <2>2 DEF NodeInv
<1> QED BY Zenon, <1>1, <1>4, <1>6, <1>7 DEF ServiceInv

\* Every step does.
LEMMA NextService ==
  ASSUME Undisturbed, IInv, ServiceInv, [Next]_vars
  PROVE  ServiceInv'
<1>t. engine \in [Nodes -> Held] /\ row \in [Nodes -> Row] /\ WorldType
  BY Zenon DEF ServiceInv, WorldType, IInv, MoveType
<1>f. ~Fault("crash") /\ ~Fault("flap")
  BY <1>t, NoFault
<1>same. ASSUME UNCHANGED <<engine, loading, report, row, taking, mv, faults>> PROVE ServiceInv'
  <2>1. WorldType'
    BY <1>same, <1>t DEF WorldType
  <2> QED BY <1>same, <2>1, WorldKeeps
<1>1. ASSUME NEW m \in Moves, MoveStep(m) PROVE ServiceInv'
  BY <1>1, MoveService
<1>2. ASSUME NEW r \in Requests, RequestStep(r) PROVE ServiceInv'
  <2>1. CASE UNCHANGED engine
    BY Zenon, <1>2, <2>1, <1>same DEF RequestStep, Pick, Send, FirstEvent, Finish
  <2>2. CASE ~UNCHANGED engine
    <3> DEFINE n == rq[r].node
    <3>1. engine[n] # "none" /\ engine' = [engine EXCEPT ![n] = "resident"] /\ UNCHANGED <<loading, report, row, taking, mv, faults>>
      BY Zenon, <1>2, <2>2 DEF RequestStep, Pick, Send, FirstEvent, Finish
    <3>2. WorldType'
      BY Zenon, <1>t, <3>1 DEF WorldType, Held
    <3>3. \A k \in Nodes : engine'[k] = engine[k] \/ (engine'[k] = "resident" /\ engine[k] # "none")
      BY <1>t, <3>1
    <3> HIDE DEF n
    <3> QED BY <3>1, <3>2, <3>3, WorldKeeps
  <2> QED BY <2>1, <2>2
<1>3. ASSUME NEW n \in Nodes, WorkerStep(n) PROVE ServiceInv'
  <2>0. CASE Report(n)
    <3>1. report' = [report EXCEPT ![n] = engine[n]] /\ UNCHANGED <<engine, loading, row, taking, mv, faults>>
      BY <2>0 DEF Report
    <3>2. WorldType'
      BY <1>t, <3>1 DEF WorldType
    <3>3. \A k \in Nodes : report'[k] = report[k] \/ report'[k] = engine'[k]
      BY <1>t, <3>1 DEF WorldType
    <3> QED BY <3>1, <3>2, <3>3, WorldKeeps
  <2>1. CASE Heartbeat(n)
    BY <2>1, HeartbeatKeeps
  <2>2. CASE FinishLoad(n)
    <3>1. n \in loading /\ loading' = loading \ {n} /\ engine' = [engine EXCEPT ![n] = "resident"] /\ UNCHANGED <<report, row, taking, mv, faults>>
      BY <2>2 DEF FinishLoad
    <3>2. WorldType'
      BY <1>t, <3>1 DEF WorldType, Held
    <3>3. \A k \in Nodes : engine'[k] = engine[k] \/ (engine'[k] = "resident" /\ k \in loading)
      BY <1>t, <3>1
    <3> QED BY <3>1, <3>2, <3>3, WorldKeeps
  <2>3. CASE FailLoad(n)
    <3>1. loading' = loading \ {n} /\ UNCHANGED <<engine, report, row, taking, mv, faults>>
      BY <2>3 DEF FailLoad
    <3>2. WorldType'
      BY <1>t, <3>1 DEF WorldType
    <3> QED BY <3>1, <3>2, WorldKeeps
  <2>4. CASE EngineRestart(n) \/ Flap(n)
    BY <2>4, <1>f DEF EngineRestart, Flap
  <2> QED BY ZenonT(30), <1>3, <2>0, <2>1, <2>2, <2>3, <2>4 DEF WorkerStep
<1>4. CASE Restart
  BY <1>4, RestartService
<1>5. CASE UNCHANGED vars
  BY ZenonT(30), <1>5, <1>same DEF vars
<1> QED BY <1>1, <1>2, <1>3, <1>4, <1>5 DEF Next

\* The first state is in service.
LEMMA InitService == Init => ServiceInv
<1> SUFFICES ASSUME Init PROVE ServiceInv
  OBVIOUS
<1>0. engine \in [Nodes -> Held] /\ loading \subseteq Nodes /\ taking = Nodes
  BY Zenon DEF Init
<1>f. faults \in [FaultKinds -> Nat] /\ faults["crash"] = 0 /\ faults["flap"] = 0
  <2>1. faults = [k \in FaultKinds |-> 0]
    BY Zenon DEF Init
  <2> QED BY <2>1 DEF FaultKinds
<1>r. report \in [Nodes -> Held \cup {NoReport}] /\ \A n \in Nodes : report[n] = NoReport
  BY Zenon DEF Init
<1>1. WorldType /\ \A m \in Moves : mv[m].pc = "idle"
  BY Zenon, <1>0, <1>f, <1>r DEF Init, WorldType, Idle
<1>2. \A n \in Nodes : row[n] = ReplaceForNode(NoRow, engine[n]) /\ engine[n] \in Held
  BY Zenon, <1>1 DEF Init, WorldType
<1>3. \A n \in Nodes : engine[n] = "resident" => row[n].status = "ready"
  <2> SUFFICES ASSUME NEW n \in Nodes, engine[n] = "resident" PROVE row[n].status = "ready"
    OBVIOUS
  <2>1. NoRow \in Row /\ NoRow.status # "draining" /\ "resident" \in Held
    BY RowFields DEF Held
  <2>2. ReplaceForNode(NoRow, "resident") = RowOf("ready", FALSE)
    BY Zenon, <2>1, ReportSays
  <2> QED BY Zenon, <1>2, <2>2, RowFields
<1>4. \E a \in Nodes : Anchor(a)
  BY Zenon, <1>3 DEF Init, Anchor, NoReport
<1>5. ASSUME NEW n \in Nodes PROVE NodeInv(n)
  <2> SUFFICES ASSUME n \notin Keeps PROVE NodeInv(n)
    BY Zenon DEF NodeInv
  <2>1. engine[n] # "installed"
    BY Zenon DEF Init
  <2>2. row[n].status \notin {"draining", "released"}
    BY <1>2, RowFields, ReportKeepsMark, ReportReleases
  <2>3. row[n].cold = FALSE
    <3>1. CASE engine[n] = "none"
      <4>1. NoRow \in Row /\ "none" \in Held
        BY RowFields DEF Held
      <4>2. ReplaceForNode(NoRow, "none") = NoRow
        BY Zenon, <4>1, ReportSays
      <4> QED BY <1>2, <3>1, <4>2, RowFields
    <3>2. CASE engine[n] = "resident"
      BY ZenonT(30), <1>2, <3>2, ReportSays, RowFields
    <3> QED BY Zenon, <1>2, <2>1, <3>1, <3>2 DEF Held
  <2>4. report[n] # "installed"
    BY <1>r DEF NoReport
  <2> QED BY <2>1, <2>2, <2>3, <2>4 DEF NodeInv
<1> QED BY <1>1, <1>4, <1>5 DEF ServiceInv

\* For any number of workers, of either kind of engine, and of requests: a caller
\* of MoveModel that asks for a move once the last one ended and was reported,
\* with restarts of the leader, lost answers and failures at any step of a move,
\* never takes the model out of every memory or out of rotation, and no late
\* heartbeat puts a source back in rotation once its move has flipped.
THEOREM ServiceAlwaysStays == ASSUME Undisturbed PROVE Spec => []ServiceStays
<1>1. IInv /\ ServiceInv => ServiceStays
  <2> SUFFICES ASSUME IInv, ServiceInv PROVE ServiceStays
    OBVIOUS
  <2>1. ResidentSomewhere /\ RotationNeverEmpty
    BY DEF ServiceInv, WorldType, Anchor, ResidentSomewhere, RotationNeverEmpty, Routable
  <2>2. SourceStaysOut
    BY DEF ServiceInv, SourceInv, SourceStaysOut, Flipped
  <2> QED BY <2>1, <2>2 DEF ServiceStays
<1>2. IInv /\ ServiceInv /\ [Next]_vars => ServiceInv'
  BY NextService
<1> QED BY <1>1, <1>2, InitIInv, NextIInv, InitService, PTL DEF Spec
=============================================================================
