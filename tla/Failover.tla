------------------------------ MODULE Failover ------------------------------
(***************************************************************************)
(* What the router promises its callers, without how it chooses: a request *)
(* asks one target at a time, asks none again that gave it nothing, moves  *)
(* along a finite list of alternatives only forwards, and ends either      *)
(* served by the target it was asking, or failed with no alternative left. *)
(* Router.tla implements this specification (MCRouter!ImplementsFailover).  *)
(***************************************************************************)
EXTENDS Naturals

CONSTANTS Requests, Targets, NoTarget, Local, Alternatives

VARIABLES asking,  \* request -> the target being asked, or NoTarget
          silent,  \* request -> targets that gave it nothing
          at,      \* request -> which alternative it has come to
          result   \* request -> "open", "served" or "failed"

vars == <<asking, silent, at, result>>

Init ==
  /\ asking = [q \in Requests |-> NoTarget]
  /\ silent = [q \in Requests |-> {}]
  /\ at = [q \in Requests |-> 1]
  /\ result = [q \in Requests |-> "open"]

Ask(q, t) ==
  /\ result[q] = "open" /\ asking[q] = NoTarget
  /\ t \in Targets \ silent[q]
  /\ asking' = [asking EXCEPT ![q] = t]
  /\ UNCHANGED <<silent, at, result>>

\* The target gave nothing: the same alternative is tried on another one.
GivesNothing(q) ==
  /\ asking[q] \in Targets \ {Local} /\ result[q] = "open"
  /\ silent' = [silent EXCEPT ![q] = @ \cup {asking[q]}]
  /\ asking' = [asking EXCEPT ![q] = NoTarget]
  /\ UNCHANGED <<at, result>>

\* The target refused, or nobody is left to ask: the next alternative.
MovesOn(q) ==
  /\ result[q] = "open" /\ at[q] < Alternatives
  /\ at' = [at EXCEPT ![q] = @ + 1]
  /\ asking' = [asking EXCEPT ![q] = NoTarget]
  /\ UNCHANGED <<silent, result>>

Serve(q) ==
  /\ result[q] = "open" /\ asking[q] \in Targets
  /\ result' = [result EXCEPT ![q] = "served"]
  /\ UNCHANGED <<asking, silent, at>>

Fail(q) ==
  /\ result[q] = "open"
  /\ result' = [result EXCEPT ![q] = "failed"]
  /\ asking' = [asking EXCEPT ![q] = NoTarget]
  /\ UNCHANGED <<silent, at>>

Next == \E q \in Requests : \/ \E t \in Targets : Ask(q, t)
                            \/ GivesNothing(q) \/ MovesOn(q) \/ Serve(q) \/ Fail(q)

\* No request waits for ever.
Ends == <>[](\A q \in Requests : result[q] # "open")

Spec == Init /\ [][Next]_vars /\ Ends
=============================================================================
