---------------------------- MODULE RouterProofs ----------------------------
(***************************************************************************)
(* The router's in-flight counts are the calls that are open, for any      *)
(* number of workers, gangs, models and requests.  The inductive invariant *)
(* (CountInv) adds to CountsOpenCalls the shape of the requests' records   *)
(* (ReqsInv); each action is shown to open, close, keep or move exactly    *)
(* the calls it counts, and StepSame, StepUp, StepDown and StepMove say    *)
(* what that does to the counts.                                           *)
(***************************************************************************)
EXTENDS Router, FiniteSetTheorems, TLAPS

-----------------------------------------------------------------------------
(* Counting *)

LEMMA CountUp ==
  ASSUME NEW S, IsFiniteSet(S), NEW c, c \notin S, NEW n, NEW w, NEW t, Counts(n, S, t \notin w)
  PROVE  Counts(n + 1, S \cup {c}, t \notin w)
<1>1. Cardinality(S \cup {c}) = Cardinality(S) + 1 /\ Cardinality(S) \in Nat
  BY FS_AddElement, FS_CardinalityType
<1>2. CASE t \in w
  BY <1>1, <1>2 DEF Counts
<1>3. CASE t \notin w
  BY <1>1, <1>3 DEF Counts
<1> QED BY <1>2, <1>3

LEMMA CountDown ==
  ASSUME NEW S, IsFiniteSet(S), NEW c, c \in S, NEW n, NEW w, NEW t, Counts(n, S, t \notin w)
  PROVE  Counts(IF n > 0 THEN n - 1 ELSE 0, S \ {c}, t \notin w)
<1>1. Cardinality(S \ {c}) = Cardinality(S) - 1 /\ Cardinality(S) \in Nat /\ Cardinality(S \ {c}) \in Nat
  BY FS_RemoveElement, FS_CardinalityType
<1>2. CASE t \in w
  BY <1>1, <1>2 DEF Counts
<1>3. CASE t \notin w
  BY <1>1, <1>3 DEF Counts
<1> QED BY <1>2, <1>3

LEMMA CallsFinite ==
  ASSUME IsFiniteSet(Requests), NEW t
  PROVE  IsFiniteSet(OpenCalls(t)) /\ \A m : IsFiniteSet(CallsFor(t, m))
<1>1. IsFiniteSet(Kinds)
  <2>1. IsFiniteSet({"whole"}) /\ IsFiniteSet({"prefill"}) /\ IsFiniteSet({"leg"})
    BY Zenon, FS_Singleton
  <2>2. IsFiniteSet({"whole"} \cup {"prefill"})
    BY Zenon, <2>1, FS_Union
  <2>3. IsFiniteSet(({"whole"} \cup {"prefill"}) \cup {"leg"})
    BY Zenon, <2>1, <2>2, FS_Union
  <2>4. ({"whole"} \cup {"prefill"}) \cup {"leg"} = Kinds
    BY DEF Kinds
  <2> QED BY <2>3, <2>4
<1>2. IsFiniteSet(Requests \X Kinds)
  BY <1>1, FS_Product
<1>3. OpenCalls(t) \subseteq Requests \X Kinds
  BY DEF OpenCalls
<1>4. IsFiniteSet(OpenCalls(t))
  BY <1>2, <1>3, FS_Subset
<1>5. ASSUME NEW m PROVE IsFiniteSet(CallsFor(t, m))
  <2>1. CallsFor(t, m) \subseteq OpenCalls(t)
    BY DEF CallsFor
  <2> QED BY <1>4, <2>1, FS_Subset
<1> QED BY <1>4, <1>5

-----------------------------------------------------------------------------
(* What a step of one request does to the calls that are open *)

ModelOf(r) == r.chain[r.i]

\* From r to s a request keeps the calls it has on t, opens one, or closes one.
Alike(r, s, t) ==
  \A k \in Kinds : /\ Opens(s, k, t) <=> Opens(r, k, t)
                   /\ Opens(s, k, t) => ModelOf(s) = ModelOf(r)

Gains(r, s, t, k0) ==
  /\ ~Opens(r, k0, t) /\ ModelOf(s) = ModelOf(r)
  /\ \A k \in Kinds : Opens(s, k, t) <=> (k = k0 \/ Opens(r, k, t))

Loses(r, s, t, k0) ==
  /\ Opens(r, k0, t)
  /\ \A k \in Kinds : Opens(s, k, t) <=> (k # k0 /\ Opens(r, k, t))
  /\ \A k \in Kinds : Opens(s, k, t) => ModelOf(s) = ModelOf(r)

LEMMA SameCalls ==
  ASSUME ReqsInv, NEW q \in Requests, NEW r, req' = [req EXCEPT ![q] = r], NEW t,
         Alike(req[q], r, t)
  PROVE  OpenCalls(t)' = OpenCalls(t) /\ \A m : CallsFor(t, m)' = CallsFor(t, m)
<1>1. \A o \in Requests : req'[o] = IF o = q THEN r ELSE req[o]
  BY DEF ReqsInv
<1>2. ASSUME NEW c PROVE c \in OpenCalls(t)' <=> c \in OpenCalls(t)
  BY <1>1 DEF Alike, OpenCalls
<1>3. OpenCalls(t)' = OpenCalls(t)
  BY <1>2
<1>4. ASSUME NEW m PROVE CallsFor(t, m)' = CallsFor(t, m)
  <2>1. ASSUME NEW c PROVE c \in CallsFor(t, m)' <=> c \in CallsFor(t, m)
    BY <1>1 DEF Alike, OpenCalls, CallsFor, Candidate, ModelOf
  <2> QED BY <2>1
<1> QED BY <1>3, <1>4

LEMMA MoreCalls ==
  ASSUME ReqsInv, NEW q \in Requests, NEW r, req' = [req EXCEPT ![q] = r], NEW t,
         NEW k0 \in Kinds, Gains(req[q], r, t, k0)
  PROVE  /\ <<q, k0>> \notin OpenCalls(t) /\ OpenCalls(t)' = OpenCalls(t) \cup {<<q, k0>>}
         /\ \A m : IF m = ModelOf(req[q])
                   THEN <<q, k0>> \notin CallsFor(t, m) /\ CallsFor(t, m)' = CallsFor(t, m) \cup {<<q, k0>>}
                   ELSE CallsFor(t, m)' = CallsFor(t, m)
<1>1. \A o \in Requests : req'[o] = IF o = q THEN r ELSE req[o]
  BY DEF ReqsInv
<1>2. <<q, k0>> \notin OpenCalls(t)
  BY DEF Gains, OpenCalls
<1>3. OpenCalls(t)' = OpenCalls(t) \cup {<<q, k0>>}
  <2>1. ASSUME NEW c PROVE c \in OpenCalls(t)' <=> c \in OpenCalls(t) \cup {<<q, k0>>}
    BY <1>1 DEF Gains, OpenCalls
  <2> QED BY <2>1
<1>4. ASSUME NEW m, m = ModelOf(req[q])
      PROVE  CallsFor(t, m)' = CallsFor(t, m) \cup {<<q, k0>>}
  <2>1. ASSUME NEW c PROVE c \in CallsFor(t, m)' <=> c \in CallsFor(t, m) \cup {<<q, k0>>}
    BY <1>1, <1>4 DEF Gains, OpenCalls, CallsFor, Candidate, ModelOf
  <2> QED BY ZenonT(30), <2>1
<1>5. ASSUME NEW m, m # ModelOf(req[q])
      PROVE  CallsFor(t, m)' = CallsFor(t, m)
  <2>1. ASSUME NEW c PROVE c \in CallsFor(t, m)' <=> c \in CallsFor(t, m)
    BY <1>1, <1>5 DEF Gains, OpenCalls, CallsFor, Candidate, ModelOf
  <2> QED BY ZenonT(30), <2>1
<1>6. \A m : <<q, k0>> \notin CallsFor(t, m)
  BY <1>2 DEF CallsFor
<1> QED BY <1>2, <1>3, <1>4, <1>5, <1>6

LEMMA FewerCalls ==
  ASSUME ReqsInv, NEW q \in Requests, NEW r, req' = [req EXCEPT ![q] = r], NEW t,
         NEW k0 \in Kinds, Loses(req[q], r, t, k0)
  PROVE  /\ <<q, k0>> \in OpenCalls(t) /\ OpenCalls(t)' = OpenCalls(t) \ {<<q, k0>>}
         /\ \A m : IF m = ModelOf(req[q])
                   THEN <<q, k0>> \in CallsFor(t, m) /\ CallsFor(t, m)' = CallsFor(t, m) \ {<<q, k0>>}
                   ELSE CallsFor(t, m)' = CallsFor(t, m)
<1>1. \A o \in Requests : req'[o] = IF o = q THEN r ELSE req[o]
  BY DEF ReqsInv
<1>2. <<q, k0>> \in OpenCalls(t)
  BY DEF Loses, OpenCalls
<1>3. OpenCalls(t)' = OpenCalls(t) \ {<<q, k0>>}
  <2>1. ASSUME NEW c PROVE c \in OpenCalls(t)' <=> c \in OpenCalls(t) \ {<<q, k0>>}
    BY <1>1 DEF Loses, OpenCalls
  <2> QED BY <2>1
<1>4. ASSUME NEW m, m = ModelOf(req[q])
      PROVE  CallsFor(t, m)' = CallsFor(t, m) \ {<<q, k0>>}
  <2>1. ASSUME NEW c PROVE c \in CallsFor(t, m)' <=> c \in CallsFor(t, m) \ {<<q, k0>>}
    BY SMTT(20), <1>1, <1>4 DEF Loses, OpenCalls, CallsFor, Candidate, ModelOf
  <2> QED BY ZenonT(30), <2>1
<1>5. ASSUME NEW m, m # ModelOf(req[q])
      PROVE  CallsFor(t, m)' = CallsFor(t, m)
  <2>1. ASSUME NEW c PROVE c \in CallsFor(t, m)' <=> c \in CallsFor(t, m)
    BY <1>1, <1>5 DEF Loses, OpenCalls, CallsFor, Candidate, ModelOf
  <2> QED BY <2>1
<1>6. <<q, k0>> \in CallsFor(t, ModelOf(req[q]))
  BY <1>2 DEF CallsFor, Candidate, ModelOf
<1> QED BY <1>2, <1>3, <1>4, <1>5, <1>6

-----------------------------------------------------------------------------
(* The counts follow *)

CountInv ==
  /\ ReqsInv
  /\ inflight = [t \in Targets |-> inflight[t]]
  /\ dim = [tm \in Targets \X Models |-> dim[tm]]
  /\ CountsOpenCalls

Dec(n) == IF n > 0 THEN n - 1 ELSE 0

\* A step of one request that opens and closes nothing.
LEMMA StepSame ==
  ASSUME CountInv, NEW q \in Requests, NEW r, req' = [req EXCEPT ![q] = r], ReqInv(r),
         UNCHANGED <<counts, wiped>>,
         \A t \in Targets, k \in Kinds : Opens(r, k, t) <=> Opens(req[q], k, t),
         \A t \in Targets, k \in Kinds : Opens(r, k, t) => ModelOf(r) = ModelOf(req[q])
  PROVE  CountInv'
<1>1. ReqsInv'
  BY DEF CountInv, ReqsInv
<1>2. inflight' = inflight /\ dim' = dim /\ wiped' = wiped
  BY DEF counts
<1>3. ASSUME NEW t \in Targets
      PROVE  OpenCalls(t)' = OpenCalls(t) /\ \A m : CallsFor(t, m)' = CallsFor(t, m)
  <2>1. Alike(req[q], r, t)
    BY <1>3 DEF Alike
  <2> QED BY Zenon, <2>1, SameCalls DEF CountInv
<1>4. CountsOpenCalls'
  <2>1. ASSUME NEW t \in Targets
        PROVE  /\ Counts(inflight[t], OpenCalls(t), t \notin wiped)'
               /\ \A m \in Models : Counts(dim[<<t, m>>], CallsFor(t, m), t \notin wiped)'
    <3>1. /\ Counts(inflight[t], OpenCalls(t), t \notin wiped)
          /\ \A m \in Models : Counts(dim[<<t, m>>], CallsFor(t, m), t \notin wiped)
      BY ZenonT(30), <2>1 DEF CountInv, CountsOpenCalls
    <3> QED BY ZenonT(30), <1>2, <1>3, <2>1, <3>1 DEF Counts
  <2> QED BY <2>1 DEF CountsOpenCalls
<1> QED BY <1>1, <1>2, <1>4 DEF CountInv

\* From r to s a request opens, or closes, one call and no other; it may go on to
\* another candidate if it has then none open.
Opening(r, s, t0, k0) ==
  /\ ~Opens(r, k0, t0) /\ ModelOf(s) = ModelOf(r)
  /\ \A t \in Targets, k \in Kinds : Opens(s, k, t) <=> ((k = k0 /\ t = t0) \/ Opens(r, k, t))

Closing(r, s, t0, k0) ==
  /\ Opens(r, k0, t0)
  /\ \A t \in Targets, k \in Kinds : /\ Opens(s, k, t) <=> (~(k = k0 /\ t = t0) /\ Opens(r, k, t))
                                     /\ Opens(s, k, t) => ModelOf(s) = ModelOf(r)

LEMMA OpeningAt ==
  ASSUME NEW r, NEW s, NEW t0, NEW k0 \in Kinds, Opening(r, s, t0, k0), NEW t \in Targets
  PROVE  IF t = t0 THEN Gains(r, s, t, k0) ELSE Alike(r, s, t)
<1>1. CASE t = t0
  BY <1>1 DEF Opening, Gains
<1>2. CASE t # t0
  BY <1>2 DEF Opening, Alike
<1> QED BY <1>1, <1>2

LEMMA ClosingAt ==
  ASSUME NEW r, NEW s, NEW t0, NEW k0 \in Kinds, Closing(r, s, t0, k0), NEW t \in Targets
  PROVE  IF t = t0 THEN Loses(r, s, t, k0) ELSE Alike(r, s, t)
<1>1. ASSUME NEW k \in Kinds
      PROVE  /\ Opens(s, k, t) <=> (~(k = k0 /\ t = t0) /\ Opens(r, k, t))
             /\ Opens(s, k, t) => ModelOf(s) = ModelOf(r)
  BY DEF Closing
<1>2. CASE t = t0
  <2>1. Opens(r, k0, t)
    BY <1>2 DEF Closing
  <2> QED BY <1>1, <1>2, <2>1 DEF Loses
<1>3. CASE t # t0
  BY <1>1, <1>3 DEF Alike
<1> QED BY <1>2, <1>3

\* One call more.
LEMMA StepUp ==
  ASSUME IsFiniteSet(Requests),
         CountInv, NEW q \in Requests, NEW r, req' = [req EXCEPT ![q] = r], ReqInv(r),
         NEW t0, NEW k0 \in Kinds, IncInflight(t0, ModelOf(req[q])), wiped' = wiped,
         Opening(req[q], r, t0, k0)
  PROVE  CountInv'
<1> DEFINE m0 == ModelOf(req[q])
<1>1. ReqsInv'
  BY DEF CountInv, ReqsInv
<1>2. /\ inflight' = [t \in Targets |-> IF t = t0 THEN inflight[t] + 1 ELSE inflight[t]]
      /\ dim' = [tm \in Targets \X Models |-> IF tm = <<t0, m0>> THEN dim[tm] + 1 ELSE dim[tm]]
  <2> HIDE DEF m0
  <2>1. IncInflight(t0, m0)
    BY ZenonT(30) DEF m0
  <2> QED BY Zenon, <2>1 DEF IncInflight, CountInv
<1> HIDE DEF m0
<1>3. ASSUME NEW t \in Targets
      PROVE  /\ Counts(inflight[t], OpenCalls(t), t \notin wiped)'
             /\ \A m \in Models : Counts(dim[<<t, m>>], CallsFor(t, m), t \notin wiped)'
  <2>0. /\ Counts(inflight[t], OpenCalls(t), t \notin wiped)
        /\ \A m \in Models : Counts(dim[<<t, m>>], CallsFor(t, m), t \notin wiped)
    BY Zenon, <1>3 DEF CountInv, CountsOpenCalls
  <2>f. IsFiniteSet(OpenCalls(t)) /\ \A m : IsFiniteSet(CallsFor(t, m))
    BY CallsFinite
  <2>1. CASE t = t0
    <3>1. /\ <<q, k0>> \notin OpenCalls(t) /\ OpenCalls(t)' = OpenCalls(t) \cup {<<q, k0>>}
          /\ \A m : IF m = m0
                    THEN <<q, k0>> \notin CallsFor(t, m) /\ CallsFor(t, m)' = CallsFor(t, m) \cup {<<q, k0>>}
                    ELSE CallsFor(t, m)' = CallsFor(t, m)
      <4>1. Gains(req[q], r, t, k0)
        BY <2>1, <1>3, OpeningAt
      <4>2. ReqsInv
        BY DEF CountInv
      <4>3. /\ <<q, k0>> \notin OpenCalls(t) /\ OpenCalls(t)' = OpenCalls(t) \cup {<<q, k0>>}
            /\ \A m : IF m = ModelOf(req[q])
                      THEN <<q, k0>> \notin CallsFor(t, m) /\ CallsFor(t, m)' = CallsFor(t, m) \cup {<<q, k0>>}
                      ELSE CallsFor(t, m)' = CallsFor(t, m)
        <5>1. req' = [req EXCEPT ![q] = r]
          OBVIOUS
        <5> QED BY ONLY ZenonT(30), <5>1, <4>1, <4>2, MoreCalls, q \in Requests, k0 \in Kinds
      <4> QED BY <4>3 DEF m0
    <3>2. Counts(inflight[t] + 1, OpenCalls(t) \cup {<<q, k0>>}, t \notin wiped)
      BY Zenon, <2>0, <2>f, <3>1, CountUp
    <3>3. Counts(inflight[t], OpenCalls(t), t \notin wiped)'
      BY ZenonT(30), <3>1, <3>2, <2>1, <1>2, <1>3 DEF Counts
    <3>4. ASSUME NEW m \in Models PROVE Counts(dim[<<t, m>>], CallsFor(t, m), t \notin wiped)'
      <4>1. CASE m = m0
        <5>1. Counts(dim[<<t, m>>] + 1, CallsFor(t, m) \cup {<<q, k0>>}, t \notin wiped)
          BY Zenon, <2>0, <2>f, <3>1, <4>1, CountUp
        <5>2. dim'[<<t, m>>] = dim[<<t, m>>] + 1
          BY ZenonT(30), <4>1, <2>1, <1>2, <1>3
        <5> QED BY Zenon, <5>1, <5>2, <3>1, <4>1 DEF Counts
      <4>2. CASE m # m0
        <5>1. dim'[<<t, m>>] = dim[<<t, m>>]
          BY ZenonT(30), <4>2, <2>1, <1>2, <1>3
        <5> QED BY ZenonT(30), <5>1, <3>1, <4>2, <2>0 DEF Counts
      <4> QED BY <4>1, <4>2
    <3> QED BY <3>3, <3>4
  <2>2. CASE t # t0
    <3>1. OpenCalls(t)' = OpenCalls(t) /\ \A m : CallsFor(t, m)' = CallsFor(t, m)
      <4>1. Alike(req[q], r, t)
        BY ZenonT(30), <2>2, <1>3, OpeningAt
      <4> QED BY Zenon, <4>1, SameCalls DEF CountInv
    <3>2. inflight'[t] = inflight[t] /\ \A m \in Models : dim'[<<t, m>>] = dim[<<t, m>>]
      BY ZenonT(30), <2>2, <1>2, <1>3
    <3> QED BY <2>0, <3>1, <3>2 DEF Counts
  <2> QED BY <2>1, <2>2
<1>4. CountsOpenCalls'
  BY <1>3 DEF CountsOpenCalls
<1> QED BY <1>1, <1>2, <1>4 DEF CountInv

\* One call less.
LEMMA StepDown ==
  ASSUME IsFiniteSet(Requests),
         CountInv, NEW q \in Requests, NEW r, req' = [req EXCEPT ![q] = r], ReqInv(r),
         NEW t0, NEW k0 \in Kinds, DecInflight(t0, ModelOf(req[q])), wiped' = wiped,
         Closing(req[q], r, t0, k0)
  PROVE  CountInv'
<1> DEFINE m0 == ModelOf(req[q])
<1>1. ReqsInv'
  BY DEF CountInv, ReqsInv
<1>2. /\ inflight' = [t \in Targets |-> IF t = t0 THEN Dec(inflight[t]) ELSE inflight[t]]
      /\ dim' = [tm \in Targets \X Models |-> IF tm = <<t0, m0>> THEN Dec(dim[tm]) ELSE dim[tm]]
  <2> HIDE DEF m0
  <2>1. DecInflight(t0, m0)
    BY DEF m0
  <2> QED BY Zenon, <2>1 DEF DecInflight, CountInv, Dec
<1> HIDE DEF m0
<1>3. ASSUME NEW t \in Targets
      PROVE  /\ Counts(inflight[t], OpenCalls(t), t \notin wiped)'
             /\ \A m \in Models : Counts(dim[<<t, m>>], CallsFor(t, m), t \notin wiped)'
  <2>0. /\ Counts(inflight[t], OpenCalls(t), t \notin wiped)
        /\ \A m \in Models : Counts(dim[<<t, m>>], CallsFor(t, m), t \notin wiped)
    BY Zenon, <1>3 DEF CountInv, CountsOpenCalls
  <2>f. IsFiniteSet(OpenCalls(t)) /\ \A m : IsFiniteSet(CallsFor(t, m))
    BY CallsFinite
  <2>1. CASE t = t0
    <3>1. /\ <<q, k0>> \in OpenCalls(t) /\ OpenCalls(t)' = OpenCalls(t) \ {<<q, k0>>}
          /\ \A m : IF m = m0
                    THEN <<q, k0>> \in CallsFor(t, m) /\ CallsFor(t, m)' = CallsFor(t, m) \ {<<q, k0>>}
                    ELSE CallsFor(t, m)' = CallsFor(t, m)
      <4>1. Loses(req[q], r, t, k0)
        BY <2>1, <1>3, ClosingAt
      <4>2. ReqsInv
        BY DEF CountInv
      <4>3. /\ <<q, k0>> \in OpenCalls(t) /\ OpenCalls(t)' = OpenCalls(t) \ {<<q, k0>>}
            /\ \A m : IF m = ModelOf(req[q])
                      THEN <<q, k0>> \in CallsFor(t, m) /\ CallsFor(t, m)' = CallsFor(t, m) \ {<<q, k0>>}
                      ELSE CallsFor(t, m)' = CallsFor(t, m)
        <5>1. req' = [req EXCEPT ![q] = r]
          OBVIOUS
        <5> QED BY ONLY ZenonT(30), <5>1, <4>1, <4>2, FewerCalls, q \in Requests, k0 \in Kinds
      <4> QED BY <4>3 DEF m0
    <3>2. Counts(Dec(inflight[t]), OpenCalls(t) \ {<<q, k0>>}, t \notin wiped)
      BY ZenonT(30), <2>0, <2>f, <3>1, CountDown DEF Dec
    <3>3. Counts(inflight[t], OpenCalls(t), t \notin wiped)'
      BY ZenonT(30), <3>1, <3>2, <2>1, <1>2, <1>3 DEF Counts
    <3>4. ASSUME NEW m \in Models PROVE Counts(dim[<<t, m>>], CallsFor(t, m), t \notin wiped)'
      <4>1. CASE m = m0
        <5>1. Counts(Dec(dim[<<t, m>>]), CallsFor(t, m) \ {<<q, k0>>}, t \notin wiped)
          BY ZenonT(30), <2>0, <2>f, <3>1, <4>1, CountDown DEF Dec
        <5>2. dim'[<<t, m>>] = Dec(dim[<<t, m>>])
          BY ZenonT(30), <4>1, <2>1, <1>2, <1>3
        <5> QED BY <5>1, <5>2, <3>1, <4>1 DEF Counts
      <4>2. CASE m # m0
        <5>1. dim'[<<t, m>>] = dim[<<t, m>>]
          BY ZenonT(30), <4>2, <2>1, <1>2, <1>3
        <5> QED BY ZenonT(30), <5>1, <3>1, <4>2, <2>0 DEF Counts
      <4> QED BY <4>1, <4>2
    <3> QED BY <3>3, <3>4
  <2>2. CASE t # t0
    <3>1. OpenCalls(t)' = OpenCalls(t) /\ \A m : CallsFor(t, m)' = CallsFor(t, m)
      <4>1. Alike(req[q], r, t)
        BY <2>2, <1>3, ClosingAt
      <4> QED BY Zenon, <4>1, SameCalls DEF CountInv
    <3>2. inflight'[t] = inflight[t] /\ \A m \in Models : dim'[<<t, m>>] = dim[<<t, m>>]
      BY ZenonT(30), <2>2, <1>2, <1>3
    <3> QED BY <2>0, <3>1, <3>2 DEF Counts
  <2> QED BY <2>1, <2>2
<1>4. CountsOpenCalls'
  BY <1>3 DEF CountsOpenCalls
<1> QED BY <1>1, <1>2, <1>4 DEF CountInv

-----------------------------------------------------------------------------
(* The actions *)

Closed(r) == \A t \in Targets, k \in Kinds : ~Opens(r, k, t)

\* A request that is not hedged and has no call out.
Unengaged(r) ==
  ReqInv(r) /\ r.legs = NoLegs /\ r.pc \notin {"handoff", "prefill", "call", "stream"}

LEMMA UnengagedClosed == ASSUME NEW r, Unengaged(r) PROVE Closed(r)
<1>1. \A n \in DOMAIN NoLegs : r.legs[n] = "none"
  BY DEF Unengaged, NoLegs
<1> QED BY <1>1 DEF Closed, Opens, Unengaged

LEMMA AdvanceUnengaged ==
  ASSUME NEW r, r = [f \in Fields |-> r[f]], r.legs = NoLegs
  PROVE  Unengaged(Advance(r)) /\ Advance(r).pc \in {"pick", "done"}
<1>1. NoLegs = [n \in DOMAIN NoLegs |-> NoLegs[n]]
  BY DEF NoLegs
<1>2. CASE r.i < Len(r.chain)
  BY Zenon, <1>1, <1>2 DEF Advance, Unengaged, ReqInv, Fields
<1>3. CASE ~(r.i < Len(r.chain))
  BY Zenon, <1>1, <1>3 DEF Advance, Unengaged, ReqInv, Fields
<1> QED BY <1>2, <1>3

LEMMA AfterFailureUnengaged ==
  ASSUME NEW q \in Requests, ReqInv(req[q]), req[q].legs = NoLegs, NEW err
  PROVE  Unengaged(AfterFailure(q, err))
<1> DEFINE r == [req[q] EXCEPT !.last = err, !.kv = None]
           s == [r EXCEPT !.classified = TRUE,
                   !.chain = MaybeSwapTypedChain(@, Chains[Call[q].model], err, r.i, Cap)]
<1>1. r = [f \in Fields |-> r[f]] /\ r.legs = NoLegs
  BY Zenon DEF ReqInv, Fields
<1>2. s = [f \in Fields |-> s[f]] /\ s.legs = NoLegs
  <2> HIDE DEF r
  <2> QED BY Zenon, <1>1 DEF Fields
<1>3. CASE NothingAnswered(q, err)
  <2>1. AfterFailure(q, err) = [r EXCEPT !.pc = "pick", !.skipped = @ \cup {r.node}, !.node = None, !.retry = 0]
    BY <1>3 DEF AfterFailure
  <2>2. NoLegs = [n \in DOMAIN NoLegs |-> NoLegs[n]]
    BY DEF NoLegs
  <2> HIDE DEF r
  <2> QED BY ZenonT(30), <1>1, <2>1, <2>2 DEF Unengaged, ReqInv, Fields
<1>4. CASE ~NothingAnswered(q, err) /\ (r.classified \/ Call[q].fallbacks # <<>>)
  <2>1. AfterFailure(q, err) = Advance(r)
    BY <1>4 DEF AfterFailure
  <2> HIDE DEF r
  <2> QED BY <1>1, <2>1, AdvanceUnengaged
<1>5. CASE ~NothingAnswered(q, err) /\ ~(r.classified \/ Call[q].fallbacks # <<>>)
  <2>1. AfterFailure(q, err) = Advance(s)
    BY <1>5 DEF AfterFailure
  <2> HIDE DEF s, r
  <2> QED BY <1>2, <2>1, AdvanceUnengaged
<1> QED BY <1>3, <1>4, <1>5

\* A request with no call out that makes none.
LEMMA StepIdle ==
  ASSUME CountInv, NEW q \in Requests, NEW r, req' = [req EXCEPT ![q] = r], ReqInv(r),
         UNCHANGED <<counts, wiped>>, Closed(req[q]), Closed(r)
  PROVE  CountInv'
<1>1. \A t \in Targets, k \in Kinds : /\ Opens(r, k, t) <=> Opens(req[q], k, t)
                                      /\ Opens(r, k, t) => ModelOf(r) = ModelOf(req[q])
  BY DEF Closed
<1> QED BY Zenon, <1>1, StepSame

LEMMA BeginCounts == ASSUME CountInv, NEW q \in Requests, Begin(q) PROVE CountInv'
<1>1. ReqInv(req[q]) /\ req[q].pc = "new"
  BY DEF CountInv, ReqsInv, Begin
<1>2. Unengaged(req[q])
  BY <1>1 DEF Unengaged, ReqInv, Single
<1> DEFINE c == Call[q]
           hedge(S) == [Fresh EXCEPT !.pc = "hedge", !.chain = <<c.model>>,
                          !.legs = [n \in DOMAIN NoLegs |-> IF n \in S THEN "start" ELSE "none"]]
           plain(p95) == [Fresh EXCEPT !.pc = "pick", !.chain = Ordered(c, p95)]
<1>3. PICK S, p95 : req' = [req EXCEPT ![q] = IF Cardinality(S) >= 2 THEN hedge(S) ELSE plain(p95)]
  BY Zenon DEF Begin
<1>4. UNCHANGED <<counts, wiped>>
  BY DEF Begin, fleet
<1>5. Closed(req[q])
  BY <1>2, UnengagedClosed
<1>6. ReqInv(hedge(S)) /\ Closed(hedge(S))
  <2>1. \A n \in DOMAIN NoLegs : hedge(S).legs[n] \in {"start", "none"}
    BY DEF Fresh
  <2>2. ReqInv(hedge(S)) /\ hedge(S).pc = "hedge"
    BY Zenon DEF Fresh, ReqInv, Fields, Single
  <2> QED BY <2>1, <2>2 DEF Closed, Opens
<1>7. ReqInv(plain(p95)) /\ Closed(plain(p95))
  <2>1. Unengaged(plain(p95))
    BY Zenon DEF Fresh, ReqInv, Fields, Single, Unengaged, NoLegs
  <2> QED BY Zenon, <2>1, UnengagedClosed DEF Unengaged
<1> HIDE DEF hedge, plain
<1>8. CASE Cardinality(S) >= 2
  BY Zenon, <1>3, <1>4, <1>5, <1>6, <1>8, StepIdle
<1>9. CASE ~(Cardinality(S) >= 2)
  BY Zenon, <1>3, <1>4, <1>5, <1>7, <1>9, StepIdle
<1> QED BY <1>8, <1>9

LEMMA PickCounts == ASSUME CountInv, NEW q \in Requests, Pick(q) PROVE CountInv'
<1>1. ReqInv(req[q]) /\ req[q].pc = "pick"
  BY DEF CountInv, ReqsInv, Pick
<1>2. Unengaged(req[q])
  BY <1>1 DEF Unengaged, ReqInv, Single
<1> DEFINE m == Candidate(q)
           r(p) == [req[q] EXCEPT !.rev[m] = p.rev,
                      !.gangless = IF q \notin gone /\ SkipsAGang(q, m) THEN @ \cup {m} ELSE @]
           s(p) == [r(p) EXCEPT !.last = "noworker"]
           t(p) == [r(p) EXCEPT !.pc = "dispatch", !.node = p.node, !.addr = p.addr]
<1>3. PICK p : req' = [req EXCEPT ![q] = IF p.node = None THEN Advance(s(p)) ELSE t(p)]
  BY Zenon DEF Pick
<1>4. UNCHANGED <<counts, wiped>>
  BY DEF Pick, fleet
<1>5. r(p) = [f \in Fields |-> r(p)[f]] /\ r(p).legs = NoLegs
  BY Zenon, <1>2 DEF Unengaged, ReqInv, Fields
<1>6. Unengaged(Advance(s(p)))
  <2> HIDE DEF r
  <2>1. s(p) = [f \in Fields |-> s(p)[f]] /\ s(p).legs = NoLegs
    BY <1>5 DEF Fields
  <2> HIDE DEF s
  <2> QED BY <2>1, AdvanceUnengaged
<1>7. Unengaged(t(p))
  <2> HIDE DEF r
  <2> QED BY Zenon, <1>5 DEF Unengaged, ReqInv, Fields, NoLegs
<1> HIDE DEF s, t
<1>8. CASE p.node = None
  BY Zenon, <1>2, <1>3, <1>4, <1>6, <1>8, UnengagedClosed, StepIdle DEF Unengaged
<1>9. CASE p.node # None
  BY Zenon, <1>2, <1>3, <1>4, <1>7, <1>9, UnengagedClosed, StepIdle DEF Unengaged
<1> QED BY <1>8, <1>9

LEMMA DispatchCounts ==
  ASSUME IsFiniteSet(Requests), CountInv, NEW q \in Requests, Dispatch(q) PROVE CountInv'
<1>1. ReqInv(req[q]) /\ req[q].pc = "dispatch"
  BY DEF CountInv, ReqsInv, Dispatch
<1>2. Unengaged(req[q])
  BY <1>1 DEF Unengaged, ReqInv, Single
<1>3. wiped' = wiped
  BY DEF Dispatch, fleet
<1> DEFINE t0 == req[q].node
           s == [req[q] EXCEPT !.last = "unsupported"]
           r == [req[q] EXCEPT !.addr = Dialled(t0, @),
                               !.pc = IF Call[q].op = "chat" /\ t0 \in Decoders THEN "handoff" ELSE "call"]
<1>4. \/ req' = [req EXCEPT ![q] = Advance(s)] /\ UNCHANGED counts
      \/ req' = [req EXCEPT ![q] = r] /\ IncInflight(t0, Candidate(q))
  BY DEF Dispatch
<1>5. CASE req' = [req EXCEPT ![q] = Advance(s)] /\ UNCHANGED counts
  <2>1. s = [f \in Fields |-> s[f]] /\ s.legs = NoLegs
    BY <1>2 DEF Fields, Unengaged, ReqInv
  <2> HIDE DEF s
  <2>2. Unengaged(Advance(s))
    BY <2>1, AdvanceUnengaged
  <2> QED BY Zenon, <1>2, <1>3, <1>5, <2>2, UnengagedClosed, StepIdle DEF Unengaged, counts
<1>6. CASE req' = [req EXCEPT ![q] = r] /\ IncInflight(t0, Candidate(q))
  <2>1. /\ ReqInv(r) /\ r.legs = NoLegs /\ r.node = t0 /\ r.pc \in {"handoff", "call"}
        /\ ModelOf(r) = ModelOf(req[q])
    BY Zenon, <1>2 DEF Fields, Unengaged, ReqInv, ModelOf, NoLegs
  <2>2. \A n \in DOMAIN NoLegs : r.legs[n] = "none"
    BY <2>1 DEF NoLegs
  <2>3. Closed(req[q])
    BY ZenonT(30), <1>2, UnengagedClosed
  <2> HIDE DEF r
  <2>4. Opening(req[q], r, t0, "whole")
    BY ZenonT(30), <1>1, <2>1, <2>2, <2>3 DEF Opens, Closed, Kinds, Opening
  <2>6. IncInflight(t0, ModelOf(req[q])) /\ "whole" \in Kinds
    BY <1>6 DEF Candidate, ModelOf, Kinds
  <2> HIDE DEF t0
  <2> QED BY Zenon, <1>3, <1>6, <2>1, <2>4, <2>6, StepUp
<1> QED BY <1>4, <1>5, <1>6

LEMMA HandoffCounts ==
  ASSUME IsFiniteSet(Requests), CountInv, NEW q \in Requests, Handoff(q) PROVE CountInv'
<1>1. ReqInv(req[q]) /\ req[q].pc = "handoff"
  BY ZenonT(30) DEF CountInv, ReqsInv, Handoff
<1>2. req[q].legs = NoLegs /\ \A n \in DOMAIN NoLegs : req[q].legs[n] = "none"
  BY <1>1 DEF ReqInv, Single, NoLegs
<1>3. wiped' = wiped
  BY DEF Handoff, fleet
<1> DEFINE ps == PrefillWorkers(q)
           whole == [req[q] EXCEPT !.pc = "call", !.kv = None]
           split == [req[q] EXCEPT !.pc = "prefill", !.prefill = ps]
<1>4. \/ req' = [req EXCEPT ![q] = whole] /\ UNCHANGED counts
      \/ req' = [req EXCEPT ![q] = split] /\ IncInflight(ps[1], Candidate(q))
  BY Zenon DEF Handoff, CountInv, ReqsInv
<1> HIDE DEF ps
<1>5. CASE req' = [req EXCEPT ![q] = whole] /\ UNCHANGED counts
  <2>1. /\ ReqInv(whole) /\ whole.legs = req[q].legs /\ whole.node = req[q].node /\ whole.pc = "call"
        /\ ModelOf(whole) = ModelOf(req[q])
    BY ZenonT(30), <1>1, <1>2 DEF Fields, ReqInv, ModelOf
  <2> HIDE DEF whole
  <2>2. \A t \in Targets, k \in Kinds : Opens(whole, k, t) <=> Opens(req[q], k, t)
    BY <1>1, <2>1 DEF Opens
  <2> QED BY Zenon, <1>3, <1>5, <2>1, <2>2, StepSame DEF counts
<1>6. CASE req' = [req EXCEPT ![q] = split] /\ IncInflight(ps[1], Candidate(q))
  <2>1. /\ ReqInv(split) /\ split.legs = req[q].legs /\ split.node = req[q].node /\ split.pc = "prefill"
        /\ split.prefill = ps /\ ModelOf(split) = ModelOf(req[q])
    BY ZenonT(30), <1>1, <1>2 DEF Fields, ReqInv, ModelOf
  <2> HIDE DEF split
  <2>2. Opening(req[q], split, ps[1], "prefill")
    BY ZenonT(30), <1>1, <2>1 DEF Opens, Opening
  <2>4. IncInflight(ps[1], ModelOf(req[q])) /\ "prefill" \in Kinds
    BY <1>6 DEF Candidate, ModelOf, Kinds
  <2> QED BY Zenon, <1>3, <1>6, <2>1, <2>2, <2>4, StepUp
<1> QED BY <1>4, <1>5, <1>6

LEMMA HandoffFailsCounts == ASSUME CountInv, NEW q \in Requests, HandoffFails(q) PROVE CountInv'
<1>1. ReqInv(req[q])
  BY DEF CountInv, ReqsInv
<1> DEFINE r == [req[q] EXCEPT !.kv = None]
<1>2. req' = [req EXCEPT ![q] = r] /\ UNCHANGED <<counts, wiped>>
  BY DEF HandoffFails, fleet
<1>3. /\ ReqInv(r) /\ r.legs = req[q].legs /\ r.node = req[q].node /\ r.pc = req[q].pc
      /\ r.prefill = req[q].prefill /\ ModelOf(r) = ModelOf(req[q])
  BY ZenonT(30), <1>1 DEF Fields, ReqInv, ModelOf
<1> HIDE DEF r
<1>4. \A t \in Targets, k \in Kinds : Opens(r, k, t) <=> Opens(req[q], k, t)
  BY <1>3 DEF Opens
<1> QED BY Zenon, <1>2, <1>3, <1>4, StepSame

\* The end of the call for a whole answer.
LEMMA WholeCloses ==
  ASSUME NEW r, NEW s, ReqInv(r), r.legs = NoLegs, r.pc \in {"handoff", "call", "stream"}, Closed(s)
  PROVE  Closing(r, s, r.node, "whole")
<1>1. \A n \in DOMAIN NoLegs : r.legs[n] = "none"
  BY DEF NoLegs
<1>2. Opens(r, "whole", r.node)
  BY DEF Opens
<1>3. ASSUME NEW t \in Targets, NEW k \in Kinds
      PROVE  ~(k = "whole" /\ t = r.node) => ~Opens(r, k, t)
  BY <1>1 DEF Opens
<1> QED BY ZenonT(30), <1>2, <1>3 DEF Closing, Closed

LEMMA SucceedsCounts ==
  ASSUME IsFiniteSet(Requests), CountInv, NEW q \in Requests, Succeeds(q) PROVE CountInv'
<1>1. ReqInv(req[q]) /\ req[q].pc = "call"
  BY DEF CountInv, ReqsInv, Succeeds
<1>2. req[q].legs = NoLegs
  BY <1>1 DEF ReqInv, Single
<1>3. wiped' = wiped
  BY DEF Succeeds, fleet
<1> DEFINE r == [req[q] EXCEPT !.pc = "stream", !.last = "served"]
           s == [req[q] EXCEPT !.pc = "done", !.last = "served"]
<1>4. \/ req' = [req EXCEPT ![q] = r] /\ UNCHANGED counts
      \/ req' = [req EXCEPT ![q] = s] /\ DecInflight(req[q].node, Candidate(q))
  BY Zenon DEF Succeeds
<1>5. CASE req' = [req EXCEPT ![q] = r] /\ UNCHANGED counts
  <2>1. /\ ReqInv(r) /\ r.legs = req[q].legs /\ r.node = req[q].node /\ r.pc = "stream"
        /\ ModelOf(r) = ModelOf(req[q])
    BY Zenon, <1>1, <1>2 DEF Fields, ReqInv, ModelOf, Single
  <2> HIDE DEF r
  <2>2. \A t \in Targets, k \in Kinds : Opens(r, k, t) <=> Opens(req[q], k, t)
    BY <1>1, <2>1 DEF Opens
  <2> QED BY Zenon, <1>3, <1>5, <2>1, <2>2, StepSame
<1>6. CASE req' = [req EXCEPT ![q] = s] /\ DecInflight(req[q].node, Candidate(q))
  <2>1. Unengaged(s)
    BY Zenon, <1>1, <1>2 DEF Unengaged, Fields, ReqInv, Single
  <2> HIDE DEF s
  <2>2. ReqInv(s) /\ Closing(req[q], s, req[q].node, "whole")
    BY ZenonT(30), <1>1, <1>2, <2>1, UnengagedClosed, WholeCloses DEF Unengaged
  <2>3. DecInflight(req[q].node, ModelOf(req[q])) /\ "whole" \in Kinds
    BY <1>6 DEF Candidate, ModelOf, Kinds
  <2> QED BY Zenon, <1>3, <1>6, <2>2, <2>3, StepDown
<1> QED BY <1>4, <1>5, <1>6

LEMMA FailsCounts ==
  ASSUME IsFiniteSet(Requests), CountInv, NEW q \in Requests, Fails(q) PROVE CountInv'
<1>1. ReqInv(req[q]) /\ req[q].pc = "call"
  BY DEF CountInv, ReqsInv, Fails
<1>2. req[q].legs = NoLegs
  BY <1>1 DEF ReqInv, Single
<1> DEFINE again(err) == [req[q] EXCEPT !.pc = "retry", !.retry = @ + 1, !.last = err, !.kv = None]
<1>3. PICK err, s : /\ req' = [req EXCEPT ![q] = s] /\ s \in {again(err), AfterFailure(q, err)}
                    /\ DecInflight(req[q].node, Candidate(q))
  BY Zenon DEF Fails
<1>4. Unengaged(again(err))
  BY Zenon, <1>1, <1>2 DEF Unengaged, Fields, ReqInv, Single
<1>5. Unengaged(AfterFailure(q, err))
  BY ZenonT(30), <1>1, <1>2, AfterFailureUnengaged
<1> HIDE DEF again
<1>6. Unengaged(s)
  BY ZenonT(30), <1>3, <1>4, <1>5
<1>7. ReqInv(s) /\ Closing(req[q], s, req[q].node, "whole")
  BY ZenonT(30), <1>1, <1>2, <1>6, UnengagedClosed, WholeCloses DEF Unengaged
<1>8. DecInflight(req[q].node, ModelOf(req[q])) /\ "whole" \in Kinds /\ wiped' = wiped
  BY <1>3 DEF Candidate, ModelOf, Kinds, Fails, fleet
<1> QED BY Zenon, <1>3, <1>7, <1>8, StepDown

LEMMA RetryCounts ==
  ASSUME IsFiniteSet(Requests), CountInv, NEW q \in Requests, Retry(q) PROVE CountInv'
<1>1. ReqInv(req[q]) /\ req[q].pc = "retry" /\ wiped' = wiped
  BY ZenonT(30) DEF CountInv, ReqsInv, Retry, fleet
<1>2. Unengaged(req[q])
  BY <1>1 DEF Unengaged, ReqInv, Single
<1>3. Closed(req[q])
  BY <1>2, UnengagedClosed
<1> DEFINE r == [req[q] EXCEPT !.pc = "call"]
<1>4. \/ req' = [req EXCEPT ![q] = AfterFailure(q, "cancelled")] /\ UNCHANGED counts
      \/ req' = [req EXCEPT ![q] = r] /\ IncInflight(req[q].node, Candidate(q))
  BY DEF Retry
<1>5. CASE req' = [req EXCEPT ![q] = AfterFailure(q, "cancelled")] /\ UNCHANGED counts
  <2>1. Unengaged(AfterFailure(q, "cancelled"))
    BY <1>2, AfterFailureUnengaged DEF Unengaged
  <2> QED BY Zenon, <1>1, <1>3, <1>5, <2>1, UnengagedClosed, StepIdle DEF Unengaged
<1>6. CASE req' = [req EXCEPT ![q] = r] /\ IncInflight(req[q].node, Candidate(q))
  <2>1. /\ ReqInv(r) /\ r.legs = NoLegs /\ r.node = req[q].node /\ r.pc = "call"
        /\ ModelOf(r) = ModelOf(req[q])
    BY <1>2 DEF Fields, Unengaged, ReqInv, ModelOf
  <2>2. \A n \in DOMAIN NoLegs : r.legs[n] = "none"
    BY ZenonT(30), <2>1 DEF NoLegs
  <2> HIDE DEF r
  <2>3. Opening(req[q], r, req[q].node, "whole")
    BY ZenonT(30), <1>1, <1>3, <2>1, <2>2 DEF Opens, Closed, Kinds, Opening
  <2>4. IncInflight(req[q].node, ModelOf(req[q])) /\ "whole" \in Kinds
    BY <1>6 DEF Candidate, ModelOf, Kinds
  <2> QED BY Zenon, <1>1, <1>6, <2>1, <2>3, <2>4, StepUp
<1> QED BY <1>4, <1>5, <1>6

LEMMA StreamEndsCounts ==
  ASSUME IsFiniteSet(Requests), CountInv, NEW q \in Requests, StreamEnds(q) PROVE CountInv'
<1>1. ReqInv(req[q]) /\ req[q].pc = "stream" /\ req[q].legs = NoLegs /\ wiped' = wiped
  BY DEF CountInv, ReqsInv, StreamEnds, fleet
<1> DEFINE s == [req[q] EXCEPT !.pc = "done"]
<1>2. req' = [req EXCEPT ![q] = s] /\ DecInflight(req[q].node, Candidate(q))
  BY DEF StreamEnds
<1>3. Unengaged(s)
  BY ZenonT(30), <1>1 DEF Unengaged, Fields, ReqInv, Single
<1> HIDE DEF s
<1>4. ReqInv(s) /\ Closing(req[q], s, req[q].node, "whole")
  BY ZenonT(30), <1>1, <1>3, UnengagedClosed, WholeCloses DEF Unengaged
<1>5. DecInflight(req[q].node, ModelOf(req[q])) /\ "whole" \in Kinds
  BY ZenonT(30), <1>2 DEF Candidate, ModelOf, Kinds
<1> QED BY Zenon, <1>1, <1>2, <1>4, <1>5, StepDown

\* A leg of a hedged request goes from one state to another: the request has no
\* other kind of call.
SetsLeg(r, s, n, state) ==
  /\ ReqInv(s) /\ ModelOf(s) = ModelOf(r) /\ s.pc \notin Single
  /\ s.legs = [r.legs EXCEPT ![n] = state]

LEMMA LegCalls ==
  ASSUME NEW r, NEW s, NEW n \in DOMAIN NoLegs, NEW state, state # "none",
         ReqInv(r), r.legs[n] # "none", SetsLeg(r, s, n, state), NEW t, NEW k \in Kinds
  PROVE  /\ Opens(r, k, t) <=> (k = "leg" /\ t \in DOMAIN NoLegs /\ r.legs[t] \in {"calling", "opened", "won"})
         /\ Opens(s, k, t) <=> (k = "leg" /\ IF t = n THEN state \in {"calling", "opened", "won"}
                                                      ELSE Opens(r, k, t))
<1>1. r.legs # NoLegs /\ r.pc \notin Single
  BY DEF NoLegs, ReqInv
<1>2. s.legs[n] = state /\ \A o \in DOMAIN NoLegs : o # n => s.legs[o] = r.legs[o]
  BY DEF SetsLeg, ReqInv
<1>3. s.legs # NoLegs /\ s.pc \notin Single
  BY <1>2 DEF NoLegs, SetsLeg
<1>4. "prefill" \in Single
  BY DEF Single
<1> QED BY <1>1, <1>2, <1>3, <1>4 DEF Opens, Kinds

LEMMA SetLegSets ==
  ASSUME CountInv, NEW q \in Requests, NEW n \in DOMAIN NoLegs, NEW state, state # "none",
         SetLeg(q, n, state), req[q].legs[n] # "none"
  PROVE  \E s : req' = [req EXCEPT ![q] = s] /\ SetsLeg(req[q], s, n, state)
<1>1. ReqInv(req[q])
  BY DEF CountInv, ReqsInv
<1>2. req[q].pc \notin Single
  BY <1>1 DEF ReqInv, NoLegs
<1> DEFINE s == [req[q] EXCEPT !.legs[n] = state]
<1>3. req' = [req EXCEPT ![q] = s]
  BY DEF SetLeg
<1>4. s.pc = req[q].pc /\ s.legs = [req[q].legs EXCEPT ![n] = state] /\ ModelOf(s) = ModelOf(req[q])
  BY <1>1 DEF Fields, ReqInv, ModelOf
<1>5. s = [f \in Fields |-> s[f]]
  BY ZenonT(30), <1>1 DEF Fields, ReqInv
<1> HIDE DEF s
<1>6. s.legs = [o \in DOMAIN NoLegs |-> s.legs[o]]
  BY <1>1, <1>4 DEF ReqInv
<1>7. SetsLeg(req[q], s, n, state)
  BY <1>2, <1>4, <1>5, <1>6 DEF SetsLeg, ReqInv
<1> QED BY Zenon, <1>3, <1>7

\* A leg whose call is made, goes on, or ends.
LEMMA LegOpens ==
  ASSUME IsFiniteSet(Requests), CountInv, NEW q \in Requests, NEW n \in DOMAIN NoLegs, NEW s, NEW state,
         req' = [req EXCEPT ![q] = s], SetsLeg(req[q], s, n, state), wiped' = wiped,
         req[q].legs[n] = "start", state = "calling", IncInflight(n, Candidate(q))
  PROVE  CountInv'
<1>1. ReqInv(req[q]) /\ ReqInv(s)
  BY ZenonT(30) DEF CountInv, ReqsInv, SetsLeg
<1>2. Opening(req[q], s, n, "leg")
  <2>1. ~Opens(req[q], "leg", n)
    BY ZenonT(30) DEF Opens
  <2>2. ASSUME NEW t \in Targets, NEW k \in Kinds
        PROVE  Opens(s, k, t) <=> ((k = "leg" /\ t = n) \/ Opens(req[q], k, t))
    <3>1. state # "none" /\ req[q].legs[n] # "none" /\ state \in {"calling", "opened", "won"}
      BY ZenonT(30)
    <3>2. /\ Opens(req[q], k, t) => k = "leg"
          /\ Opens(s, k, t) <=> (k = "leg" /\ IF t = n THEN state \in {"calling", "opened", "won"}
                                                       ELSE Opens(req[q], k, t))
      BY SMTT(20), <1>1, <3>1, LegCalls
    <3> QED BY ONLY ZenonT(30), <3>1, <3>2, <2>1, k \in Kinds
  <2> QED BY ZenonT(30), <2>1, <2>2 DEF Opening, SetsLeg
<1>3. IncInflight(n, ModelOf(req[q])) /\ "leg" \in Kinds
  BY DEF Candidate, ModelOf, Kinds
<1> QED BY Zenon, <1>1, <1>2, <1>3, StepUp

LEMMA LegGoesOn ==
  ASSUME CountInv, NEW q \in Requests, NEW n \in DOMAIN NoLegs, NEW s, NEW state,
         req' = [req EXCEPT ![q] = s], SetsLeg(req[q], s, n, state), UNCHANGED <<counts, wiped>>,
         req[q].legs[n] \in {"calling", "opened"}, state \in {"opened", "won"}
  PROVE  CountInv'
<1>1. ReqInv(req[q]) /\ ReqInv(s) /\ ModelOf(s) = ModelOf(req[q])
  BY ZenonT(30) DEF CountInv, ReqsInv, SetsLeg
<1>2. ASSUME NEW t \in Targets, NEW k \in Kinds PROVE Opens(s, k, t) <=> Opens(req[q], k, t)
  BY <1>1, LegCalls
<1> QED BY Zenon, <1>1, <1>2, StepSame

LEMMA LegCloses ==
  ASSUME IsFiniteSet(Requests), CountInv, NEW q \in Requests, NEW n \in DOMAIN NoLegs, NEW s, NEW state,
         req' = [req EXCEPT ![q] = s], SetsLeg(req[q], s, n, state), wiped' = wiped,
         req[q].legs[n] \in {"calling", "opened", "won"}, state \in {"failed", "over"},
         DecInflight(n, Candidate(q))
  PROVE  CountInv'
<1>1. ReqInv(req[q]) /\ ReqInv(s)
  BY ZenonT(30) DEF CountInv, ReqsInv, SetsLeg
<1>2. Closing(req[q], s, n, "leg")
  <2>1. Opens(req[q], "leg", n)
    BY ZenonT(30) DEF Opens
  <2>2. ASSUME NEW t \in Targets, NEW k \in Kinds
        PROVE  Opens(s, k, t) <=> (~(k = "leg" /\ t = n) /\ Opens(req[q], k, t))
    BY SMTT(20), <1>1, LegCalls
  <2> QED BY ZenonT(30), <2>1, <2>2 DEF Closing, SetsLeg
<1>3. DecInflight(n, ModelOf(req[q])) /\ "leg" \in Kinds
  BY DEF Candidate, ModelOf, Kinds
<1> QED BY Zenon, <1>1, <1>2, <1>3, StepDown

LEMMA LegCounts ==
  ASSUME IsFiniteSet(Requests), CountInv, NEW q \in Requests, NEW n \in DOMAIN NoLegs, Leg(q, n)
  PROVE  CountInv'
<1>0. ReqInv(req[q])
  BY DEF CountInv, ReqsInv
<1>1. CASE LegStarts(q, n)
  <2>1. /\ req[q].legs[n] = "start" /\ SetLeg(q, n, "calling")
        /\ IncInflight(n, Candidate(q)) /\ wiped' = wiped
    BY ZenonT(30), <1>1 DEF LegStarts, fleet
  <2>2. PICK s : req' = [req EXCEPT ![q] = s] /\ SetsLeg(req[q], s, n, "calling")
    BY ZenonT(30), <2>1, SetLegSets
  <2> QED BY ZenonT(30), <2>1, <2>2, LegOpens
<1>2. CASE LegAnswers(q, n)
  <2>1. /\ req[q].legs[n] = "calling" /\ wiped' = wiped
        /\ \/ SetLeg(q, n, "opened") /\ UNCHANGED counts
           \/ SetLeg(q, n, "failed") /\ DecInflight(n, Candidate(q))
    BY <1>2 DEF LegAnswers, fleet
  <2>2. CASE SetLeg(q, n, "opened") /\ UNCHANGED counts
    <3>1. PICK s : req' = [req EXCEPT ![q] = s] /\ SetsLeg(req[q], s, n, "opened")
      BY ZenonT(30), <2>1, <2>2, SetLegSets
    <3> QED BY ZenonT(30), <2>1, <2>2, <3>1, LegGoesOn
  <2>3. CASE SetLeg(q, n, "failed") /\ DecInflight(n, Candidate(q))
    <3>1. PICK s : req' = [req EXCEPT ![q] = s] /\ SetsLeg(req[q], s, n, "failed")
      BY ZenonT(30), <2>1, <2>3, SetLegSets
    <3> QED BY ZenonT(30), <2>1, <2>3, <3>1, LegCloses
  <2> QED BY ZenonT(30), <2>1, <2>2, <2>3
<1>3. CASE LoserReports(q, n)
  <2>1. /\ req[q].legs[n] = "opened" /\ SetLeg(q, n, "over")
        /\ DecInflight(n, Candidate(q)) /\ wiped' = wiped
    BY ZenonT(30), <1>3 DEF LoserReports, fleet
  <2>2. PICK s : req' = [req EXCEPT ![q] = s] /\ SetsLeg(req[q], s, n, "over")
    BY Zenon, <2>1, SetLegSets
  <2> QED BY Zenon, <2>1, <2>2, LegCloses
<1>4. CASE HedgeWins(q, n)
  <2> DEFINE s == [req[q] EXCEPT !.pc = "stream", !.node = n, !.last = "served", !.legs[n] = "won"]
  <2>1. req[q].legs[n] = "opened" /\ req' = [req EXCEPT ![q] = s] /\ UNCHANGED <<counts, wiped>>
    BY <1>4 DEF HedgeWins, fleet
  <2>2. /\ s = [f \in Fields |-> s[f]] /\ s.pc = "stream" /\ ModelOf(s) = ModelOf(req[q])
        /\ s.legs = [req[q].legs EXCEPT ![n] = "won"]
    BY ZenonT(30), <1>0 DEF Fields, ReqInv, ModelOf
  <2> HIDE DEF s
  <2>3. SetsLeg(req[q], s, n, "won")
    BY <1>0, <2>2 DEF SetsLeg, ReqInv, Single
  <2> QED BY Zenon, <2>1, <2>3, LegGoesOn
<1>5. CASE WinnerEnds(q, n)
  <2> DEFINE s == [req[q] EXCEPT !.pc = "done", !.legs[n] = "over"]
  <2>1. /\ req[q].legs[n] = "won" /\ req' = [req EXCEPT ![q] = s]
        /\ DecInflight(n, Candidate(q)) /\ wiped' = wiped
    BY <1>5 DEF WinnerEnds, fleet
  <2>2. /\ s = [f \in Fields |-> s[f]] /\ s.pc = "done" /\ ModelOf(s) = ModelOf(req[q])
        /\ s.legs = [req[q].legs EXCEPT ![n] = "over"]
    BY Zenon, <1>0 DEF Fields, ReqInv, ModelOf
  <2> HIDE DEF s
  <2>3. SetsLeg(req[q], s, n, "over")
    BY <1>0, <2>2 DEF SetsLeg, ReqInv, Single
  <2> QED BY Zenon, <2>1, <2>3, LegCloses
<1> QED BY ZenonT(30), <1>1, <1>2, <1>3, <1>4, <1>5 DEF Leg

LEMMA HedgeFailsCounts == ASSUME CountInv, NEW q \in Requests, HedgeFails(q) PROVE CountInv'
<1>1. ReqInv(req[q]) /\ req[q].pc = "hedge"
  BY DEF CountInv, ReqsInv, HedgeFails
<1> DEFINE r == [req[q] EXCEPT !.pc = "done", !.last = "unreachable"]
<1>2. req' = [req EXCEPT ![q] = r] /\ UNCHANGED <<counts, wiped>>
  BY DEF HedgeFails, fleet
<1>3. /\ ReqInv(r) /\ r.legs = req[q].legs /\ r.pc = "done"
  BY Zenon, <1>1 DEF Fields, ReqInv, Single
<1>4. \A n \in DOMAIN NoLegs : req[q].legs[n] \in {"none", "failed"}
  BY ZenonT(30) DEF HedgeFails
<1> HIDE DEF r
<1>5. Closed(req[q]) /\ Closed(r)
  BY ZenonT(30), <1>1, <1>3, <1>4 DEF Closed, Opens
<1> QED BY Zenon, <1>2, <1>3, <1>5, StepIdle

\* A prefill call ends and the next one begins, on the same worker or another.
LEMMA CountSwap ==
  ASSUME NEW S, IsFiniteSet(S), NEW c, c \in S, NEW n, NEW w, NEW t, Counts(n, S, t \notin w)
  PROVE  Counts(Dec(n) + 1, S, t \notin w)
<1>1. /\ Cardinality(S \ {c}) = Cardinality(S) - 1
      /\ Cardinality(S) \in Nat /\ Cardinality(S \ {c}) \in Nat
  BY FS_RemoveElement, FS_CardinalityType
<1>2. CASE t \in w
  BY <1>1, <1>2 DEF Counts, Dec
<1>3. CASE t \notin w
  BY SMTT(20), <1>1, <1>3 DEF Counts, Dec
<1> QED BY <1>2, <1>3

\* From r to s the call of kind k0 on a becomes one on b.
Moving(r, s, a, b, k0) ==
  /\ ModelOf(s) = ModelOf(r)
  /\ Opens(r, k0, a) /\ (a # b => ~Opens(r, k0, b))
  /\ \A t \in Targets, k \in Kinds :
       Opens(s, k, t) <=> IF k = k0 THEN t = b ELSE Opens(r, k, t)
  /\ \A t \in Targets : Opens(r, k0, t) <=> t = a

LEMMA MovingAt ==
  ASSUME NEW r, NEW s, NEW a, NEW b, NEW k0 \in Kinds, Moving(r, s, a, b, k0), NEW t \in Targets
  PROVE  /\ t = a /\ t # b => Loses(r, s, t, k0)
         /\ t = b /\ t # a => Gains(r, s, t, k0)
         /\ (t # a /\ t # b) \/ (t = a /\ t = b) => Alike(r, s, t)
<1>1. ModelOf(s) = ModelOf(r) /\ (Opens(r, k0, t) <=> t = a)
  BY DEF Moving
<1>2. ASSUME NEW k \in Kinds PROVE Opens(s, k, t) <=> IF k = k0 THEN t = b ELSE Opens(r, k, t)
  BY DEF Moving
<1>3. t = a /\ t # b => Loses(r, s, t, k0)
  BY <1>1, <1>2 DEF Loses
<1>4. t = b /\ t # a => Gains(r, s, t, k0)
  BY <1>1, <1>2 DEF Gains
<1>5. (t # a /\ t # b) \/ (t = a /\ t = b) => Alike(r, s, t)
  BY ZenonT(30), <1>1, <1>2 DEF Alike
<1> QED BY <1>3, <1>4, <1>5

\* What happens to one count, for all calls or for those of one model.
Moved(n, t, a, b) ==
  IF t = b THEN (IF t = a THEN Dec(n) ELSE n) + 1 ELSE IF t = a THEN Dec(n) ELSE n

Follows(S, T, c, t, a, b) ==
  /\ t = a /\ t # b => c \in S /\ T = S \ {c}
  /\ t = b /\ t # a => c \notin S /\ T = S \cup {c}
  /\ t = a /\ t = b => c \in S /\ T = S
  /\ t # a /\ t # b => T = S

LEMMA MovedCount ==
  ASSUME NEW S, NEW T, IsFiniteSet(S), NEW c, NEW n, NEW w, NEW t, Counts(n, S, t \notin w),
         NEW a, NEW b, Follows(S, T, c, t, a, b)
  PROVE  Counts(Moved(n, t, a, b), T, t \notin w)
<1>1. CASE t = a /\ t # b
  <2>1. Counts(Dec(n), S \ {c}, t \notin w)
    BY <1>1, CountDown DEF Dec, Follows
  <2> QED BY <1>1, <2>1 DEF Moved, Follows
<1>2. CASE t = b /\ t # a
  <2>1. Counts(n + 1, S \cup {c}, t \notin w)
    BY <1>2, CountUp DEF Follows
  <2> QED BY <1>2, <2>1 DEF Moved, Follows
<1>3. CASE t = a /\ t = b
  <2>1. Counts(Dec(n) + 1, S, t \notin w)
    BY ZenonT(30), <1>3, CountSwap DEF Follows
  <2> QED BY ZenonT(30), <1>3, <2>1 DEF Moved, Follows
<1>4. CASE t # a /\ t # b
  BY ZenonT(30), <1>4 DEF Moved, Follows
<1> QED BY ZenonT(30), <1>1, <1>2, <1>3, <1>4

LEMMA StepMove ==
  ASSUME IsFiniteSet(Requests),
         CountInv, NEW q \in Requests, NEW r, req' = [req EXCEPT ![q] = r], ReqInv(r),
         NEW a, NEW b, NEW k0 \in Kinds, wiped' = wiped, Moving(req[q], r, a, b, k0),
         inflight' = [t \in Targets |-> Moved(inflight[t], t, a, b)],
         dim' = [tm \in Targets \X Models |->
                   IF tm[2] = ModelOf(req[q]) THEN Moved(dim[tm], tm[1], a, b) ELSE dim[tm]]
  PROVE  CountInv'
<1> DEFINE m0 == ModelOf(req[q])
           c == <<q, k0>>
<1>1. ReqsInv'
  BY DEF CountInv, ReqsInv
<1>2. ASSUME NEW t \in Targets
      PROVE  /\ Counts(inflight[t], OpenCalls(t), t \notin wiped)'
             /\ \A m \in Models : Counts(dim[<<t, m>>], CallsFor(t, m), t \notin wiped)'
  <2>0. /\ Counts(inflight[t], OpenCalls(t), t \notin wiped)
        /\ \A m \in Models : Counts(dim[<<t, m>>], CallsFor(t, m), t \notin wiped)
    BY Zenon, <1>2 DEF CountInv, CountsOpenCalls
  <2>f. IsFiniteSet(OpenCalls(t)) /\ \A m : IsFiniteSet(CallsFor(t, m))
    BY Zenon, CallsFinite
  <2>r. ReqsInv /\ req' = [req EXCEPT ![q] = r]
    BY DEF CountInv
  <2>1. t = a /\ t # b =>
          /\ c \in OpenCalls(t) /\ OpenCalls(t)' = OpenCalls(t) \ {c}
          /\ \A m : IF m = m0 THEN c \in CallsFor(t, m) /\ CallsFor(t, m)' = CallsFor(t, m) \ {c}
                    ELSE CallsFor(t, m)' = CallsFor(t, m)
    <3>1. t = a /\ t # b => Loses(req[q], r, t, k0)
      BY Zenon, <1>2, MovingAt
    <3>2. ASSUME Loses(req[q], r, t, k0)
          PROVE  /\ c \in OpenCalls(t) /\ OpenCalls(t)' = OpenCalls(t) \ {c}
                 /\ \A m : IF m = m0 THEN c \in CallsFor(t, m) /\ CallsFor(t, m)' = CallsFor(t, m) \ {c}
                           ELSE CallsFor(t, m)' = CallsFor(t, m)
      BY ONLY Zenon, <2>r, <3>2, FewerCalls, q \in Requests, k0 \in Kinds
    <3> QED BY Zenon, <3>1, <3>2
  <2>2. t = b /\ t # a =>
          /\ c \notin OpenCalls(t) /\ OpenCalls(t)' = OpenCalls(t) \cup {c}
          /\ \A m : IF m = m0 THEN c \notin CallsFor(t, m) /\ CallsFor(t, m)' = CallsFor(t, m) \cup {c}
                    ELSE CallsFor(t, m)' = CallsFor(t, m)
    <3>1. t = b /\ t # a => Gains(req[q], r, t, k0)
      BY Zenon, <1>2, MovingAt
    <3>2. ASSUME Gains(req[q], r, t, k0)
          PROVE  /\ c \notin OpenCalls(t) /\ OpenCalls(t)' = OpenCalls(t) \cup {c}
                 /\ \A m : IF m = m0 THEN c \notin CallsFor(t, m) /\ CallsFor(t, m)' = CallsFor(t, m) \cup {c}
                           ELSE CallsFor(t, m)' = CallsFor(t, m)
      BY ONLY ZenonT(30), <2>r, <3>2, MoreCalls, q \in Requests, k0 \in Kinds
    <3> QED BY Zenon, <3>1, <3>2
  <2>3. (t # a /\ t # b) \/ (t = a /\ t = b) =>
          OpenCalls(t)' = OpenCalls(t) /\ \A m : CallsFor(t, m)' = CallsFor(t, m)
    <3>1. (t # a /\ t # b) \/ (t = a /\ t = b) => Alike(req[q], r, t)
      BY Zenon, <1>2, MovingAt
    <3> QED BY ONLY Zenon, <2>r, <3>1, SameCalls, q \in Requests
  <2>4. t = a => c \in OpenCalls(t) /\ c \in CallsFor(t, m0)
    BY Zenon DEF Moving, OpenCalls, CallsFor, Candidate, ModelOf
  <2> HIDE DEF m0, c
  <2>5. Counts(Moved(inflight[t], t, a, b), OpenCalls(t)', t \notin wiped)
    <3>1. Follows(OpenCalls(t), OpenCalls(t)', c, t, a, b)
      BY Zenon, <2>1, <2>2, <2>3, <2>4 DEF Follows
    <3> QED BY Zenon, <2>0, <2>f, <3>1, MovedCount
  <2>6. Counts(inflight[t], OpenCalls(t), t \notin wiped)'
    BY Zenon, <2>5, <1>2 DEF Counts
  <2>7. ASSUME NEW m \in Models PROVE Counts(dim[<<t, m>>], CallsFor(t, m), t \notin wiped)'
    <3>1. CASE m = m0
      <4>1. Counts(Moved(dim[<<t, m>>], t, a, b), CallsFor(t, m)', t \notin wiped)
        <5>1. Follows(CallsFor(t, m), CallsFor(t, m)', c, t, a, b)
          BY Zenon, <3>1, <2>1, <2>2, <2>3, <2>4 DEF Follows
        <5>2. Counts(dim[<<t, m>>], CallsFor(t, m), t \notin wiped) /\ IsFiniteSet(CallsFor(t, m))
          BY Zenon, <2>0, <2>f, <2>7
        <5> QED BY Zenon, <5>1, <5>2, MovedCount
      <4>2. dim'[<<t, m>>] = Moved(dim[<<t, m>>], t, a, b)
        BY Zenon, <3>1, <1>2, <2>7 DEF m0
      <4> QED BY Zenon, <4>1, <4>2 DEF Counts
    <3>2. CASE m # m0
      <4>1. dim'[<<t, m>>] = dim[<<t, m>>]
        BY Zenon, <3>2, <1>2, <2>7 DEF m0
      <4>2. CallsFor(t, m)' = CallsFor(t, m)
        BY Zenon, <3>2, <2>1, <2>2, <2>3
      <4> QED BY Zenon, <4>1, <4>2, <2>0, <2>7 DEF Counts
    <3> QED BY Zenon, <3>1, <3>2
  <2> QED BY Zenon, <2>6, <2>7
<1>3. CountsOpenCalls'
  BY Zenon, <1>2 DEF CountsOpenCalls
<1> QED BY ZenonT(30), <1>1, <1>3 DEF CountInv

LEMMA PrefillAnswersCounts ==
  ASSUME IsFiniteSet(Requests), CountInv, NEW q \in Requests, PrefillAnswers(q) PROVE CountInv'
<1>1. ReqInv(req[q]) /\ req[q].pc = "prefill" /\ wiped' = wiped
  BY Zenon DEF CountInv, ReqsInv, PrefillAnswers, fleet
<1>2. req[q].legs = NoLegs /\ \A n \in DOMAIN NoLegs : req[q].legs[n] = "none"
  BY <1>1 DEF ReqInv, Single, NoLegs
<1> DEFINE p == req[q].prefill[1]
           rest == Tail(req[q].prefill)
           m == Candidate(q)
           with == [req[q] EXCEPT !.pc = "call", !.kv = p, !.prefill = <<>>]
           without == [req[q] EXCEPT !.pc = "call", !.prefill = <<>>]
           next == [req[q] EXCEPT !.prefill = rest]
           inf == [inflight EXCEPT ![p] = IF @ > 0 THEN @ - 1 ELSE 0]
           dims == [dim EXCEPT ![<<p, m>>] = IF @ > 0 THEN @ - 1 ELSE 0]
<1>3. \/ req' = [req EXCEPT ![q] = with] /\ DecInflight(p, m)
      \/ req' = [req EXCEPT ![q] = without] /\ DecInflight(p, m)
      \/ /\ req' = [req EXCEPT ![q] = next]
         /\ inflight' = [inf EXCEPT ![rest[1]] = inf[rest[1]] + 1]
         /\ dim' = [dims EXCEPT ![<<rest[1], m>>] = dims[<<rest[1], m>>] + 1]
  BY Zenon DEF PrefillAnswers
<1>4. ASSUME NEW s, s \in {with, without}, req' = [req EXCEPT ![q] = s], DecInflight(p, m)
      PROVE  CountInv'
  <2>1. /\ ReqInv(s) /\ s.legs = req[q].legs /\ s.node = req[q].node /\ s.pc = "call"
        /\ ModelOf(s) = ModelOf(req[q])
    <3>1. /\ ReqInv(with) /\ with.legs = req[q].legs /\ with.node = req[q].node /\ with.pc = "call"
          /\ ModelOf(with) = ModelOf(req[q])
      BY Zenon, <1>1, <1>2 DEF Fields, ReqInv, ModelOf
    <3>2. /\ ReqInv(without) /\ without.legs = req[q].legs /\ without.node = req[q].node
          /\ without.pc = "call" /\ ModelOf(without) = ModelOf(req[q])
      BY Zenon, <1>1, <1>2 DEF Fields, ReqInv, ModelOf
    <3> QED BY Zenon, <1>4, <3>1, <3>2
  <2> HIDE DEF p
  <2>2. ASSUME NEW t \in Targets, NEW k \in Kinds
        PROVE  Opens(s, k, t) <=> (~(k = "prefill" /\ t = p) /\ Opens(req[q], k, t))
    BY Zenon, <1>1, <1>2, <2>1 DEF Opens, p
  <2>3. Closing(req[q], s, p, "prefill")
    <3>1. Opens(req[q], "prefill", p)
      BY <1>1 DEF Opens, p
    <3> QED BY ZenonT(30), <3>1, <2>1, <2>2 DEF Closing
  <2>4. DecInflight(p, ModelOf(req[q])) /\ "prefill" \in Kinds
    BY <1>4 DEF Candidate, ModelOf, Kinds
  <2> QED BY Zenon, <1>1, <1>4, <2>1, <2>3, <2>4, StepDown
<1>5. ASSUME req' = [req EXCEPT ![q] = next],
             inflight' = [inf EXCEPT ![rest[1]] = inf[rest[1]] + 1],
             dim' = [dims EXCEPT ![<<rest[1], m>>] = dims[<<rest[1], m>>] + 1]
      PROVE  CountInv'
  <2> DEFINE b == rest[1]
  <2>1. /\ ReqInv(next) /\ next.legs = req[q].legs /\ next.node = req[q].node /\ next.pc = "prefill"
        /\ next.prefill[1] = b /\ ModelOf(next) = ModelOf(req[q])
    <3> HIDE DEF rest
    <3> QED BY ZenonT(30), <1>1, <1>2 DEF Fields, ReqInv, ModelOf
  <2> HIDE DEF next, rest
  <2>2. ModelOf(req[q]) = m
    BY ZenonT(30) DEF ModelOf, Candidate
  <2>3. Moving(req[q], next, p, b, "prefill")
    <3> HIDE DEF p, b
    <3>1. \A t : Opens(req[q], "prefill", t) <=> t = p
      BY <1>1 DEF Opens, p
    <3>2. ASSUME NEW t \in Targets, NEW k \in Kinds
          PROVE  Opens(next, k, t) <=> IF k = "prefill" THEN t = b ELSE Opens(req[q], k, t)
      BY ZenonT(30), <1>1, <1>2, <2>1 DEF Opens
    <3> QED BY ZenonT(30), <2>1, <3>1, <3>2 DEF Moving
  <2> HIDE DEF p, b, m
  <2>4. inflight' = [t \in Targets |-> Moved(inflight[t], t, p, b)]
    <3>1. inf = [t \in Targets |-> IF t = p THEN Dec(inflight[t]) ELSE inflight[t]]
      BY ZenonT(30) DEF CountInv, Dec
    <3>2. inflight' = [inf EXCEPT ![b] = inf[b] + 1]
      BY <1>5 DEF b
    <3> HIDE DEF inf
    <3>3. inflight' = [t \in Targets |-> IF t = b THEN inf[t] + 1 ELSE inf[t]]
      BY ZenonT(30), <3>1, <3>2
    <3> QED BY ZenonT(30), <3>1, <3>3 DEF Moved
  <2>5. dim' = [tm \in Targets \X Models |->
                  IF tm[2] = m THEN Moved(dim[tm], tm[1], p, b) ELSE dim[tm]]
    <3>1. dims = [tm \in Targets \X Models |-> IF tm = <<p, m>> THEN Dec(dim[tm]) ELSE dim[tm]]
      BY Zenon DEF CountInv, Dec
    <3>2. dim' = [dims EXCEPT ![<<b, m>>] = dims[<<b, m>>] + 1]
      BY <1>5 DEF b
    <3> HIDE DEF dims
    <3>3. dim' = [tm \in Targets \X Models |-> IF tm = <<b, m>> THEN dims[tm] + 1 ELSE dims[tm]]
      BY ZenonT(30), <3>1, <3>2
    <3>4. ASSUME NEW tm \in Targets \X Models
          PROVE  dim'[tm] = IF tm[2] = m THEN Moved(dim[tm], tm[1], p, b) ELSE dim[tm]
      BY SMTT(20), <3>1, <3>3, <3>4 DEF Moved
    <3> QED BY <3>3, <3>4
  <2>6. "prefill" \in Kinds /\ ReqInv(next) /\ req' = [req EXCEPT ![q] = next] /\ wiped' = wiped
    BY ZenonT(30), <1>1, <1>5, <2>1 DEF Kinds
  <2>7. dim' = [tm \in Targets \X Models |->
                  IF tm[2] = ModelOf(req[q]) THEN Moved(dim[tm], tm[1], p, b) ELSE dim[tm]]
    BY Zenon, <2>2, <2>5
  <2> QED BY ONLY Zenon, IsFiniteSet(Requests), CountInv, q \in Requests, <2>3, <2>4, <2>6, <2>7, StepMove
<1> QED BY Zenon, <1>3, <1>4, <1>5

\* A step that leaves the requests and the counts alone: a client that leaves, an
\* expiry, a status, a registration, a forgotten connection, a reshaped gang.
LEMMA QuietCounts == ASSUME CountInv, UNCHANGED <<req, inflight, dim, wiped>> PROVE CountInv'
<1>1. ReqsInv'
  BY DEF CountInv, ReqsInv
<1>2. ASSUME NEW t PROVE OpenCalls(t)' = OpenCalls(t)
  BY ZenonT(30) DEF OpenCalls
<1>3. ASSUME NEW t, NEW m PROVE CallsFor(t, m)' = CallsFor(t, m)
  BY ZenonT(30), <1>2 DEF CallsFor, Candidate
<1>4. CountsOpenCalls'
  BY ZenonT(30), <1>2, <1>3 DEF CountInv, CountsOpenCalls, Counts
<1> QED BY <1>1, <1>4 DEF CountInv

\* A removed node's counts are reset: right if it has no call open, and otherwise
\* the node is remembered as wiped.
LEMMA InvalidateNodeCounts ==
  ASSUME IsFiniteSet(Requests), CountInv, NEW n \in Nodes, InvalidateNode(n) PROVE CountInv'
<1>1. /\ req' = req /\ wiped' = IF OpenCalls(n) # {} THEN wiped \cup {n} ELSE wiped
      /\ inflight' = [inflight EXCEPT ![n] = 0]
      /\ dim' = [tm \in DOMAIN dim |-> IF tm[1] = n THEN 0 ELSE dim[tm]]
  BY DEF InvalidateNode
<1>2. ReqsInv'
  BY ZenonT(30), <1>1 DEF CountInv, ReqsInv
<1>3. /\ inflight' = [t \in Targets |-> IF t = n THEN 0 ELSE inflight[t]]
      /\ dim' = [tm \in Targets \X Models |-> IF tm[1] = n THEN 0 ELSE dim[tm]]
  BY ZenonT(30), <1>1 DEF CountInv
<1>4. ASSUME NEW t PROVE OpenCalls(t)' = OpenCalls(t)
  BY ZenonT(30), <1>1 DEF OpenCalls
<1>5. ASSUME NEW t, NEW m PROVE CallsFor(t, m)' = CallsFor(t, m)
  BY <1>1, <1>4 DEF CallsFor, Candidate
<1>6. ASSUME NEW t \in Targets
      PROVE  /\ Counts(inflight[t], OpenCalls(t), t \notin wiped)'
             /\ \A m \in Models : Counts(dim[<<t, m>>], CallsFor(t, m), t \notin wiped)'
  <2>0. /\ Counts(inflight[t], OpenCalls(t), t \notin wiped)
        /\ \A m \in Models : Counts(dim[<<t, m>>], CallsFor(t, m), t \notin wiped)
    BY Zenon, <1>6 DEF CountInv, CountsOpenCalls
  <2>1. CASE t = n
    <3>1. inflight'[t] = 0 /\ \A m \in Models : dim'[<<t, m>>] = 0
      BY ZenonT(30), <2>1, <1>3, <1>6
    <3>2. ASSUME NEW S, IsFiniteSet(S), S = {} \/ n \in wiped' PROVE Counts(0, S, t \notin wiped')
      <4>1. Cardinality(S) \in Nat
        BY <3>2, FS_CardinalityType
      <4>2. CASE S = {}
        <5>1. Cardinality(S) = 0
          BY <4>2, FS_EmptySet
        <5> QED BY <5>1 DEF Counts
      <4>3. CASE n \in wiped'
        BY SMTT(20), <4>1, <4>3, <2>1 DEF Counts
      <4> QED BY ZenonT(30), <3>2, <4>2, <4>3
    <3>3. OpenCalls(t) = {} \/ n \in wiped'
      BY ZenonT(30), <2>1, <1>1
    <3>4. IsFiniteSet(OpenCalls(t)) /\ \A m : IsFiniteSet(CallsFor(t, m))
      BY ZenonT(30), CallsFinite
    <3>5. Counts(inflight[t], OpenCalls(t), t \notin wiped)'
      <4>1. Counts(0, OpenCalls(t), t \notin wiped')
        BY <3>2, <3>3, <3>4
      <4> QED BY ZenonT(30), <4>1, <3>1, <1>4 DEF Counts
    <3>6. ASSUME NEW m \in Models PROVE Counts(dim[<<t, m>>], CallsFor(t, m), t \notin wiped)'
      <4>1. CallsFor(t, m) = {} \/ n \in wiped'
        BY <3>3 DEF CallsFor
      <4>2. Counts(0, CallsFor(t, m), t \notin wiped')
        BY <3>2, <3>4, <4>1
      <4> QED BY Zenon, <4>2, <3>1, <3>6, <1>5 DEF Counts
    <3> QED BY ZenonT(30), <3>5, <3>6
  <2>2. CASE t # n
    <3>1. inflight'[t] = inflight[t] /\ \A m \in Models : dim'[<<t, m>>] = dim[<<t, m>>]
      BY <2>2, <1>3, <1>6
    <3>2. t \in wiped' <=> t \in wiped
      BY Zenon, <2>2, <1>1
    <3> QED BY Zenon, <2>0, <3>1, <3>2, <1>4, <1>5 DEF Counts
  <2> QED BY Zenon, <2>1, <2>2
<1>7. CountsOpenCalls'
  BY Zenon, <1>6 DEF CountsOpenCalls
<1> QED BY <1>2, <1>3, <1>7 DEF CountInv

LEMMA FleetCounts ==
  ASSUME IsFiniteSet(Requests), CountInv, NEW n \in Nodes, Fleet(n) PROVE CountInv'
<1>1. CASE CooldownExpires(n)
  BY <1>1, QuietCounts DEF CooldownExpires, counts, fleet
<1>2. CASE StatusChanges(n)
  BY ZenonT(30), <1>2, QuietCounts DEF StatusChanges, counts
<1>3. CASE Registers(n)
  BY ZenonT(30), <1>3, QuietCounts DEF Registers, counts
<1>4. CASE ForgetRemote(n)
  BY ZenonT(30), <1>4, QuietCounts DEF ForgetRemote, counts
<1>5. CASE InvalidateNode(n)
  BY ZenonT(30), <1>5, InvalidateNodeCounts
<1>6. CASE PinExpires(n)
  BY ZenonT(30), <1>6, QuietCounts DEF PinExpires, counts, fleet
<1> QED BY ZenonT(30), <1>1, <1>2, <1>3, <1>4, <1>5, <1>6 DEF Fleet

LEMMA InitCounts == ASSUME IsFiniteSet(Requests), Init PROVE CountInv
<1>1. req = [q \in Requests |-> Fresh]
  BY DEF Init
<1>2. Unengaged(Fresh)
  BY Zenon DEF Fresh, Unengaged, ReqInv, Fields, NoLegs
<1>3. ReqsInv
  BY <1>1, <1>2 DEF ReqsInv, Unengaged
<1>4. Closed(Fresh)
  BY ZenonT(30), <1>2, UnengagedClosed
<1>5. ASSUME NEW t \in Targets PROVE OpenCalls(t) = {} /\ \A m : CallsFor(t, m) = {}
  BY ZenonT(30), <1>1, <1>4, <1>5 DEF OpenCalls, CallsFor, Closed
<1>6. \A t \in Targets : inflight[t] = 0 /\ \A m \in Models : dim[<<t, m>>] = 0
  BY DEF Init
<1>7. Cardinality({}) = 0
  BY ZenonT(30), FS_EmptySet
<1>8. CountsOpenCalls
  BY SMTT(20), <1>5, <1>6, <1>7 DEF CountsOpenCalls, Counts
<1> QED BY ZenonT(30), <1>3, <1>8 DEF CountInv, Init

LEMMA NextCounts == ASSUME IsFiniteSet(Requests), CountInv, [Next]_vars PROVE CountInv'
<1>1. CASE UNCHANGED vars
  BY ZenonT(30), <1>1, QuietCounts DEF vars
<1>2. ASSUME NEW q \in Requests, Walk(q) PROVE CountInv'
  BY ZenonT(30), <1>2, BeginCounts, PickCounts, DispatchCounts, HandoffCounts, PrefillAnswersCounts, SucceedsCounts,
     HandoffFailsCounts, FailsCounts, RetryCounts, StreamEndsCounts, HedgeFailsCounts DEF Walk
<1>3. ASSUME NEW q \in Requests, ClientLeaves(q) PROVE CountInv'
  BY ZenonT(30), <1>3, QuietCounts DEF ClientLeaves, counts, fleet
<1>4. ASSUME NEW q \in Requests, NEW n \in DOMAIN NoLegs, Leg(q, n) PROVE CountInv'
  BY <1>4, LegCounts
<1>5. ASSUME NEW n \in Nodes, Fleet(n) PROVE CountInv'
  BY ZenonT(30), <1>5, FleetCounts
<1>6. ASSUME NEW m \in Models, InvalidateModel(m) PROVE CountInv'
  BY ZenonT(30), <1>6, QuietCounts DEF InvalidateModel, counts
<1>7. CASE Idle
  BY <1>7, QuietCounts DEF Idle
<1> QED BY ZenonT(30), <1>1, <1>2, <1>3, <1>4, <1>5, <1>6, <1>7 DEF Next, Step

\* The in-flight counts of every target, in all and by model, are the numbers of
\* the calls open on it, for any fleet, any configuration and any finite number
\* of requests; they can only be too low, and only on a worker that was removed
\* while it had calls open (incInflight, decInflight, InvalidateNode).
THEOREM CountsAlwaysOpenCalls == ASSUME IsFiniteSet(Requests) PROVE Spec => []CountsOpenCalls
<1>1. Init => CountInv
  BY InitCounts
<1>2. CountInv /\ [Next]_vars => CountInv'
  BY NextCounts
<1>3. CountInv => CountsOpenCalls
  BY DEF CountInv
<1> QED BY <1>1, <1>2, <1>3, PTL DEF Spec
=============================================================================
