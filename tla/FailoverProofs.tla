--------------------------- MODULE FailoverProofs ---------------------------
(***************************************************************************)
(* What a caller of the router can count on, for any number of workers,    *)
(* gangs, models and requests: the router implements the safety part of    *)
(* Failover (RouterKeepsPromise), and passes over no worker that could     *)
(* have taken the request (NobodyPassedOver).                              *)
(*                                                                         *)
(* The inductive invariant says what a request's chain, target and skipped *)
(* workers can be (WalkInv), and of the workers that took requests since   *)
(* it began that it has skipped none (SteadyInv).  Each action is shown to *)
(* keep it and to be a step of Failover or a stutter (Goes).  The router   *)
(* is any that is configured as the store and the catalogue allow          *)
(* (Configured); Alternatives bounds the length of its chains (Enough).    *)
(***************************************************************************)
EXTENDS Router, FiniteSetTheorems, TLAPS

-----------------------------------------------------------------------------
(* Chains *)

\* A strict total order of 1 .. n, and a strict order of keys that several places
\* may share.
TotalOrder(R, n) ==
  /\ \A i \in 1 .. n : <<i, i>> \notin R
  /\ \A i, j \in 1 .. n : i # j => <<i, j>> \in R \/ <<j, i>> \in R
  /\ \A i, j, k \in 1 .. n : <<i, j>> \in R /\ <<j, k>> \in R => <<i, k>> \in R

KeyOrder(less, n) ==
  /\ \A i \in 1 .. n : <<i, i>> \notin less
  /\ \A i, j \in 1 .. n : <<i, j>> \in less => <<j, i>> \notin less
  /\ \A i, j, k \in 1 .. n : <<i, j>> \in less => <<i, k>> \in less \/ <<k, j>> \in less

\* In a strict total order of n things every rank is taken.
LEMMA RanksExist ==
  ASSUME NEW n \in Nat, NEW R, TotalOrder(R, n)
  PROVE  \A r \in 1 .. n : \E j \in 1 .. n : Cardinality({k \in 1 .. n : <<k, j>> \in R}) = r - 1
<1> DEFINE before(j) == {k \in 1 .. n : <<k, j>> \in R}
           f == [j \in 1 .. n |-> Cardinality(before(j))]
<1>1. IsFiniteSet(1 .. n) /\ Cardinality(1 .. n) = n
  BY FS_Interval
<1>2. IsFiniteSet(0 .. n - 1) /\ Cardinality(0 .. n - 1) = n
  BY FS_Interval
<1>3. \A j : IsFiniteSet(before(j)) /\ Cardinality(before(j)) \in Nat
  <2> TAKE j
  <2>1. before(j) \subseteq 1 .. n
    OBVIOUS
  <2> HIDE DEF before
  <2> QED BY <1>1, <2>1, FS_Subset, FS_CardinalityType
<1>4. ASSUME NEW j \in 1 .. n PROVE Cardinality(before(j)) \in 0 .. n - 1
  <2>1. before(j) \subseteq (1 .. n) \ {j}
    BY DEF TotalOrder
  <2> HIDE DEF before
  <2>2. IsFiniteSet((1 .. n) \ {j}) /\ Cardinality((1 .. n) \ {j}) = n - 1
    BY Zenon, <1>1, FS_RemoveElement
  <2>3. Cardinality(before(j)) <= n - 1
    BY <2>1, <2>2, FS_Subset
  <2> QED BY <1>3, <2>3
<1>5. ASSUME NEW i \in 1 .. n, NEW j \in 1 .. n, <<i, j>> \in R
      PROVE  Cardinality(before(i)) < Cardinality(before(j))
  <2>1. before(i) \subseteq before(j) \ {i} /\ i \in before(j)
    BY <1>5 DEF TotalOrder
  <2> HIDE DEF before
  <2>2. IsFiniteSet(before(j) \ {i}) /\ Cardinality(before(j) \ {i}) = Cardinality(before(j)) - 1
    BY <1>3, <2>1, FS_RemoveElement
  <2>3. Cardinality(before(i)) <= Cardinality(before(j) \ {i})
    BY <2>1, <2>2, FS_Subset
  <2> QED BY <1>3, <2>2, <2>3
<1>6. f \in Injection(1 .. n, 0 .. n - 1)
  <2>1. f \in [1 .. n -> 0 .. n - 1]
    BY <1>4
  <2>2. ASSUME NEW i \in 1 .. n, NEW j \in 1 .. n, f[i] = f[j] PROVE i = j
    <3>1. Cardinality(before(i)) = Cardinality(before(j))
      BY <2>2
    <3>2. <<i, j>> \notin R /\ <<j, i>> \notin R
      <4> HIDE DEF before
      <4> QED BY <1>3, <1>5, <3>1
    <3> QED BY <3>2 DEF TotalOrder
  <2> HIDE DEF f
  <2> QED BY <2>1, <2>2 DEF Injection, IsInjective
<1>7. f \in Surjection(1 .. n, 0 .. n - 1)
  <2> HIDE DEF f
  <2> QED BY <1>1, <1>2, <1>6, FS_Injection
<1>8. \A y \in 0 .. n - 1 : \E j \in 1 .. n : f[j] = y
  <2> HIDE DEF f
  <2> QED BY <1>7 DEF Surjection
<1>9. ASSUME NEW r \in 1 .. n PROVE \E j \in 1 .. n : Cardinality(before(j)) = r - 1
  <2>1. r - 1 \in 0 .. n - 1
    OBVIOUS
  <2>2. PICK j \in 1 .. n : f[j] = r - 1
    BY <1>8, <2>1
  <2> QED BY Zenon, <2>2
<1> QED BY <1>9

\* What sort.SliceStable makes of n things: for every place there is the one that
\* comes there, the earlier place deciding between equal keys.
LEMMA SortedPlaces ==
  ASSUME NEW n \in Nat, NEW less, KeyOrder(less, n)
  PROVE  \A i \in 1 .. n : \E j \in 1 .. n :
           Cardinality({k \in 1 .. n : <<k, j>> \in less \/ (<<j, k>> \notin less /\ k < j)}) = i - 1
<1> DEFINE R == {p \in (1 .. n) \X (1 .. n) : p \in less \/ (<<p[2], p[1]>> \notin less /\ p[1] < p[2])}
<1>1. ASSUME NEW i \in 1 .. n, NEW j \in 1 .. n
      PROVE  <<i, j>> \in R <=> <<i, j>> \in less \/ (<<j, i>> \notin less /\ i < j)
  OBVIOUS
<1> HIDE DEF R
<1>2. TotalOrder(R, n)
  <2>1. ASSUME NEW i \in 1 .. n PROVE <<i, i>> \notin R
    BY <1>1 DEF KeyOrder
  <2>2. ASSUME NEW i \in 1 .. n, NEW j \in 1 .. n, i # j PROVE <<i, j>> \in R \/ <<j, i>> \in R
    <3>1. i < j \/ j < i
      BY <2>2
    <3> QED BY <1>1, <2>2, <3>1
  <2>3. ASSUME NEW i \in 1 .. n, NEW j \in 1 .. n, NEW k \in 1 .. n, <<i, j>> \in R, <<j, k>> \in R
        PROVE  <<i, k>> \in R
    <3>1. <<i, j>> \in less \/ (<<j, i>> \notin less /\ i < j)
      BY <1>1, <2>3
    <3>2. <<j, k>> \in less \/ (<<k, j>> \notin less /\ j < k)
      BY <1>1, <2>3
    <3>3. /\ <<i, j>> \in less => <<i, k>> \in less \/ <<k, j>> \in less
          /\ <<j, k>> \in less => <<j, i>> \in less \/ <<i, k>> \in less
          /\ <<k, i>> \in less => <<k, j>> \in less \/ <<j, i>> \in less
          /\ <<i, j>> \in less => <<j, i>> \notin less
          /\ <<j, k>> \in less => <<k, j>> \notin less
      BY DEF KeyOrder
    <3>4. <<i, k>> \in less \/ (<<k, i>> \notin less /\ i < j /\ j < k)
      BY <3>1, <3>2, <3>3
    <3>5. i < j /\ j < k => i < k
      OBVIOUS
    <3> QED BY <1>1, <3>4, <3>5
  <2> QED BY <2>1, <2>2, <2>3 DEF TotalOrder
<1>3. \A r \in 1 .. n : \E j \in 1 .. n : Cardinality({k \in 1 .. n : <<k, j>> \in R}) = r - 1
  BY <1>2, RanksExist
<1>4. ASSUME NEW j \in 1 .. n
      PROVE  {k \in 1 .. n : <<k, j>> \in R} =
             {k \in 1 .. n : <<k, j>> \in less \/ (<<j, k>> \notin less /\ k < j)}
  BY <1>1
<1>5. ASSUME NEW i \in 1 .. n
      PROVE  \E j \in 1 .. n :
               Cardinality({k \in 1 .. n : <<k, j>> \in less \/ (<<j, k>> \notin less /\ k < j)}) = i - 1
  <2>1. PICK j \in 1 .. n : Cardinality({k \in 1 .. n : <<k, j>> \in R}) = i - 1
    BY <1>3
  <2>2. Cardinality({k \in 1 .. n : <<k, j>> \in less \/ (<<j, k>> \notin less /\ k < j)}) = i - 1
    BY Zenon, <2>1, <1>4
  <2> QED BY Zenon, <2>2
<1> QED BY <1>5

LEMMA SortChainType ==
  ASSUME NEW chain \in Seq(Models), NEW mode, NEW p95, \A m \in Models : p95[m] \in Nat
  PROVE  SortChain(chain, mode, p95, p95) \in Seq(Models) /\ Len(SortChain(chain, mode, p95, p95)) = Len(chain)
<1> DEFINE D == 1 .. Len(chain)
           swift == {p \in D \X D : /\ p95[chain[p[1]]] > 0
                                    /\ (p95[chain[p[2]]] = 0 \/ p95[chain[p[1]]] < p95[chain[p[2]]])}
           busy == {p \in D \X D : p95[chain[p[1]]] > p95[chain[p[2]]]}
<1>1. \A i \in D : p95[chain[i]] \in Nat
  OBVIOUS
<1>2. CASE mode = "latency"
  <2>1. \A i, j \in D : <<i, j>> \in swift <=>
          p95[chain[i]] > 0 /\ (p95[chain[j]] = 0 \/ p95[chain[i]] < p95[chain[j]])
    OBVIOUS
  <2> HIDE DEF swift
  <2>2. \A i \in D : <<i, i>> \notin swift
    BY ONLY <1>1, <2>1
  <2>3. \A i, j, k \in D : /\ <<i, j>> \in swift => <<j, i>> \notin swift
                           /\ <<i, j>> \in swift => <<i, k>> \in swift \/ <<k, j>> \in swift
    <3> SUFFICES ASSUME NEW i \in D, NEW j \in D, NEW k \in D
                 PROVE  /\ <<i, j>> \in swift => <<j, i>> \notin swift
                        /\ <<i, j>> \in swift => <<i, k>> \in swift \/ <<k, j>> \in swift
      BY Zenon
    <3>1. p95[chain[i]] \in Nat /\ p95[chain[j]] \in Nat /\ p95[chain[k]] \in Nat
      BY ONLY <1>1, i \in D, j \in D, k \in D
    <3>2. /\ <<i, j>> \in swift <=> p95[chain[i]] > 0 /\ (p95[chain[j]] = 0 \/ p95[chain[i]] < p95[chain[j]])
          /\ <<j, i>> \in swift <=> p95[chain[j]] > 0 /\ (p95[chain[i]] = 0 \/ p95[chain[j]] < p95[chain[i]])
          /\ <<i, k>> \in swift <=> p95[chain[i]] > 0 /\ (p95[chain[k]] = 0 \/ p95[chain[i]] < p95[chain[k]])
          /\ <<k, j>> \in swift <=> p95[chain[k]] > 0 /\ (p95[chain[j]] = 0 \/ p95[chain[k]] < p95[chain[j]])
      BY ONLY <2>1, i \in D, j \in D, k \in D
    <3> QED BY ONLY SMTT(20), <3>1, <3>2
  <2>4. \A i \in D : \E j \in D :
           Cardinality({k \in D : <<k, j>> \in swift \/ (<<j, k>> \notin swift /\ k < j)}) = i - 1
    <3>1. KeyOrder(swift, Len(chain))
      BY Zenon, <2>2, <2>3 DEF KeyOrder
    <3>2. Len(chain) \in Nat
      OBVIOUS
    <3> QED BY ONLY ZenonT(30), <3>1, <3>2, SortedPlaces
  <2> DEFINE ahead(j) == {k \in D : \/ /\ p95[chain[k]] > 0
                                       /\ (p95[chain[j]] = 0 \/ p95[chain[k]] < p95[chain[j]])
                                    \/ /\ ~(/\ p95[chain[j]] > 0
                                            /\ (p95[chain[k]] = 0 \/ p95[chain[j]] < p95[chain[k]]))
                                       /\ k < j}
  <2>5. \A j \in D : {k \in D : <<k, j>> \in swift \/ (<<j, k>> \notin swift /\ k < j)} = ahead(j)
    BY <2>1
  <2>6. \A i \in D : \E j \in D : Cardinality(ahead(j)) = i - 1
    <3> HIDE DEF ahead
    <3> QED BY Zenon, <2>4, <2>5
  <2>7a. DOMAIN chain = D
    OBVIOUS
  <2>7. SortChain(chain, mode, p95, p95) = [i \in D |-> chain[CHOOSE j \in D : Cardinality(ahead(j)) = i - 1]]
    BY <1>2, <2>7a DEF SortChain, StableSort
  <2> HIDE DEF ahead
  <2>8. \A i \in D : (CHOOSE j \in D : Cardinality(ahead(j)) = i - 1) \in D
    BY Zenon, <2>6
  <2> DEFINE at(i) == CHOOSE j \in D : Cardinality(ahead(j)) = i - 1
  <2>9. \A i \in D : chain[at(i)] \in Models
    <3>1. \A j \in D : chain[j] \in Models
      OBVIOUS
    <3> HIDE DEF D, at
    <3> QED BY Zenon, <2>8, <3>1 DEF at
  <2> HIDE DEF at
  <2>10. [i \in D |-> chain[at(i)]] \in Seq(Models) /\ Len([i \in D |-> chain[at(i)]]) = Len(chain)
    BY <2>9
  <2> QED BY <2>7, <2>10 DEF at
<1>3. CASE mode = "throughput"
  <2>1. \A i, j \in D : <<i, j>> \in busy <=> p95[chain[i]] > p95[chain[j]]
    OBVIOUS
  <2> HIDE DEF busy
  <2>2. \A i \in D : <<i, i>> \notin busy
    BY ONLY <1>1, <2>1
  <2>3. \A i, j, k \in D : /\ <<i, j>> \in busy => <<j, i>> \notin busy
                           /\ <<i, j>> \in busy => <<i, k>> \in busy \/ <<k, j>> \in busy
    <3> SUFFICES ASSUME NEW i \in D, NEW j \in D, NEW k \in D
                 PROVE  /\ <<i, j>> \in busy => <<j, i>> \notin busy
                        /\ <<i, j>> \in busy => <<i, k>> \in busy \/ <<k, j>> \in busy
      BY Zenon
    <3>1. p95[chain[i]] \in Nat /\ p95[chain[j]] \in Nat /\ p95[chain[k]] \in Nat
      BY ONLY <1>1, i \in D, j \in D, k \in D
    <3>2. /\ <<i, j>> \in busy <=> p95[chain[i]] > p95[chain[j]]
          /\ <<j, i>> \in busy <=> p95[chain[j]] > p95[chain[i]]
          /\ <<i, k>> \in busy <=> p95[chain[i]] > p95[chain[k]]
          /\ <<k, j>> \in busy <=> p95[chain[k]] > p95[chain[j]]
      BY ONLY <2>1, i \in D, j \in D, k \in D
    <3> QED BY ONLY <3>1, <3>2
  <2>4. \A i \in D : \E j \in D :
           Cardinality({k \in D : <<k, j>> \in busy \/ (<<j, k>> \notin busy /\ k < j)}) = i - 1
    <3>1. KeyOrder(busy, Len(chain))
      BY Zenon, <2>2, <2>3 DEF KeyOrder
    <3>2. Len(chain) \in Nat
      OBVIOUS
    <3> HIDE DEF busy
    <3> QED BY ONLY <3>1, <3>2, SortedPlaces
  <2> DEFINE ahead(j) == {k \in D : \/ p95[chain[k]] > p95[chain[j]]
                                    \/ ~(p95[chain[j]] > p95[chain[k]]) /\ k < j}
  <2>5. \A j \in D : {k \in D : <<k, j>> \in busy \/ (<<j, k>> \notin busy /\ k < j)} = ahead(j)
    BY <2>1
  <2>6. \A i \in D : \E j \in D : Cardinality(ahead(j)) = i - 1
    <3> HIDE DEF ahead
    <3> QED BY Zenon, <2>4, <2>5
  <2>7a. DOMAIN chain = D
    OBVIOUS
  <2>7. SortChain(chain, mode, p95, p95) = [i \in D |-> chain[CHOOSE j \in D : Cardinality(ahead(j)) = i - 1]]
    BY <1>3, <2>7a DEF SortChain, StableSort
  <2> HIDE DEF ahead
  <2>8. \A i \in D : (CHOOSE j \in D : Cardinality(ahead(j)) = i - 1) \in D
    BY Zenon, <2>6
  <2> DEFINE at(i) == CHOOSE j \in D : Cardinality(ahead(j)) = i - 1
  <2>9. \A i \in D : chain[at(i)] \in Models
    <3>1. \A j \in D : chain[j] \in Models
      OBVIOUS
    <3> HIDE DEF D, at
    <3> QED BY Zenon, <2>8, <3>1 DEF at
  <2> HIDE DEF at
  <2>10. [i \in D |-> chain[at(i)]] \in Seq(Models) /\ Len([i \in D |-> chain[at(i)]]) = Len(chain)
    BY <2>9
  <2> QED BY <2>7, <2>10 DEF at
<1>4. CASE mode \notin {"latency", "throughput"}
  BY Zenon, <1>4 DEF SortChain
<1> QED BY <1>2, <1>3, <1>4

LEMMA ReorderType ==
  ASSUME NEW chain \in Seq(Models), NEW p95, NEW threshold
  PROVE  /\ ReorderByLatency(chain, p95, threshold) \in Seq(Models)
         /\ Len(ReorderByLatency(chain, p95, threshold)) = Len(chain)
<1> DEFINE best == {i \in 2 .. Len(chain) :
                      /\ p95[chain[i]] > 0 /\ p95[chain[i]] < p95[chain[1]]
                      /\ \A j \in 2 .. Len(chain) :
                           p95[chain[j]] > 0 => \/ p95[chain[i]] < p95[chain[j]]
                                                \/ p95[chain[i]] = p95[chain[j]] /\ i <= j}
           b == CHOOSE i \in best : TRUE
<1>1. CASE ReorderByLatency(chain, p95, threshold) = chain
  BY <1>1
<1>2. CASE ReorderByLatency(chain, p95, threshold) # chain
  <2>1. best # {} /\ ReorderByLatency(chain, p95, threshold) =
                      <<chain[b]>> \o (SubSeq(chain, 1, b - 1) \o SubSeq(chain, b + 1, Len(chain)))
    BY Zenon, <1>2 DEF ReorderByLatency
  <2>2. best \subseteq 2 .. Len(chain)
    OBVIOUS
  <2> HIDE DEF best
  <2>3. b \in 2 .. Len(chain)
    BY Zenon, <2>1, <2>2
  <2> HIDE DEF b
  <2>4. SubSeq(chain, 1, b - 1) \in Seq(Models) /\ Len(SubSeq(chain, 1, b - 1)) = b - 1
    BY <2>3
  <2>5. SubSeq(chain, b + 1, Len(chain)) \in Seq(Models) /\ Len(SubSeq(chain, b + 1, Len(chain))) = Len(chain) - b
    BY <2>3
  <2> DEFINE others == SubSeq(chain, 1, b - 1) \o SubSeq(chain, b + 1, Len(chain))
  <2>6. others \in Seq(Models) /\ Len(others) = Len(chain) - 1
    BY <2>3, <2>4, <2>5
  <2>7. <<chain[b]>> \in Seq(Models) /\ Len(<<chain[b]>>) = 1
    BY <2>3
  <2> QED BY <2>1, <2>6, <2>7
<1> QED BY <1>1, <1>2

-----------------------------------------------------------------------------
(* Chains: what they are made of, and how long they are *)

CONSTANT Alternatives

\* No caller's list and no chain of the catalogue, the generic one and then a
\* failure's own, is longer than Alternatives.
Enough ==
  /\ Alternatives \in Nat
  /\ \A q \in Requests :
       /\ 1 + Len(Call[q].fallbacks) <= Alternatives
       /\ 1 + Len(Chains[Call[q].model].generic) + Len(Chains[Call[q].model].context) <= Alternatives
       /\ 1 + Len(Chains[Call[q].model].generic) + Len(Chains[Call[q].model].policy) <= Alternatives

LEMMA Within ==
  ASSUME NEW a \in Nat, NEW b \in Nat, NEW c \in Nat, NEW k \in Nat, 1 + b + c <= k, a <= 1 + b
  PROVE  a + c <= k /\ a <= k
OBVIOUS

LEMMA ApplyCapType ==
  ASSUME NEW chain \in Seq(Models), NEW limit \in Nat
  PROVE  /\ ApplyCap(chain, limit) \in Seq(Models) /\ Len(ApplyCap(chain, limit)) <= Len(chain)
         /\ Len(chain) >= 1 => Len(ApplyCap(chain, limit)) >= 1
<1>1. CASE limit > 0 /\ Len(chain) > limit + 1
  <2>1. ApplyCap(chain, limit) = SubSeq(chain, 1, limit + 1)
    BY <1>1 DEF ApplyCap
  <2>2. SubSeq(chain, 1, limit + 1) \in Seq(Models) /\ Len(SubSeq(chain, 1, limit + 1)) = limit + 1
    BY <1>1
  <2> QED BY <1>1, <2>1, <2>2
<1>2. CASE ~(limit > 0 /\ Len(chain) > limit + 1)
  <2>1. ApplyCap(chain, limit) = chain
    BY <1>2 DEF ApplyCap
  <2> QED BY <2>1
<1> QED BY <1>1, <1>2

LEMMA ChainForType ==
  ASSUME Configured, Enough, NEW q \in Requests,
         NEW chain, chain = ChainFor(Call[q].model, Call[q].fallbacks, Chains[Call[q].model], Cap)
  PROVE  /\ chain \in Seq(Models) /\ 1 <= Len(chain) /\ Len(chain) <= Alternatives
         /\ Call[q].fallbacks = <<>> => Len(chain) <= 1 + Len(Chains[Call[q].model].generic)
<1> DEFINE m == Call[q].model
           g == Chains[m].generic
<1>1. /\ m \in Models /\ Call[q].fallbacks \in Seq(Models) /\ g \in Seq(Models) /\ Cap \in Nat
      /\ Chains[m].context \in Seq(Models)
  BY Zenon DEF Configured
<1>2. /\ Alternatives \in Nat /\ 1 + Len(Call[q].fallbacks) <= Alternatives
      /\ 1 + Len(g) + Len(Chains[m].context) <= Alternatives
  BY Zenon DEF Enough
<1>3. chain = IF Call[q].fallbacks # <<>> THEN <<m>> \o Call[q].fallbacks ELSE ApplyCap(<<m>> \o g, Cap)
  BY DEF ChainFor
<1> HIDE DEF m, g
<1>4. <<m>> \o Call[q].fallbacks \in Seq(Models) /\ Len(<<m>> \o Call[q].fallbacks) = 1 + Len(Call[q].fallbacks)
  BY <1>1
<1> DEFINE long == <<m>> \o g
<1>5. long \in Seq(Models) /\ Len(long) = 1 + Len(g)
  BY <1>1
<1> HIDE DEF long
<1>6. Len(Chains[m].context) \in Nat /\ Len(Call[q].fallbacks) \in Nat /\ Len(g) \in Nat
  BY <1>1
<1>7. /\ ApplyCap(long, Cap) \in Seq(Models) /\ Len(ApplyCap(long, Cap)) <= 1 + Len(g)
      /\ Len(ApplyCap(long, Cap)) >= 1
  <2>1. Len(long) >= 1
    BY <1>5, <1>6
  <2> QED BY <1>1, <1>5, <2>1, ApplyCapType
<1>8. CASE Call[q].fallbacks # <<>>
  <2>1. chain \in Seq(Models) /\ Len(chain) = 1 + Len(Call[q].fallbacks)
    BY <1>3, <1>4, <1>8
  <2>2. 1 <= Len(chain) /\ Len(chain) <= Alternatives
    BY <1>2, <1>6, <2>1
  <2> QED BY ONLY <1>8, <2>1, <2>2
<1>9. CASE Call[q].fallbacks = <<>>
  <2>1. chain = ApplyCap(long, Cap)
    BY <1>3, <1>9 DEF long
  <2>2. Len(chain) <= 1 + Len(g) /\ Len(chain) >= 1 /\ chain \in Seq(Models)
    BY <2>1, <1>7
  <2>3. Len(chain) \in Nat
    BY <2>2
  <2>4. Len(chain) <= Alternatives
    BY ONLY Zenon, <1>2, <1>6, <2>2, <2>3, Within
  <2> QED BY ONLY <2>2, <2>4 DEF m, g
<1> QED BY <1>8, <1>9

LEMMA OrderedType ==
  ASSUME Configured, Enough, NEW q \in Requests, NEW p95 \in P95s
  PROVE  /\ Ordered(Call[q], p95) \in Seq(Models)
         /\ 1 <= Len(Ordered(Call[q], p95)) /\ Len(Ordered(Call[q], p95)) <= Alternatives
         /\ Call[q].fallbacks = <<>> =>
              Len(Ordered(Call[q], p95)) <= 1 + Len(Chains[Call[q].model].generic)
<1> DEFINE chain == ChainFor(Call[q].model, Call[q].fallbacks, Chains[Call[q].model], Cap)
<1>1. /\ chain \in Seq(Models) /\ 1 <= Len(chain) /\ Len(chain) <= Alternatives
      /\ Call[q].fallbacks = <<>> => Len(chain) <= 1 + Len(Chains[Call[q].model].generic)
  BY Zenon, ChainForType
<1>2. \A m \in Models : p95[m] \in Nat
  BY DEF Configured
<1>3. \/ Ordered(Call[q], p95) = SortChain(chain, Call[q].sort, p95, p95)
      \/ Ordered(Call[q], p95) = ReorderByLatency(chain, p95, Threshold)
      \/ Ordered(Call[q], p95) = chain
  BY Zenon DEF Ordered
<1> HIDE DEF chain
<1>4. /\ SortChain(chain, Call[q].sort, p95, p95) \in Seq(Models)
      /\ Len(SortChain(chain, Call[q].sort, p95, p95)) = Len(chain)
  BY <1>1, <1>2, SortChainType
<1>5. /\ ReorderByLatency(chain, p95, Threshold) \in Seq(Models)
      /\ Len(ReorderByLatency(chain, p95, Threshold)) = Len(chain)
  BY <1>1, ReorderType
<1>6. Ordered(Call[q], p95) \in Seq(Models) /\ Len(Ordered(Call[q], p95)) = Len(chain)
  BY Zenon, <1>1, <1>3, <1>4, <1>5
<1> QED BY <1>1, <1>6

LEMMA SwapType ==
  ASSUME Configured, Enough, NEW q \in Requests, NEW err,
         NEW chain \in Seq(Models), NEW i \in 1 .. Len(chain), Len(chain) <= Alternatives,
         Len(chain) <= 1 + Len(Chains[Call[q].model].generic)
  PROVE  /\ MaybeSwapTypedChain(chain, Chains[Call[q].model], err, i, Cap) \in Seq(Models)
         /\ Len(MaybeSwapTypedChain(chain, Chains[Call[q].model], err, i, Cap)) <= Alternatives
<1> DEFINE c == Chains[Call[q].model]
           typed == PickFor(c, ClassifyError(err))
           longer == SubSeq(chain, 1, i) \o typed
<1>1. /\ c.generic \in Seq(Models) /\ c.context \in Seq(Models) /\ c.policy \in Seq(Models) /\ Cap \in Nat
  BY DEF Configured
<1>2. /\ Alternatives \in Nat
      /\ 1 + Len(c.generic) + Len(c.context) <= Alternatives
      /\ 1 + Len(c.generic) + Len(c.policy) <= Alternatives
  BY Zenon DEF Enough
<1>3. typed \in {c.context, c.policy, c.generic}
  BY DEF PickFor
<1>4. CASE MaybeSwapTypedChain(chain, c, err, i, Cap) = chain
  BY <1>4
<1>5. CASE MaybeSwapTypedChain(chain, c, err, i, Cap) # chain
  <2>1. typed # c.generic /\ MaybeSwapTypedChain(chain, c, err, i, Cap) = ApplyCap(longer, Cap)
    BY Zenon, <1>5 DEF MaybeSwapTypedChain
  <2>2. typed \in Seq(Models) /\ (typed = c.context \/ typed = c.policy)
    BY Zenon, <1>1, <1>3, <2>1
  <2>3. Len(chain) <= 1 + Len(c.generic)
    OBVIOUS
  <2> HIDE DEF typed, c
  <2>4. SubSeq(chain, 1, i) \in Seq(Models) /\ Len(SubSeq(chain, 1, i)) = i
    OBVIOUS
  <2>5. longer \in Seq(Models) /\ Len(longer) = i + Len(typed)
    BY <2>2, <2>4
  <2>6. /\ Len(c.generic) \in Nat /\ Len(c.context) \in Nat /\ Len(c.policy) \in Nat
        /\ Len(typed) \in Nat /\ Len(chain) \in Nat
    BY <1>1, <2>2
  <2>7. Len(longer) <= Alternatives
    <3>1. i <= Len(chain) /\ i \in Nat
      OBVIOUS
    <3>2. Len(longer) = i + Len(typed) /\ Len(typed) \in {Len(c.context), Len(c.policy)}
      BY <2>2, <2>5
    <3> HIDE DEF longer
    <3>3. i <= 1 + Len(c.generic)
      BY ONLY <2>3, <2>6, <3>1
    <3>4. i + Len(c.context) <= Alternatives /\ i + Len(c.policy) <= Alternatives
      BY ONLY Zenon, <1>2, <2>6, <3>1, <3>3, Within
    <3> QED BY ONLY <3>2, <3>4
  <2> HIDE DEF longer
  <2>8. ApplyCap(longer, Cap) \in Seq(Models) /\ Len(ApplyCap(longer, Cap)) <= Len(longer)
    BY <1>1, <2>5, ApplyCapType
  <2>9. Len(longer) \in Nat /\ Len(ApplyCap(longer, Cap)) \in Nat
    BY <2>5, <2>8
  <2>10. Len(ApplyCap(longer, Cap)) <= Alternatives
    BY <1>2, <2>7, <2>8, <2>9
  <2>11. /\ MaybeSwapTypedChain(chain, c, err, i, Cap) \in Seq(Models)
         /\ Len(MaybeSwapTypedChain(chain, c, err, i, Cap)) <= Alternatives
    BY <2>1, <2>8, <2>10
  <2> QED BY ONLY <2>11 DEF c
<1> QED BY Zenon, <1>4, <1>5

-----------------------------------------------------------------------------
(* What pick can answer *)

LEMMA RankedAmong == ASSUME NEW q, NEW m, NEW workers PROVE Ranked(q, m, workers) \subseteq workers
<1> DEFINE credit == BlockCredits(workers, Call[q].held, Call[q].heldCPU, BlockWeight)
           rank   == [n \in workers |-> [Rank(n) EXCEPT !.score = @ - credit[n].credit]]
           before(a, b) == \/ Lighter(rank[a], rank[b])
                           \/ ~Lighter(rank[b], rank[a]) /\ PlaceIn(Placed[m], a) < PlaceIn(Placed[m], b)
           first  == {n \in workers : \A o \in workers : ~before(o, n)}
           warm   == BlockWeight > 0 /\ \E n \in workers : credit[n].warm
           usable == {n \in workers : ~rank[n].saturated /\ ~SlotsFull(n)}
           pinned == IF warm \/ ~Affinity THEN first
                     ELSE PreferNode(workers, PrefixPick(q, m, usable), first)
           mine   == StickyPick(q, m)
<1>1. Ranked(q, m, workers) =
        IF mine \in Targets /\ ~SlotsFull(mine) THEN PreferNode(workers, mine, pinned) ELSE pinned
  BY DEF Ranked
<1>2. first \subseteq workers
  OBVIOUS
<1> HIDE DEF first, warm, usable, mine
<1>3. pinned \subseteq workers
  BY <1>2 DEF PreferNode
<1> HIDE DEF pinned
<1> QED BY <1>1, <1>3 DEF PreferNode

LEMMA GroupAmong ==
  ASSUME NEW weights, NEW workers, NEW assigned, NEW g \in PickRevisionGroup(weights, workers, assigned)
  PROVE  g[2] \subseteq workers
<1> DEFINE live == {Revision[w] : w \in workers}
           of(rev) == {w \in workers : Revision[w] = rev}
<1>1. \A rev : of(rev) \subseteq workers
  OBVIOUS
<1>2. \/ g = <<assigned, workers>>
      \/ g = <<assigned, of(assigned)>>
      \/ \E rev \in ChooseRevision(weights, live) : g = IF rev = 0 THEN <<assigned, workers>> ELSE <<rev, of(rev)>>
  <2>1. CASE weights = <<>>
    BY <2>1 DEF PickRevisionGroup
  <2>2. CASE weights # <<>> /\ assigned # 0 /\ assigned \in live
    BY <2>2 DEF PickRevisionGroup
  <2>3. CASE ~(weights = <<>>) /\ ~(weights # <<>> /\ assigned # 0 /\ assigned \in live)
    BY Zenon, <2>3 DEF PickRevisionGroup
  <2> QED BY Zenon, <2>1, <2>2, <2>3
<1>3. g[2] = workers \/ \E rev : g[2] = of(rev)
  <2> HIDE DEF of, live
  <2>1. CASE g = <<assigned, workers>>
    BY <2>1
  <2>2. CASE g = <<assigned, of(assigned)>>
    BY <2>2
  <2>3. CASE \E rev \in ChooseRevision(weights, live) : g = IF rev = 0 THEN <<assigned, workers>> ELSE <<rev, of(rev)>>
    BY <2>3
  <2> QED BY <1>2, <2>1, <2>2, <2>3
<1> HIDE DEF of
<1> QED BY <1>1, <1>3

\* A pick is a gang that did not fail this request, a worker of the model that
\* did not either, the leader's own engine, or nobody.
LEMMA PicksAmong ==
  ASSUME Configured, NEW q, NEW m \in Models, NEW p \in Picks(q, m)
  PROVE  \/ p.node \in Gangs \ req[q].skipped
         \/ p.node \in Nodes \ req[q].skipped
         \/ p.node \in {Local, None}
<1> DEFINE here  == [node |-> Local, addr |-> 0, rev |-> req[q].rev[m]]
           none  == [here EXCEPT !.node = None]
           ws    == TakingRequests(Range(Placed[m]))
           left  == WithoutSkipped(q, ws)
           groups == PickRevisionGroup(Weights, DecodeOnly(left), req[q].rev[m])
           gang(g) == [node |-> g, addr |-> row[Coordinator[g]].addr, rev |-> req[q].rev[m]]
<1>1. here.node = Local /\ none.node = None /\ \A g : gang(g).node = g
  OBVIOUS
<1>2. left \subseteq Nodes \ req[q].skipped
  BY DEF Configured, TakingRequests, WithoutSkipped
<1>3. DecodeOnly(left) \subseteq left
  BY DEF DecodeOnly
<1>4. ShardCoordinator(q, m) \subseteq Gangs \ req[q].skipped
  BY DEF ShardCoordinator, TiedGangs, ReadyGangs, Routable, Configured
<1>5. \/ p \in {here, none}
      \/ \E g \in ShardCoordinator(q, m) : p = gang(g)
      \/ \E g \in groups : \E n \in Ranked(q, m, g[2]) : p.node = n
  <2>1. CASE q \in gone
    BY <2>1 DEF Picks
  <2>2. CASE q \notin gone /\ ReadyGangs(q, m) # {}
    BY <2>2 DEF Picks
  <2>3. CASE q \notin gone /\ ReadyGangs(q, m) = {}
    <3> HIDE DEF ws
    <3>1. CASE m \in req[q].gangless \/ SkipsAGang(q, m)
      BY <2>3, <3>1 DEF Picks
    <3>2. CASE ~(m \in req[q].gangless \/ SkipsAGang(q, m)) /\ (m \in LocalHas \/ ws = {})
      BY <2>3, <3>2 DEF Picks, ws
    <3>3. CASE ~(m \in req[q].gangless \/ SkipsAGang(q, m)) /\ ~(m \in LocalHas \/ ws = {})
      <4>1. p \in IF left = {} THEN {none}
                  ELSE UNION {{[node |-> n, addr |-> row[n].addr, rev |-> g[1]] :
                                 n \in Ranked(q, m, g[2])} : g \in groups}
        BY ZenonT(30), <2>3, <3>3 DEF Picks, ws
      <4> HIDE DEF left, groups, none, here
      <4> QED BY <4>1
    <3> QED BY <3>1, <3>2, <3>3
  <2> QED BY <2>1, <2>2, <2>3
<1>6. ASSUME NEW g \in groups, NEW n \in Ranked(q, m, g[2]) PROVE n \in left
  BY <1>3, <1>6, GroupAmong, RankedAmong
<1> HIDE DEF here, none, ws, left, groups, gang
<1>7. CASE p \in {here, none}
  BY <1>1, <1>7
<1>8. CASE \E g \in ShardCoordinator(q, m) : p = gang(g)
  BY <1>1, <1>4, <1>8
<1>9. CASE \E g \in groups : \E n \in Ranked(q, m, g[2]) : p.node = n
  BY <1>2, <1>6, <1>9
<1> QED BY <1>5, <1>7, <1>8, <1>9

\* While a worker of a model that is not sharded takes requests and has not
\* failed this one, the pick is one of its workers, or the leader's own engine
\* because it has the model.
LEMMA PicksAWorker ==
  ASSUME Configured, NEW q, NEW m \in Models, q \notin gone, NEW p \in Picks(q, m),
         GangsOf[m] = <<>>, m \notin req[q].gangless,
         NEW n0 \in Range(Placed[m]) \ req[q].skipped, TakesRequests(n0)
  PROVE  p.node \in Nodes \/ (p.node = Local /\ m \in LocalHas)
<1> DEFINE here  == [node |-> Local, addr |-> 0, rev |-> req[q].rev[m]]
           ws    == TakingRequests(Range(Placed[m]))
           left  == WithoutSkipped(q, ws)
           groups == PickRevisionGroup(Weights, DecodeOnly(left), req[q].rev[m])
<1>1. Routable(m) = {}
  BY DEF Routable, Range
<1>2. ReadyGangs(q, m) = {} /\ ~SkipsAGang(q, m)
  BY <1>1 DEF ReadyGangs, SkipsAGang
<1>3. n0 \in ws /\ n0 \in left
  BY ZenonT(30) DEF TakingRequests, WithoutSkipped
<1>4. left \subseteq Nodes
  BY ZenonT(30) DEF Configured, TakingRequests, WithoutSkipped
<1>5. DecodeOnly(left) \subseteq left
  BY DEF DecodeOnly
<1>6. CASE m \in LocalHas
  <2>1. p \in {here}
    BY ZenonT(30), <1>2, <1>6 DEF Picks
  <2> QED BY <1>6, <2>1
<1>7. CASE m \notin LocalHas
  <2> HIDE DEF ws
  <2>1. p \in IF left = {} THEN {[here EXCEPT !.node = None]}
              ELSE UNION {{[node |-> n, addr |-> row[n].addr, rev |-> g[1]] :
                             n \in Ranked(q, m, g[2])} : g \in groups}
    BY <1>2, <1>3, <1>7 DEF Picks, ws
  <2> HIDE DEF left, groups
  <2>2. PICK g \in groups : \E n \in Ranked(q, m, g[2]) : p.node = n
    BY SMTT(20), <1>3, <2>1
  <2>3. g[2] \subseteq DecodeOnly(left)
    BY GroupAmong DEF groups
  <2> QED BY ZenonT(30), <1>4, <1>5, <2>2, <2>3, RankedAmong
<1> QED BY <1>6, <1>7

-----------------------------------------------------------------------------
(* The walk of a request, as its caller sees it *)

Promise == INSTANCE Failover WITH
  NoTarget <- None,
  asking <- [q \in Requests |-> Asking(req[q])],
  silent <- [q \in Requests |-> req[q].skipped],
  at <- [q \in Requests |-> req[q].i],
  result <- [q \in Requests |-> Result(req[q])]

\* The same, of one request that goes from r to s.
Keeps(r, s) == Asking(s) = Asking(r) /\ s.skipped = r.skipped /\ s.i = r.i /\ Result(s) = Result(r)
Asks(r, s) ==
  /\ Result(r) = "open" /\ Asking(r) = None /\ Asking(s) \in Targets \ r.skipped
  /\ s.skipped = r.skipped /\ s.i = r.i /\ Result(s) = Result(r)
GetsNothing(r, s) ==
  /\ Asking(r) \in Targets \ {Local} /\ Result(r) = "open"
  /\ s.skipped = r.skipped \cup {Asking(r)} /\ Asking(s) = None
  /\ s.i = r.i /\ Result(s) = Result(r)
GoesOn(r, s) ==
  /\ Result(r) = "open" /\ r.i < Alternatives /\ s.i = r.i + 1 /\ Asking(s) = None
  /\ s.skipped = r.skipped /\ Result(s) = Result(r)
IsServed(r, s) ==
  /\ Result(r) = "open" /\ Asking(r) \in Targets /\ Result(s) = "served"
  /\ Asking(s) = Asking(r) /\ s.skipped = r.skipped /\ s.i = r.i
HasFailed(r, s) ==
  /\ Result(r) = "open" /\ Result(s) = "failed" /\ Asking(s) = None
  /\ s.skipped = r.skipped /\ s.i = r.i
Promised(r, s) ==
  Keeps(r, s) \/ Asks(r, s) \/ GetsNothing(r, s) \/ GoesOn(r, s) \/ IsServed(r, s) \/ HasFailed(r, s)

LEMMA PromiseStep ==
  ASSUME ReqsInv, NEW q \in Requests, NEW s, req' = [req EXCEPT ![q] = s], Promised(req[q], s)
  PROVE  [Promise!Next]_(Promise!vars)
<1> DEFINE asking == [o \in Requests |-> Asking(req[o])]
           silent == [o \in Requests |-> req[o].skipped]
           at == [o \in Requests |-> req[o].i]
           result == [o \in Requests |-> Result(req[o])]
<1>1. \A o \in Requests : req'[o] = IF o = q THEN s ELSE req[o]
  BY DEF ReqsInv
<1>2. asking' = [asking EXCEPT ![q] = Asking(s)]
  <2>1. asking' = [o \in Requests |-> Asking(req'[o])]
    BY DEF Asking, Hedged, Result
  <2>2. \A o \in Requests : Asking(req'[o]) = IF o = q THEN Asking(s) ELSE Asking(req[o])
    BY <1>1
  <2>3. [asking EXCEPT ![q] = Asking(s)] = [o \in Requests |-> IF o = q THEN Asking(s) ELSE Asking(req[o])]
    BY Zenon
  <2> QED BY ONLY <2>1, <2>2, <2>3
<1>3. silent' = [silent EXCEPT ![q] = s.skipped]
  <2>1. silent' = [o \in Requests |-> req'[o].skipped]
    OBVIOUS
  <2>2. \A o \in Requests : req'[o].skipped = IF o = q THEN s.skipped ELSE req[o].skipped
    BY <1>1
  <2>3. [silent EXCEPT ![q] = s.skipped] = [o \in Requests |-> IF o = q THEN s.skipped ELSE req[o].skipped]
    BY Zenon
  <2> QED BY ONLY <2>1, <2>2, <2>3
<1>4. at' = [at EXCEPT ![q] = s.i]
  <2>1. at' = [o \in Requests |-> req'[o].i]
    OBVIOUS
  <2>2. \A o \in Requests : req'[o].i = IF o = q THEN s.i ELSE req[o].i
    BY <1>1
  <2>3. [at EXCEPT ![q] = s.i] = [o \in Requests |-> IF o = q THEN s.i ELSE req[o].i]
    BY Zenon
  <2> QED BY ONLY <2>1, <2>2, <2>3
<1>5. result' = [result EXCEPT ![q] = Result(s)]
  <2>1. result' = [o \in Requests |-> Result(req'[o])]
    BY DEF Result
  <2>2. \A o \in Requests : Result(req'[o]) = IF o = q THEN Result(s) ELSE Result(req[o])
    BY <1>1
  <2>3. [result EXCEPT ![q] = Result(s)] = [o \in Requests |-> IF o = q THEN Result(s) ELSE Result(req[o])]
    BY Zenon
  <2> QED BY ONLY <2>1, <2>2, <2>3
<1>6. /\ asking[q] = Asking(req[q]) /\ silent[q] = req[q].skipped
      /\ at[q] = req[q].i /\ result[q] = Result(req[q])
  OBVIOUS
<1>7. /\ asking[q] = Asking(s) => asking' = asking
      /\ silent[q] = s.skipped => silent' = silent
      /\ at[q] = s.i => at' = at
      /\ result[q] = Result(s) => result' = result
  BY SMTT(20), <1>2, <1>3, <1>4, <1>5
<1> HIDE DEF asking, silent, at, result
<1>8. CASE Keeps(req[q], s)
  <2>1. UNCHANGED <<asking, silent, at, result>>
    BY ZenonT(30), <1>6, <1>7, <1>8 DEF Keeps
  <2> QED BY ZenonT(30), <2>1 DEF Promise!vars, asking, silent, at, result
<1>9. CASE Asks(req[q], s)
  <2>1. Promise!Ask(q, Asking(s))
    BY ZenonT(30), <1>2, <1>6, <1>7, <1>9 DEF Asks, Promise!Ask, asking, silent, at, result
  <2> QED BY ZenonT(30), <1>9, <2>1 DEF Asks, Promise!Next
<1>10. CASE GetsNothing(req[q], s)
  <2>1. Promise!GivesNothing(q)
    BY Zenon, <1>2, <1>3, <1>6, <1>7, <1>10 DEF GetsNothing, Promise!GivesNothing, asking, silent, at, result
  <2> QED BY <2>1 DEF Promise!Next
<1>11. CASE GoesOn(req[q], s)
  <2>1. Promise!MovesOn(q)
    BY ZenonT(30), <1>2, <1>4, <1>6, <1>7, <1>11 DEF GoesOn, Promise!MovesOn, asking, silent, at, result
  <2> QED BY ZenonT(30), <2>1 DEF Promise!Next
<1>12. CASE IsServed(req[q], s)
  <2>1. Promise!Serve(q)
    BY ZenonT(30), <1>5, <1>6, <1>7, <1>12 DEF IsServed, Promise!Serve, asking, silent, at, result
  <2> QED BY ZenonT(30), <2>1 DEF Promise!Next
<1>13. CASE HasFailed(req[q], s)
  <2>1. Promise!Fail(q)
    BY ZenonT(30), <1>2, <1>5, <1>6, <1>7, <1>13 DEF HasFailed, Promise!Fail, asking, silent, at, result
  <2> QED BY ZenonT(30), <2>1 DEF Promise!Next
<1> QED BY ZenonT(30), <1>8, <1>9, <1>10, <1>11, <1>12, <1>13 DEF Promised

\* Where a request that is being walked has a target.
Engaged == {"dispatch", "handoff", "prefill", "call", "retry"}

\* The chain is one of models, and short; until a failure has named its class it
\* is the catalogue's generic one, or the caller's own.
ChainInv(q, r) ==
  /\ r.chain \in Seq(Models) /\ r.i \in Nat \ {0} /\ Len(r.chain) <= Alternatives
  /\ ~r.classified /\ Call[q].fallbacks = <<>> => Len(r.chain) <= 1 + Len(Chains[Call[q].model].generic)

GanglessInv(r) == \A m \in r.gangless : m \in Models => GangsOf[m] # <<>>

WalkInv(q, r) ==
  /\ r.pc = "new" => r = Fresh
  /\ r.pc # "new" => ChainInv(q, r)
  /\ r.pc \notin {"new", "done"} => r.i <= Len(r.chain)
  /\ r.pc \in {"new", "pick", "hedge"} => r.node = None
  /\ r.pc \in Engaged => r.node \in Targets
  /\ r.pc = "stream" => r.last = "served"
  /\ Local \notin r.skipped /\ GanglessInv(r)
  /\ r.pc = "hedge" => Hedged(r)

WalksInv == \A q \in Requests : WalkInv(q, req[q])

\* A step of request q keeps all this and is one the caller may see; a worker
\* that the request skips from now on is in the penalty box.
Goes(q) ==
  \E s : /\ req' = [req EXCEPT ![q] = s]
         /\ ReqInv(s) /\ WalkInv(q, s) /\ Promised(req[q], s)
         /\ \A t \in s.skipped \ req[q].skipped : t \in Nodes => t \in cooling'

\* A request without legs has the shape of one.
LEMMA PlainReq == ASSUME NEW s, s = [f \in Fields |-> s[f]], s.legs = NoLegs PROVE ReqInv(s)
BY DEF ReqInv, NoLegs

LEMMA SingleView ==
  ASSUME NEW r, r.legs = NoLegs
  PROVE  /\ Asking(r) = r.node
         /\ r.pc \notin {"stream", "done"} => Result(r) = "open"
         /\ r.pc = "done" /\ r.last # "served" => Result(r) = "failed"
         /\ r.pc = "stream" \/ (r.pc = "done" /\ r.last = "served") => Result(r) = "served"
<1>1. ~Hedged(r)
  BY DEF Hedged, NoLegs
<1> QED BY <1>1 DEF Asking, Result

LEMMA CandidateModel ==
  ASSUME NEW q \in Requests, WalksInv, req[q].pc \notin {"new", "done"}
  PROVE  Candidate(q) \in Models
<1>1. /\ req[q].chain \in Seq(Models) /\ req[q].i \in Nat \ {0} /\ req[q].i <= Len(req[q].chain)
  BY ZenonT(30) DEF WalksInv, WalkInv, ChainInv
<1> QED BY SMTT(20), <1>1 DEF Candidate

\* A request, not hedged, that goes on to its next candidate or has none.
Afoot(q, r) ==
  /\ r = [f \in Fields |-> r[f]] /\ r.legs = NoLegs
  /\ ChainInv(q, r) /\ Local \notin r.skipped /\ GanglessInv(r) /\ r.last # "served"

LEMMA AdvanceWalks ==
  ASSUME Enough, NEW q, NEW r, Afoot(q, r)
  PROVE  /\ ReqInv(Advance(r)) /\ WalkInv(q, Advance(r))
         /\ Advance(r).skipped = r.skipped /\ Asking(Advance(r)) = None
         /\ \/ r.i < Alternatives /\ Advance(r).i = r.i + 1 /\ Result(Advance(r)) = "open"
            \/ Advance(r).i = r.i /\ Result(Advance(r)) = "failed"
<1>0. /\ r.chain \in Seq(Models) /\ r.i \in Nat /\ r.i # 0 /\ Len(r.chain) <= Alternatives
      /\ Len(r.chain) \in Nat /\ Alternatives \in Nat
  BY DEF Afoot, ChainInv, Enough
<1>1. CASE r.i < Len(r.chain)
  <2> DEFINE s == [r EXCEPT !.pc = "pick", !.i = @ + 1, !.retry = 0, !.node = None]
  <2>1. Advance(r) = s
    BY <1>1 DEF Advance
  <2>2. /\ s.pc = "pick" /\ s.i = r.i + 1 /\ s.node = None /\ s.chain = r.chain /\ s.skipped = r.skipped
        /\ s.classified = r.classified /\ s.gangless = r.gangless /\ s.legs = NoLegs
        /\ s = [f \in Fields |-> s[f]]
    BY Zenon DEF Afoot, Fields
  <2> HIDE DEF s
  <2>3. s.i \in Nat \ {0} /\ s.i <= Len(s.chain) /\ r.i < Alternatives
    BY SMTT(20), <1>0, <1>1, <2>2
  <2>4. ChainInv(q, s)
    BY ZenonT(30), <2>2, <2>3 DEF Afoot, ChainInv
  <2>5. WalkInv(q, s)
    BY <2>2, <2>3, <2>4 DEF WalkInv, Afoot, GanglessInv, Engaged
  <2>6. Asking(s) = None /\ Result(s) = "open"
    BY <2>2, SingleView
  <2> QED BY ZenonT(30), <2>1, <2>2, <2>3, <2>5, <2>6, PlainReq
<1>2. CASE ~(r.i < Len(r.chain))
  <2> DEFINE s == [r EXCEPT !.pc = "done", !.node = None]
  <2>1. Advance(r) = s
    BY <1>2 DEF Advance
  <2>2. /\ s.pc = "done" /\ s.i = r.i /\ s.node = None /\ s.chain = r.chain /\ s.skipped = r.skipped
        /\ s.classified = r.classified /\ s.gangless = r.gangless /\ s.legs = NoLegs /\ s.last # "served"
        /\ s = [f \in Fields |-> s[f]]
    BY Zenon DEF Afoot, Fields
  <2> HIDE DEF s
  <2>4. ChainInv(q, s)
    BY <2>2 DEF Afoot, ChainInv
  <2>5. WalkInv(q, s)
    BY <2>2, <2>4 DEF WalkInv, Afoot, GanglessInv, Engaged
  <2>6. Asking(s) = None /\ Result(s) = "failed"
    BY <2>2, SingleView
  <2> QED BY ZenonT(30), <2>1, <2>2, <2>5, <2>6, PlainReq
<1> QED BY <1>1, <1>2

\* The step of a request that so leaves its candidate.
LEMMA AdvanceGoes ==
  ASSUME Enough, ReqsInv, WalksInv, NEW q \in Requests, NEW r, Afoot(q, r),
         req' = [req EXCEPT ![q] = Advance(r)], req[q].pc \in Single,
         r.i = req[q].i, r.skipped = req[q].skipped
  PROVE  Goes(q)
<1>1. /\ ReqInv(Advance(r)) /\ WalkInv(q, Advance(r)) /\ Advance(r).skipped = r.skipped /\ Asking(Advance(r)) = None
      /\ \/ r.i < Alternatives /\ Advance(r).i = r.i + 1 /\ Result(Advance(r)) = "open"
         \/ Advance(r).i = r.i /\ Result(Advance(r)) = "failed"
  BY AdvanceWalks
<1>2. Result(req[q]) = "open"
  BY Zenon, SingleView DEF ReqsInv, ReqInv, Single
<1>3. Promised(req[q], Advance(r))
  BY Zenon, <1>1, <1>2 DEF Promised, GoesOn, HasFailed
<1> QED BY Zenon, <1>1, <1>3 DEF Goes

\* The request stays with its target.
Stays(r, s) ==
  /\ s.pc \in Engaged /\ s.node = r.node /\ s.legs = r.legs /\ s.chain = r.chain /\ s.i = r.i
  /\ s.classified = r.classified /\ s.skipped = r.skipped /\ s.gangless = r.gangless
  /\ s = [f \in Fields |-> s[f]]

LEMMA StaysGoes ==
  ASSUME ReqsInv, WalksInv, NEW q \in Requests, NEW s, req' = [req EXCEPT ![q] = s],
         req[q].pc \in Engaged, Stays(req[q], s)
  PROVE  Goes(q)
<1>1. req[q].legs = NoLegs /\ s.legs = NoLegs
  BY Zenon DEF ReqsInv, ReqInv, Single, Engaged, Stays
<1>2. Promised(req[q], s)
  BY <1>1, SingleView DEF Engaged, Stays, Promised, Keeps
<1>3. WalkInv(q, req[q])
  BY ZenonT(30) DEF WalksInv
<1>4. WalkInv(q, s)
  BY <1>3 DEF WalkInv, ChainInv, GanglessInv, Engaged, Stays
<1>5. ReqInv(s)
  BY ZenonT(30), <1>1, PlainReq DEF Stays
<1> QED BY Zenon, <1>2, <1>4, <1>5 DEF Goes, Stays

LEMMA AfterFailureGoes ==
  ASSUME Configured, Enough, ReqsInv, WalksInv, NEW q \in Requests, NEW err, err # "served",
         req[q].pc \in {"call", "retry"}, req' = [req EXCEPT ![q] = AfterFailure(q, err)],
         NothingAnswered(q, err) /\ req[q].node \in Nodes => req[q].node \in cooling'
  PROVE  Goes(q)
<1>0. /\ ReqInv(req[q]) /\ req[q].legs = NoLegs /\ WalkInv(q, req[q])
      /\ req[q].pc \in Single /\ req[q].node \in Targets
  BY ZenonT(30) DEF ReqsInv, ReqInv, WalksInv, WalkInv, Single, Engaged
<1>a. Asking(req[q]) = req[q].node /\ Result(req[q]) = "open"
  BY <1>0, SingleView
<1> DEFINE r == [req[q] EXCEPT !.last = err, !.kv = None]
<1>1. /\ r = [f \in Fields |-> r[f]] /\ r.legs = NoLegs /\ r.chain = req[q].chain /\ r.i = req[q].i
      /\ r.skipped = req[q].skipped /\ r.gangless = req[q].gangless /\ r.classified = req[q].classified
      /\ r.last = err /\ r.node = req[q].node
  BY Zenon, <1>0 DEF ReqInv, Fields
<1>2. Afoot(q, r)
  <2> HIDE DEF r
  <2> QED BY <1>0, <1>1 DEF Afoot, WalkInv, ChainInv, GanglessInv
<1>3. CASE NothingAnswered(q, err)
  <2> DEFINE s == [r EXCEPT !.pc = "pick", !.skipped = @ \cup {r.node}, !.node = None, !.retry = 0]
  <2>1. AfterFailure(q, err) = s
    BY <1>3 DEF AfterFailure
  <2> HIDE DEF r
  <2>2. /\ s.pc = "pick" /\ s.skipped = req[q].skipped \cup {req[q].node} /\ s.node = None
        /\ s.chain = req[q].chain /\ s.i = req[q].i /\ s.classified = req[q].classified
        /\ s.gangless = req[q].gangless /\ s.legs = NoLegs /\ s = [f \in Fields |-> s[f]]
    BY Zenon, <1>1 DEF Fields
  <2> HIDE DEF s
  <2>3. req[q].node # Local
    BY ZenonT(30), <1>3 DEF NothingAnswered
  <2>4. WalkInv(q, s)
    BY <1>0, <2>2, <2>3 DEF WalkInv, ChainInv, GanglessInv, Engaged
  <2>5. Asking(s) = None /\ Result(s) = "open"
    BY <2>2, SingleView
  <2>6. Promised(req[q], s)
    BY Zenon, <1>0, <1>a, <2>2, <2>3, <2>5 DEF Promised, GetsNothing
  <2>7. ReqInv(s)
    BY <2>2, PlainReq
  <2>8. \A t \in s.skipped \ req[q].skipped : t \in Nodes => t \in cooling'
    BY Zenon, <1>3, <2>2
  <2> QED BY Zenon, <2>1, <2>4, <2>6, <2>7, <2>8 DEF Goes
<1>4. CASE ~NothingAnswered(q, err) /\ (req[q].classified \/ Call[q].fallbacks # <<>>)
  <2>1. AfterFailure(q, err) = Advance(r)
    BY <1>1, <1>4 DEF AfterFailure
  <2> HIDE DEF r
  <2> QED BY <1>0, <1>1, <1>2, <2>1, AdvanceGoes
<1>5. CASE ~NothingAnswered(q, err) /\ ~(req[q].classified \/ Call[q].fallbacks # <<>>)
  <2> DEFINE swapped == MaybeSwapTypedChain(r.chain, Chains[Call[q].model], err, r.i, Cap)
             u == [r EXCEPT !.classified = TRUE, !.chain = swapped]
  <2>1. AfterFailure(q, err) = Advance(u)
    BY <1>1, <1>5 DEF AfterFailure
  <2> HIDE DEF r
  <2>2. swapped \in Seq(Models) /\ Len(swapped) <= Alternatives
    <3>1. /\ r.chain \in Seq(Models) /\ r.i \in Nat \ {0} /\ r.i <= Len(r.chain) /\ Len(r.chain) <= Alternatives
          /\ Len(r.chain) <= 1 + Len(Chains[Call[q].model].generic)
      BY ZenonT(30), <1>0, <1>1, <1>5 DEF WalkInv, ChainInv, Single
    <3>2. r.i \in 1 .. Len(r.chain)
      BY <3>1
    <3> QED BY Zenon, <3>1, <3>2, SwapType
  <2> HIDE DEF swapped
  <2>3. /\ u = [f \in Fields |-> u[f]] /\ u.legs = NoLegs /\ u.chain = swapped /\ u.i = req[q].i
        /\ u.skipped = req[q].skipped /\ u.gangless = req[q].gangless /\ u.classified = TRUE
        /\ u.last = err
    BY Zenon, <1>1 DEF Fields
  <2> HIDE DEF u
  <2>4. Afoot(q, u)
    BY <1>0, <2>2, <2>3 DEF Afoot, WalkInv, ChainInv, GanglessInv, Single
  <2> QED BY <1>0, <2>1, <2>3, <2>4, AdvanceGoes
<1> QED BY ZenonT(30), <1>3, <1>4, <1>5

LEMMA FailsGoes ==
  ASSUME Configured, Enough, ReqsInv, WalksInv, NEW q \in Requests, Fails(q)
  PROVE  Goes(q)
<1>0. req[q].pc = "call" /\ ReqInv(req[q]) /\ req[q].node \in Targets
  BY DEF Fails, ReqsInv, WalksInv, WalkInv, Engaged
<1> DEFINE again == req[q].retry < Call[q].retries
<1>1. PICK err \in Failures(q) :
        /\ RecordFailure(req[q].node, ~(Call[q].op = "chat" /\ err = "unsupported"),
                         ~again /\ NothingAnswered(q, err))
        /\ req' = [req EXCEPT ![q] =
             IF again THEN [req[q] EXCEPT !.pc = "retry", !.retry = @ + 1, !.last = err, !.kv = None]
             ELSE AfterFailure(q, err)]
  BY Zenon DEF Fails
<1>2. err # "served"
  BY Zenon, <1>0 DEF Failures, Configured
<1> HIDE DEF again
<1>3. CASE again
  <2> DEFINE s == [req[q] EXCEPT !.pc = "retry", !.retry = @ + 1, !.last = err, !.kv = None]
  <2>1. req' = [req EXCEPT ![q] = s]
    BY <1>1, <1>3
  <2>2. Stays(req[q], s)
    BY Zenon, <1>0 DEF Stays, ReqInv, Fields, Engaged
  <2> HIDE DEF s
  <2>3. req[q].pc \in Engaged
    BY <1>0 DEF Engaged
  <2> QED BY Zenon, <2>1, <2>2, <2>3, StaysGoes
<1>4. CASE ~again
  <2>1. req' = [req EXCEPT ![q] = AfterFailure(q, err)]
    BY <1>1, <1>4
  <2>2. NothingAnswered(q, err) /\ req[q].node \in Nodes => req[q].node \in cooling'
    BY <1>1, <1>4 DEF RecordFailure, Worker
  <2> QED BY Zenon, <1>0, <1>2, <2>1, <2>2, AfterFailureGoes
<1> QED BY <1>3, <1>4

LEMMA RetryGoes ==
  ASSUME Configured, Enough, ReqsInv, WalksInv, NEW q \in Requests, Retry(q)
  PROVE  Goes(q)
<1>0. req[q].pc = "retry" /\ ReqInv(req[q])
  BY DEF Retry, ReqsInv
<1>1. CASE q \in gone /\ Call[q].backoff > 0
  <2>1. req' = [req EXCEPT ![q] = AfterFailure(q, "cancelled")]
    BY <1>1 DEF Retry
  <2>2. ~NothingAnswered(q, "cancelled")
    BY DEF NothingAnswered
  <2> QED BY Zenon, <1>0, <2>1, <2>2, AfterFailureGoes
<1>2. CASE ~(q \in gone /\ Call[q].backoff > 0)
  <2> DEFINE s == [req[q] EXCEPT !.pc = "call"]
  <2>1. req' = [req EXCEPT ![q] = s]
    BY <1>2 DEF Retry
  <2>2. Stays(req[q], s)
    BY <1>0 DEF Stays, ReqInv, Fields, Engaged
  <2> HIDE DEF s
  <2>3. req[q].pc \in Engaged
    BY <1>0 DEF Engaged
  <2> QED BY Zenon, <2>1, <2>2, <2>3, StaysGoes
<1> QED BY <1>1, <1>2

LEMMA FreshFields ==
  /\ Fresh.i = 1 /\ Fresh.skipped = {} /\ Fresh.gangless = {} /\ Fresh.node = None
  /\ Fresh.legs = NoLegs /\ Fresh.pc = "new" /\ Fresh.classified = FALSE
  /\ Fresh = [f \in Fields |-> Fresh[f]]
BY Zenon DEF Fresh, Fields

LEMMA AtLeastOne ==
  ASSUME NEW a \in Nat, NEW b \in Nat, NEW k \in Nat, 1 + a <= k
  PROVE  1 <= k /\ 1 <= 1 + b
OBVIOUS

LEMMA TwoAreSome == ASSUME NEW S, Cardinality(S) >= 2 PROVE S # {}
<1> SUFFICES ASSUME S = {} PROVE FALSE
  OBVIOUS
<1>1. Cardinality(S) = 0
  BY ZenonT(30), FS_EmptySet
<1> QED BY <1>1

LEMMA BeginGoes ==
  ASSUME Configured, Enough, ReqsInv, WalksInv, NEW q \in Requests, Begin(q)
  PROVE  Goes(q)
<1> DEFINE c == Call[q]
           hedged == IF c.hedge /\ HedgeReplicas > 1 /\ c.op = "chat" THEN HedgeSets(c.model) ELSE {{}}
           raced(S) == [Fresh EXCEPT !.pc = "hedge", !.chain = <<c.model>>,
                          !.legs = [n \in DOMAIN NoLegs |-> IF n \in S THEN "start" ELSE "none"]]
           walked(p95) == [Fresh EXCEPT !.pc = "pick", !.chain = Ordered(c, p95)]
<1>0. req[q] = Fresh
  BY DEF Begin, WalksInv, WalkInv
<1>a. /\ Fresh.i = 1 /\ Fresh.skipped = {} /\ Fresh.gangless = {} /\ Fresh.node = None
      /\ Fresh.legs = NoLegs /\ Fresh.pc = "new" /\ Fresh.classified = FALSE
      /\ Fresh = [f \in Fields |-> Fresh[f]]
  BY FreshFields
<1>b. Asking(Fresh) = None /\ Result(Fresh) = "open"
  BY <1>a, SingleView
<1>1. PICK S \in hedged, p95 \in P95s :
        req' = [req EXCEPT ![q] = IF Cardinality(S) >= 2 THEN raced(S) ELSE walked(p95)]
  BY Zenon DEF Begin
<1>2. CASE Cardinality(S) >= 2
  <2> DEFINE s == raced(S)
  <2>1. req' = [req EXCEPT ![q] = s]
    BY <1>1, <1>2
  <2>2. S # {} /\ S \subseteq DOMAIN NoLegs
    <3>1. S # {}
      BY ONLY ZenonT(30), <1>2, TwoAreSome
    <3>2. S \in HedgeSets(c.model)
      BY ZenonT(30), <3>1
    <3>3. Range(Placed[c.model]) \subseteq Nodes
      BY DEF Configured
    <3> QED BY ZenonT(30), <3>1, <3>2, <3>3 DEF HedgeSets, NoLegs
  <2>3. /\ s.pc = "hedge" /\ s.chain = <<c.model>> /\ s.i = 1 /\ s.skipped = {} /\ s.gangless = {}
        /\ s.node = None /\ s.legs = [n \in DOMAIN NoLegs |-> IF n \in S THEN "start" ELSE "none"]
        /\ s = [f \in Fields |-> s[f]]
    BY Zenon, <1>a DEF Fields
  <2> HIDE DEF s
  <2>4. Hedged(s)
    BY <2>2, <2>3 DEF Hedged
  <2>5. Result(s) = "open"
    BY ZenonT(30), <2>3 DEF Result
  <2>6. Asking(s) = Local
    BY <2>4, <2>5 DEF Asking
  <2>7. Promised(req[q], s)
    BY Zenon, <1>0, <1>a, <1>b, <2>3, <2>5, <2>6 DEF Promised, Asks, Targets
  <2>8. /\ s.chain \in Seq(Models) /\ Len(s.chain) = 1
        /\ 1 <= Alternatives /\ 1 <= 1 + Len(Chains[c.model].generic)
    <3>1. /\ c.model \in Models /\ Chains[c.model].generic \in Seq(Models)
          /\ Call[q].fallbacks \in Seq(Models)
      BY Zenon DEF Configured
    <3>2. Alternatives \in Nat /\ 1 + Len(Call[q].fallbacks) <= Alternatives
      BY Zenon DEF Enough
    <3>3. Len(Call[q].fallbacks) \in Nat /\ Len(Chains[c.model].generic) \in Nat
      BY SMTT(20), <3>1
    <3>4. 1 <= Alternatives /\ 1 <= 1 + Len(Chains[c.model].generic)
      BY ONLY ZenonT(30), <3>2, <3>3, AtLeastOne
    <3>5. <<c.model>> \in Seq(Models) /\ Len(<<c.model>>) = 1
      BY ONLY SMTT(20), <3>1
    <3> QED BY ONLY ZenonT(30), <2>3, <3>4, <3>5
  <2>9. WalkInv(q, s)
    BY SMTT(20), <2>3, <2>4, <2>8 DEF WalkInv, ChainInv, GanglessInv, Engaged
  <2>10. ReqInv(s)
    BY <2>3 DEF ReqInv, Single
  <2> QED BY Zenon, <1>0, <1>a, <2>1, <2>3, <2>7, <2>9, <2>10 DEF Goes
<1>3. CASE ~(Cardinality(S) >= 2)
  <2> DEFINE s == walked(p95)
  <2>1. req' = [req EXCEPT ![q] = s]
    BY <1>1, <1>3
  <2>2. /\ s.pc = "pick" /\ s.chain = Ordered(c, p95) /\ s.i = 1 /\ s.skipped = {} /\ s.gangless = {}
        /\ s.node = None /\ s.legs = NoLegs /\ s = [f \in Fields |-> s[f]]
    BY Zenon, <1>a DEF Fields
  <2> HIDE DEF s
  <2>3. Promised(req[q], s)
    BY ZenonT(30), <1>0, <1>a, <1>b, <2>2, SingleView DEF Promised, Keeps
  <2>4. WalkInv(q, s)
    BY SMTT(20), <2>2, OrderedType DEF WalkInv, ChainInv, GanglessInv, Engaged
  <2> QED BY Zenon, <1>0, <1>a, <2>1, <2>2, <2>3, <2>4, PlainReq DEF Goes
<1> QED BY <1>2, <1>3

LEMMA SkipsSome == \A q, m : SkipsAGang(q, m) => GangsOf[m] # <<>>
<1> SUFFICES ASSUME NEW q, NEW m, SkipsAGang(q, m), GangsOf[m] = <<>> PROVE FALSE
  OBVIOUS
<1>1. Range(GangsOf[m]) = {}
  BY DEF Range
<1> QED BY ZenonT(30), <1>1 DEF SkipsAGang, Routable

LEMMA PickGoes ==
  ASSUME Configured, Enough, ReqsInv, WalksInv, NEW q \in Requests, Pick(q)
  PROVE  Goes(q)
<1>0. /\ req[q].pc = "pick" /\ ReqInv(req[q]) /\ req[q].legs = NoLegs /\ WalkInv(q, req[q])
      /\ req[q].node = None /\ req[q].pc \in Single
  BY DEF Pick, ReqsInv, ReqInv, WalksInv, WalkInv, Single
<1> DEFINE m == Candidate(q)
<1>1. m \in Models
  BY <1>0, CandidateModel
<1> HIDE DEF m
<1> DEFINE r(p) == [req[q] EXCEPT !.rev[m] = p.rev,
                      !.gangless = IF q \notin gone /\ SkipsAGang(q, m) THEN @ \cup {m} ELSE @]
<1>2. PICK p \in Picks(q, m) :
        req' = [req EXCEPT ![q] = IF p.node = None THEN Advance([r(p) EXCEPT !.last = "noworker"])
                                  ELSE [r(p) EXCEPT !.pc = "dispatch", !.node = p.node, !.addr = p.addr]]
  BY Zenon DEF Pick, m
<1>3. /\ r(p) = [f \in Fields |-> r(p)[f]] /\ r(p).legs = NoLegs /\ r(p).chain = req[q].chain
      /\ r(p).i = req[q].i /\ r(p).skipped = req[q].skipped /\ r(p).classified = req[q].classified
      /\ r(p).gangless = IF q \notin gone /\ SkipsAGang(q, m) THEN req[q].gangless \cup {m} ELSE req[q].gangless
  BY Zenon, <1>0 DEF ReqInv, Fields
<1>4. SkipsAGang(q, m) => GangsOf[m] # <<>>
  BY ONLY ZenonT(30), SkipsSome
<1>5. GanglessInv(r(p))
  <2> HIDE DEF r
  <2> QED BY <1>0, <1>3, <1>4 DEF GanglessInv, WalkInv
<1> DEFINE rp == r(p)
<1> HIDE DEF rp
<1>6. /\ rp = [f \in Fields |-> rp[f]] /\ rp.legs = NoLegs /\ rp.chain = req[q].chain
      /\ rp.i = req[q].i /\ rp.skipped = req[q].skipped /\ rp.classified = req[q].classified
      /\ GanglessInv(rp)
  BY ZenonT(30), <1>3, <1>5 DEF rp
<1>7. CASE p.node = None
  <2> DEFINE u == [rp EXCEPT !.last = "noworker"]
  <2>1. req' = [req EXCEPT ![q] = Advance(u)]
    BY <1>2, <1>7 DEF rp
  <2>2. /\ u = [f \in Fields |-> u[f]] /\ u.legs = NoLegs /\ u.chain = req[q].chain
        /\ u.i = req[q].i /\ u.skipped = req[q].skipped /\ u.classified = req[q].classified
        /\ u.gangless = rp.gangless /\ u.last # "served"
    BY <1>6 DEF Fields
  <2> HIDE DEF u
  <2>3. Afoot(q, u)
    BY Zenon, <1>0, <1>6, <2>2 DEF Afoot, WalkInv, ChainInv, GanglessInv
  <2> QED BY ZenonT(30), <1>0, <2>1, <2>2, <2>3, AdvanceGoes
<1>8. CASE p.node # None
  <2> DEFINE s == [rp EXCEPT !.pc = "dispatch", !.node = p.node, !.addr = p.addr]
  <2>1. req' = [req EXCEPT ![q] = s]
    BY <1>2, <1>8 DEF rp
  <2>2. /\ s.pc = "dispatch" /\ s.node = p.node /\ s.legs = NoLegs /\ s.chain = req[q].chain
        /\ s.i = req[q].i /\ s.skipped = req[q].skipped /\ s.classified = req[q].classified
        /\ s.gangless = rp.gangless /\ s = [f \in Fields |-> s[f]]
    BY Zenon, <1>6 DEF Fields
  <2> HIDE DEF s
  <2>3. p.node \in Targets \ req[q].skipped
    BY ZenonT(30), <1>0, <1>1, <1>8, PicksAmong DEF Targets, WalkInv
  <2>4. WalkInv(q, s)
    BY <1>0, <1>6, <2>2, <2>3 DEF WalkInv, ChainInv, GanglessInv, Engaged
  <2>5. Promised(req[q], s)
    BY Zenon, <1>0, <2>2, <2>3, SingleView DEF Promised, Asks
  <2> QED BY Zenon, <2>1, <2>2, <2>4, <2>5, PlainReq DEF Goes
<1> QED BY <1>7, <1>8

LEMMA DispatchGoes ==
  ASSUME Configured, Enough, ReqsInv, WalksInv, NEW q \in Requests, Dispatch(q)
  PROVE  Goes(q)
<1>0. /\ req[q].pc = "dispatch" /\ ReqInv(req[q]) /\ req[q].legs = NoLegs /\ WalkInv(q, req[q])
      /\ req[q].pc \in Single /\ req[q].pc \in Engaged
  BY DEF Dispatch, ReqsInv, ReqInv, WalksInv, WalkInv, Single, Engaged
<1> DEFINE t == req[q].node
           u == [req[q] EXCEPT !.last = "unsupported"]
           s == [req[q] EXCEPT !.addr = Dialled(t, @),
                               !.pc = IF Call[q].op = "chat" /\ t \in Decoders THEN "handoff" ELSE "call"]
<1>1. req' = [req EXCEPT ![q] = Advance(u)] \/ req' = [req EXCEPT ![q] = s]
  BY DEF Dispatch
<1>2. /\ u = [f \in Fields |-> u[f]] /\ u.legs = NoLegs /\ u.chain = req[q].chain
      /\ u.i = req[q].i /\ u.skipped = req[q].skipped /\ u.classified = req[q].classified
      /\ u.gangless = req[q].gangless /\ u.last # "served"
  BY <1>0 DEF ReqInv, Fields
<1>3. Stays(req[q], s)
  BY Zenon, <1>0 DEF Stays, ReqInv, Fields, Engaged
<1> HIDE DEF u, s
<1>4. Afoot(q, u)
  BY <1>0, <1>2 DEF Afoot, WalkInv, ChainInv, GanglessInv
<1>5. CASE req' = [req EXCEPT ![q] = Advance(u)]
  BY <1>0, <1>2, <1>4, <1>5, AdvanceGoes
<1>6. CASE req' = [req EXCEPT ![q] = s]
  BY Zenon, <1>0, <1>3, <1>6, StaysGoes
<1> QED BY <1>1, <1>5, <1>6

LEMMA HandoffGoes == ASSUME ReqsInv, WalksInv, NEW q \in Requests, Handoff(q) PROVE Goes(q)
<1>0. ReqInv(req[q]) /\ req[q].pc \in Engaged
  BY DEF Handoff, ReqsInv, Engaged
<1> DEFINE a == [req[q] EXCEPT !.pc = "call", !.kv = None]
           b == [req[q] EXCEPT !.pc = "prefill", !.prefill = PrefillWorkers(q)]
<1>1. req' = [req EXCEPT ![q] = a] \/ req' = [req EXCEPT ![q] = b]
  BY Zenon DEF Handoff
<1>2. Stays(req[q], a) /\ Stays(req[q], b)
  BY Zenon, <1>0 DEF Stays, ReqInv, Fields, Engaged
<1> HIDE DEF a, b
<1> QED BY <1>0, <1>1, <1>2, StaysGoes

LEMMA PrefillAnswersGoes == ASSUME ReqsInv, WalksInv, NEW q \in Requests, PrefillAnswers(q) PROVE Goes(q)
<1>0. ReqInv(req[q]) /\ req[q].pc \in Engaged /\ req[q].pc = "prefill"
  BY Zenon DEF PrefillAnswers, ReqsInv, Engaged
<1> DEFINE a == [req[q] EXCEPT !.pc = "call", !.kv = req[q].prefill[1], !.prefill = <<>>]
           b == [req[q] EXCEPT !.pc = "call", !.prefill = <<>>]
           c == [req[q] EXCEPT !.prefill = Tail(req[q].prefill)]
<1>1. req' = [req EXCEPT ![q] = a] \/ req' = [req EXCEPT ![q] = b] \/ req' = [req EXCEPT ![q] = c]
  BY Zenon DEF PrefillAnswers
<1>2. Stays(req[q], a) /\ Stays(req[q], b) /\ Stays(req[q], c)
  BY Zenon, <1>0 DEF Stays, ReqInv, Fields, Engaged
<1> HIDE DEF a, b, c
<1> QED BY <1>0, <1>1, <1>2, StaysGoes

LEMMA HandoffFailsGoes == ASSUME ReqsInv, WalksInv, NEW q \in Requests, HandoffFails(q) PROVE Goes(q)
<1>0. ReqInv(req[q]) /\ req[q].pc \in Engaged /\ req[q].pc = "call"
  BY DEF HandoffFails, ReqsInv, Engaged
<1> DEFINE a == [req[q] EXCEPT !.kv = None]
<1>1. req' = [req EXCEPT ![q] = a]
  BY DEF HandoffFails
<1>2. Stays(req[q], a)
  BY <1>0 DEF Stays, ReqInv, Fields, Engaged
<1> HIDE DEF a
<1> QED BY Zenon, <1>0, <1>1, <1>2, StaysGoes

LEMMA SucceedsGoes == ASSUME ReqsInv, WalksInv, NEW q \in Requests, Succeeds(q) PROVE Goes(q)
<1>0. /\ ReqInv(req[q]) /\ req[q].pc = "call" /\ req[q].legs = NoLegs /\ WalkInv(q, req[q])
      /\ req[q].node \in Targets
  BY DEF Succeeds, ReqsInv, ReqInv, WalksInv, WalkInv, Single, Engaged
<1> DEFINE s == [req[q] EXCEPT !.pc = IF Call[q].op = "chat" THEN "stream" ELSE "done", !.last = "served"]
<1>1. req' = [req EXCEPT ![q] = s]
  BY DEF Succeeds
<1>2. /\ s.pc \in {"stream", "done"} /\ s.last = "served" /\ s.legs = NoLegs /\ s.node = req[q].node
      /\ s.chain = req[q].chain /\ s.i = req[q].i /\ s.classified = req[q].classified
      /\ s.skipped = req[q].skipped /\ s.gangless = req[q].gangless /\ s = [f \in Fields |-> s[f]]
  BY Zenon, <1>0 DEF ReqInv, Fields
<1> HIDE DEF s
<1>3. WalkInv(q, s)
  BY Zenon, <1>0, <1>2 DEF WalkInv, ChainInv, GanglessInv, Engaged
<1>4. Promised(req[q], s)
  BY Zenon, <1>0, <1>2, SingleView DEF Promised, IsServed
<1> QED BY Zenon, <1>1, <1>2, <1>3, <1>4, PlainReq DEF Goes

LEMMA StreamEndsGoes == ASSUME ReqsInv, WalksInv, NEW q \in Requests, StreamEnds(q) PROVE Goes(q)
<1>0. /\ ReqInv(req[q]) /\ req[q].pc = "stream" /\ req[q].legs = NoLegs /\ WalkInv(q, req[q])
      /\ req[q].last = "served"
  BY DEF StreamEnds, ReqsInv, ReqInv, WalksInv, WalkInv
<1> DEFINE s == [req[q] EXCEPT !.pc = "done"]
<1>1. req' = [req EXCEPT ![q] = s]
  BY DEF StreamEnds
<1>2. /\ s.pc = "done" /\ s.last = "served" /\ s.legs = NoLegs /\ s.node = req[q].node
      /\ s.chain = req[q].chain /\ s.i = req[q].i /\ s.classified = req[q].classified
      /\ s.skipped = req[q].skipped /\ s.gangless = req[q].gangless /\ s = [f \in Fields |-> s[f]]
  BY <1>0 DEF ReqInv, Fields
<1> HIDE DEF s
<1>3. WalkInv(q, s)
  BY Zenon, <1>0, <1>2 DEF WalkInv, ChainInv, GanglessInv, Engaged
<1>4. Promised(req[q], s)
  <2>1. Asking(s) = s.node /\ Asking(req[q]) = req[q].node
    BY ONLY ZenonT(30), <1>0, <1>2, SingleView
  <2>2. Result(s) = "served" /\ Result(req[q]) = "served"
    BY ONLY <1>0, <1>2, SingleView
  <2> QED BY ONLY ZenonT(30), <1>2, <2>1, <2>2 DEF Promised, Keeps
<1> QED BY Zenon, <1>1, <1>2, <1>3, <1>4, PlainReq DEF Goes

-----------------------------------------------------------------------------
(* The same of a hedged request *)

LEMMA HedgedView ==
  ASSUME NEW r, Hedged(r)
  PROVE  /\ Result(r) = "failed" => Asking(r) = None
         /\ Result(r) # "failed" => Asking(r) = Local
BY DEF Asking

\* A step of a hedged request that changes nothing else than where it stands.
Races(r, s) ==
  /\ Hedged(r) /\ Hedged(s) /\ s.pc \notin Single /\ ReqInv(s)
  /\ s.chain = r.chain /\ s.i = r.i /\ s.classified = r.classified
  /\ s.skipped = r.skipped /\ s.gangless = r.gangless

LEMMA RacesGoes ==
  ASSUME WalksInv, NEW q \in Requests, NEW s, req' = [req EXCEPT ![q] = s],
         Races(req[q], s), req[q].pc \notin Single,
         s.pc \in {req[q].pc, "stream", "done"},
         s.pc = "hedge" => s.node = req[q].node, s.pc = "stream" => s.last = "served" /\ req[q].pc # "done",
         \/ Result(s) = Result(req[q])
         \/ Result(req[q]) = "open" /\ Result(s) \in {"served", "failed"}
  PROVE  Goes(q)
<1>0. WalkInv(q, req[q]) /\ "new" \in Single /\ "pick" \in Single /\ Engaged \subseteq Single
  BY DEF WalksInv, Single, Engaged
<1>1. WalkInv(q, s)
  BY ZenonT(30), <1>0 DEF WalkInv, ChainInv, GanglessInv, Races
<1>2. Promised(req[q], s)
  BY HedgedView DEF Races, Promised, Keeps, IsServed, HasFailed, Targets
<1> QED BY Zenon, <1>1, <1>2 DEF Goes, Races

LEMMA HedgeFailsGoes == ASSUME ReqsInv, WalksInv, NEW q \in Requests, HedgeFails(q) PROVE Goes(q)
<1>0. ReqInv(req[q]) /\ req[q].pc = "hedge" /\ Hedged(req[q]) /\ req[q].pc \notin Single
  BY DEF HedgeFails, ReqsInv, WalksInv, WalkInv, Single
<1> DEFINE s == [req[q] EXCEPT !.pc = "done", !.last = "unreachable"]
<1>1. req' = [req EXCEPT ![q] = s]
  BY DEF HedgeFails
<1>2. /\ s.pc = "done" /\ s.last = "unreachable" /\ s.legs = req[q].legs
      /\ s.chain = req[q].chain /\ s.i = req[q].i /\ s.classified = req[q].classified
      /\ s.skipped = req[q].skipped /\ s.gangless = req[q].gangless /\ s = [f \in Fields |-> s[f]]
  BY Zenon, <1>0 DEF ReqInv, Fields
<1> HIDE DEF s
<1>a. ReqInv(s)
  BY <1>0, <1>2 DEF ReqInv, Single
<1>3. Races(req[q], s)
  BY Zenon, <1>0, <1>2, <1>a DEF Races, Hedged, Single
<1>4. Result(req[q]) = "open" /\ Result(s) = "failed"
  BY ZenonT(30), <1>0, <1>2 DEF Result
<1> QED BY Zenon, <1>0, <1>1, <1>2, <1>3, <1>4, RacesGoes

LEMMA LegIsHedged ==
  ASSUME ReqsInv, NEW q \in Requests, NEW n \in DOMAIN NoLegs, req[q].legs[n] # "none"
  PROVE  Hedged(req[q]) /\ req[q].pc \notin Single /\ ReqInv(req[q])
<1>1. ReqInv(req[q]) /\ n \in DOMAIN req[q].legs /\ req[q].legs # NoLegs
  BY DEF ReqsInv, ReqInv, NoLegs
<1> QED BY ZenonT(30), <1>1 DEF Hedged, ReqInv

LEMMA SetLegGoes ==
  ASSUME ReqsInv, WalksInv, NEW q \in Requests, NEW n \in DOMAIN NoLegs, req[q].legs[n] # "none",
         NEW state, state # "none", SetLeg(q, n, state)
  PROVE  Goes(q)
<1>0. Hedged(req[q]) /\ req[q].pc \notin Single /\ ReqInv(req[q])
  BY Zenon, LegIsHedged
<1> DEFINE s == [req[q] EXCEPT !.legs[n] = state]
<1>1. req' = [req EXCEPT ![q] = s]
  BY DEF SetLeg
<1>2. /\ s.pc = req[q].pc /\ s.last = req[q].last /\ s.legs = [req[q].legs EXCEPT ![n] = state]
      /\ s.node = req[q].node /\ s.chain = req[q].chain /\ s.i = req[q].i
      /\ s.classified = req[q].classified /\ s.skipped = req[q].skipped /\ s.gangless = req[q].gangless
      /\ s = [f \in Fields |-> s[f]]
  BY <1>0 DEF ReqInv, Fields
<1> HIDE DEF s
<1>3. n \in DOMAIN s.legs /\ s.legs[n] = state
  BY ZenonT(30), <1>0, <1>2 DEF ReqInv
<1>a. ReqInv(s)
  BY ZenonT(30), <1>0, <1>2 DEF ReqInv
<1>4. Races(req[q], s)
  BY ZenonT(30), <1>0, <1>2, <1>3, <1>a DEF Races, Hedged
<1>5. Result(s) = Result(req[q])
  BY <1>2 DEF Result
<1>6. s.pc = "stream" => s.last = "served" /\ req[q].pc # "done"
  BY Zenon, <1>2 DEF WalksInv, WalkInv
<1> QED BY Zenon, <1>0, <1>1, <1>2, <1>4, <1>5, <1>6, RacesGoes

LEMMA LegGoes ==
  ASSUME ReqsInv, WalksInv, NEW q \in Requests, NEW n \in DOMAIN NoLegs, Leg(q, n)
  PROVE  Goes(q)
<1>0. req[q].legs[n] # "none"
  BY ZenonT(30) DEF Leg, LegStarts, LegAnswers, LoserReports, HedgeWins, WinnerEnds
<1>a. Hedged(req[q]) /\ req[q].pc \notin Single /\ ReqInv(req[q])
  BY ZenonT(30), <1>0, LegIsHedged
<1>1. CASE LegStarts(q, n) \/ LegAnswers(q, n) \/ LoserReports(q, n)
  <2>1. PICK state \in {"calling", "opened", "failed", "over"} : SetLeg(q, n, state)
    BY Zenon, <1>1 DEF LegStarts, LegAnswers, LoserReports
  <2> QED BY ZenonT(30), <1>0, <2>1, SetLegGoes
<1>2. CASE HedgeWins(q, n)
  <2> DEFINE s == [req[q] EXCEPT !.pc = "stream", !.node = n, !.last = "served", !.legs[n] = "won"]
  <2>1. req[q].pc = "hedge" /\ req' = [req EXCEPT ![q] = s]
    BY <1>2 DEF HedgeWins
  <2>2. /\ s.pc = "stream" /\ s.last = "served" /\ s.legs = [req[q].legs EXCEPT ![n] = "won"]
        /\ s.chain = req[q].chain /\ s.i = req[q].i
        /\ s.classified = req[q].classified /\ s.skipped = req[q].skipped /\ s.gangless = req[q].gangless
        /\ s = [f \in Fields |-> s[f]]
    BY ZenonT(30), <1>a DEF ReqInv, Fields
  <2> HIDE DEF s
  <2>3. n \in DOMAIN s.legs /\ s.legs[n] = "won"
    BY ZenonT(30), <1>a, <2>2 DEF ReqInv
  <2>a. ReqInv(s)
    BY ZenonT(30), <1>a, <2>2 DEF ReqInv, Single
  <2>4. Races(req[q], s)
    BY ZenonT(30), <1>a, <2>2, <2>3, <2>a DEF Races, Hedged, Single
  <2>5. Result(req[q]) = "open" /\ Result(s) = "served"
    BY ZenonT(30), <2>1, <2>2 DEF Result
  <2> QED BY Zenon, <1>a, <2>1, <2>2, <2>4, <2>5, RacesGoes
<1>3. CASE WinnerEnds(q, n)
  <2> DEFINE s == [req[q] EXCEPT !.pc = "done", !.legs[n] = "over"]
  <2>1. req[q].pc = "stream" /\ req' = [req EXCEPT ![q] = s]
    BY <1>3 DEF WinnerEnds
  <2>2. /\ s.pc = "done" /\ s.last = req[q].last /\ s.legs = [req[q].legs EXCEPT ![n] = "over"]
        /\ s.chain = req[q].chain /\ s.i = req[q].i
        /\ s.classified = req[q].classified /\ s.skipped = req[q].skipped /\ s.gangless = req[q].gangless
        /\ s = [f \in Fields |-> s[f]]
    BY Zenon, <1>a DEF ReqInv, Fields
  <2> HIDE DEF s
  <2>3. n \in DOMAIN s.legs /\ s.legs[n] = "over"
    BY ZenonT(30), <1>a, <2>2 DEF ReqInv
  <2>a. ReqInv(s)
    BY <1>a, <2>2 DEF ReqInv, Single
  <2>4. Races(req[q], s)
    BY Zenon, <1>a, <2>2, <2>3, <2>a DEF Races, Hedged, Single
  <2>5. Result(req[q]) = "served" /\ Result(s) = "served"
    BY ZenonT(30), <2>1, <2>2 DEF Result, WalksInv, WalkInv
  <2> QED BY Zenon, <1>a, <2>1, <2>2, <2>4, <2>5, RacesGoes
<1> QED BY ZenonT(30), <1>1, <1>2, <1>3 DEF Leg

-----------------------------------------------------------------------------
(* Every step of the router *)

\* The request of a step, if it is a step of one.
LEMMA StepGoes ==
  ASSUME Configured, Enough, ReqsInv, WalksInv, Step
  PROVE  (\E q \in Requests : Goes(q)) \/ req' = req
<1>1. CASE \E q \in Requests : Walk(q)
  <2>1. PICK q \in Requests : Walk(q)
    BY ZenonT(30), <1>1
  <2>2. Goes(q)
    BY ZenonT(30), <2>1, BeginGoes, PickGoes, DispatchGoes, HandoffGoes, PrefillAnswersGoes, SucceedsGoes,
       HandoffFailsGoes, FailsGoes, RetryGoes, StreamEndsGoes, HedgeFailsGoes DEF Walk
  <2> QED BY <2>2
<1>2. CASE \E q \in Requests : ClientLeaves(q)
  BY <1>2 DEF ClientLeaves
<1>3. CASE \E q \in Requests, n \in DOMAIN NoLegs : Leg(q, n)
  BY ZenonT(30), <1>3, LegGoes
<1>4. CASE \E n \in Nodes : Fleet(n)
  <2>1. PICK n \in Nodes : Fleet(n)
    BY <1>4
  <2> QED BY ZenonT(30), <2>1 DEF Fleet, CooldownExpires, StatusChanges, Registers, ForgetRemote, InvalidateNode, PinExpires
<1>5. CASE \E m \in Models : InvalidateModel(m)
  BY ZenonT(30), <1>5 DEF InvalidateModel
<1>6. CASE Idle
  BY <1>6 DEF Idle
<1> QED BY ZenonT(30), <1>1, <1>2, <1>3, <1>4, <1>5, <1>6 DEF Step

LEMMA InitWalks == ASSUME Init PROVE ReqsInv /\ WalksInv
<1>0. req = [q \in Requests |-> Fresh]
  BY DEF Init
<1>1. ReqInv(Fresh)
  BY ZenonT(30), FreshFields, PlainReq
<1>2. ASSUME NEW q \in Requests PROVE WalkInv(q, Fresh)
  BY FreshFields DEF WalkInv, GanglessInv, Engaged
<1> QED BY ZenonT(30), <1>0, <1>1, <1>2 DEF ReqsInv, WalksInv

LEMMA NextWalks ==
  ASSUME Configured, Enough, ReqsInv, WalksInv, [Next]_vars
  PROVE  ReqsInv' /\ WalksInv' /\ [Promise!Next]_(Promise!vars)
<1>1. (\E q \in Requests : Goes(q)) \/ req' = req
  BY StepGoes DEF Next, vars
<1>2. CASE req' = req
  <2>1. WalksInv'
    BY Zenon, <1>2 DEF WalksInv, WalkInv, ChainInv, GanglessInv, Hedged
  <2>2. UNCHANGED Promise!vars
    BY <1>2 DEF Promise!vars, Asking, Result, Hedged
  <2>3. ReqsInv'
    BY Zenon, <1>2 DEF ReqsInv, ReqInv
  <2> QED BY <2>1, <2>2, <2>3
<1>3. CASE \E q \in Requests : Goes(q)
  <2>1. PICK q \in Requests : Goes(q)
    BY <1>3
  <2>2. PICK s : req' = [req EXCEPT ![q] = s] /\ ReqInv(s) /\ WalkInv(q, s) /\ Promised(req[q], s)
    BY Zenon, <2>1 DEF Goes
  <2>3. /\ req' = [o \in Requests |-> IF o = q THEN s ELSE req[o]]
        /\ \A o \in Requests : req'[o] = IF o = q THEN s ELSE req[o]
    BY ZenonT(30), <2>2 DEF ReqsInv
  <2>4. \A o \in Requests : WalkInv(o, req'[o])
    BY <2>2, <2>3 DEF WalksInv
  <2>5. WalksInv'
    BY Zenon, <2>4 DEF WalksInv, WalkInv, ChainInv, GanglessInv, Hedged
  <2>6. \A o \in Requests : ReqInv(req'[o])
    BY ZenonT(30), <2>2, <2>3 DEF ReqsInv
  <2>7. req' = [o \in Requests |-> req'[o]]
    BY <2>3
  <2>8. ReqsInv'
    BY Zenon, <2>6, <2>7 DEF ReqsInv, ReqInv
  <2> QED BY Zenon, <2>2, <2>5, <2>8, PromiseStep
<1> QED BY ZenonT(30), <1>1, <1>2, <1>3

\* The router implements what it promises its callers (Failover): a request asks
\* one target at a time, never again one that gave it nothing, goes along its
\* alternatives only forwards, and ends served by the target it was asking or
\* failed.  (That it ends at all is left to the model checker.)
THEOREM RouterKeepsPromise ==
  ASSUME Configured, Enough
  PROVE  Spec => Promise!Init /\ [][Promise!Next]_(Promise!vars)
<1>1. Init => ReqsInv /\ WalksInv
  BY InitWalks
<1>2. ReqsInv /\ WalksInv /\ [Next]_vars => ReqsInv' /\ WalksInv'
  BY NextWalks
<1>3. ReqsInv /\ WalksInv /\ [Next]_vars => [Promise!Next]_(Promise!vars)
  BY ZenonT(30), NextWalks
<1>4. Init => Promise!Init
  <2> SUFFICES ASSUME Init PROVE Promise!Init
    BY ZenonT(30)
  <2>1. \A q \in Requests : req[q] = Fresh
    BY DEF Init
  <2>2. /\ Fresh.i = 1 /\ Fresh.skipped = {} /\ Fresh.node = None /\ Fresh.legs = NoLegs /\ Fresh.pc = "new"
    BY ZenonT(30), FreshFields
  <2>3. Asking(Fresh) = None /\ Result(Fresh) = "open"
    BY ZenonT(30), <2>2, SingleView
  <2> QED BY ZenonT(30), <2>1, <2>2, <2>3 DEF Promise!Init
<1> QED BY <1>1, <1>2, <1>3, <1>4, PTL DEF Spec

-----------------------------------------------------------------------------
(* No worker is passed over *)

\* The workers that took requests ever since a request began still do, and it
\* has skipped none of them.
SteadyInv ==
  \A q \in Requests : /\ \A n \in steady[q] : n \in Nodes /\ TakesRequests(n)
                      /\ steady[q] \cap req[q].skipped = {}

LEMMA InitSteady == ASSUME Init PROVE SteadyInv
<1>1. ASSUME NEW q \in Requests
      PROVE  (\A n \in steady[q] : n \in Nodes /\ TakesRequests(n)) /\ steady[q] \cap req[q].skipped = {}
  <2>1. steady[q] = Nodes /\ req[q].skipped = {}
    BY Zenon DEF Init, Fresh
  <2>2. \A n \in Nodes : TakesRequests(n)
    BY DEF Init, TakesRequests, Serves
  <2> QED BY <2>1, <2>2
<1> QED BY ZenonT(30), <1>1 DEF SteadyInv

LEMMA NextSteady ==
  ASSUME Configured, Enough, ReqsInv, WalksInv, SteadyInv, [Next]_vars
  PROVE  SteadyInv'
<1>1. CASE UNCHANGED vars
  BY Zenon, <1>1 DEF vars, SteadyInv, TakesRequests, Serves
<1>2. CASE Next
  <2>1. steady' = [q \in Requests |->
          IF req[q].pc = "new" THEN {n \in Nodes : TakesRequests(n)'}
          ELSE {n \in steady[q] : TakesRequests(n) /\ TakesRequests(n)'}]
    BY Zenon, <1>2 DEF Next, Observe
  <2>2. \A n : TakesRequests(n)' => n \notin cooling'
    BY DEF TakesRequests
  <2>3. ASSUME NEW q \in Requests
        PROVE  /\ \A n \in steady'[q] : n \in Nodes /\ TakesRequests(n)'
               /\ steady'[q] \cap req'[q].skipped = {}
    <3>1. steady'[q] = IF req[q].pc = "new" THEN {n \in Nodes : TakesRequests(n)'}
                       ELSE {n \in steady[q] : TakesRequests(n) /\ TakesRequests(n)'}
      BY ZenonT(30), <2>1
    <3>2. \A n \in steady'[q] : n \in Nodes /\ TakesRequests(n)'
      BY Zenon, <3>1 DEF SteadyInv
    <3>3. steady'[q] \cap req[q].skipped = {}
      <4>1. CASE req[q].pc = "new"
        <5>1. req[q] = Fresh
          BY Zenon, <4>1 DEF WalksInv, WalkInv
        <5> QED BY <5>1, FreshFields
      <4>2. CASE req[q].pc # "new"
        BY ZenonT(30), <3>1, <4>2 DEF SteadyInv
      <4> QED BY ZenonT(30), <4>1, <4>2
    <3>4. \A t \in req'[q].skipped \ req[q].skipped : t \in Nodes => t \in cooling'
      <4>1. (\E o \in Requests : Goes(o)) \/ req' = req
        BY ZenonT(30), <1>2, StepGoes DEF Next
      <4>2. CASE \E o \in Requests : Goes(o)
        <5>1. PICK o \in Requests : Goes(o)
          BY <4>2
        <5>2. PICK s : /\ req' = [req EXCEPT ![o] = s]
                       /\ \A t \in s.skipped \ req[o].skipped : t \in Nodes => t \in cooling'
          BY Zenon, <5>1 DEF Goes
        <5>3. req'[q] = IF q = o THEN s ELSE req[q]
          BY <5>2 DEF ReqsInv
        <5> QED BY <5>2, <5>3
      <4> QED BY ZenonT(30), <4>1, <4>2
    <3> QED BY Zenon, <2>2, <3>2, <3>3, <3>4
  <2> QED BY Zenon, <2>3 DEF SteadyInv, TakesRequests, Serves
<1> QED BY <1>1, <1>2

LEMMA NextPassesNobody ==
  ASSUME Configured, Enough, ReqsInv, WalksInv, SteadyInv, Next
  PROVE  PassesNobodyOver
<1> SUFFICES ASSUME NEW q \in Requests, PassedOver(q), NEW n0 \in steady[q] \cap Range(Placed[Candidate(q)])
             PROVE  FALSE
  BY ZenonT(30) DEF PassesNobodyOver
<1>0. /\ req[q].pc = "pick" /\ q \notin gone /\ ReqInv(req[q]) /\ req[q].pc \in Single
      /\ WalkInv(q, req[q])
  BY ZenonT(30) DEF PassedOver, ReqsInv, WalksInv, Single
<1>1. req'[q] # req[q]
  BY Zenon, <1>0 DEF PassedOver
<1>2. Pick(q)
  <2>1. ASSUME NEW o \in Requests, Goes(o) PROVE o = q
    BY <1>1, <2>1 DEF Goes, ReqsInv
  <2>2. Step
    BY Zenon DEF Next
  <2>3. req' # req
    BY ZenonT(30), <1>1
  <2>4. CASE \E o \in Requests : Walk(o)
    <3>1. PICK o \in Requests : Walk(o)
      BY <2>4
    <3>2. Goes(o)
      BY Zenon, <3>1, BeginGoes, PickGoes, DispatchGoes, HandoffGoes, PrefillAnswersGoes, SucceedsGoes,
         HandoffFailsGoes, FailsGoes, RetryGoes, StreamEndsGoes, HedgeFailsGoes DEF Walk
    <3>3. Walk(q)
      BY ZenonT(30), <2>1, <3>1, <3>2
    <3> QED BY ZenonT(30), <1>0, <3>3 DEF Walk, Begin, Dispatch, Handoff, PrefillAnswers, Succeeds, HandoffFails,
                              Fails, Retry, StreamEnds, HedgeFails
  <2>5. CASE \E o \in Requests, n \in DOMAIN NoLegs : Leg(o, n)
    <3>1. PICK o \in Requests, n \in DOMAIN NoLegs : Leg(o, n)
      BY ZenonT(30), <2>5
    <3>2. o = q
      BY ZenonT(30), <2>1, <3>1, LegGoes
    <3>3. req[q].legs[n] # "none"
      BY <3>1, <3>2 DEF Leg, LegStarts, LegAnswers, LoserReports, HedgeWins, WinnerEnds
    <3> QED BY Zenon, <1>0, <3>3, LegIsHedged
  <2>6. CASE \E o \in Requests : ClientLeaves(o)
    BY Zenon, <2>3, <2>6 DEF ClientLeaves
  <2>7. CASE \E n \in Nodes : Fleet(n)
    <3>1. PICK n \in Nodes : Fleet(n)
      BY <2>7
    <3> QED BY ZenonT(30), <2>3, <3>1 DEF Fleet, CooldownExpires, StatusChanges, Registers, ForgetRemote, InvalidateNode, PinExpires
  <2>8. CASE \E m \in Models : InvalidateModel(m)
    BY Zenon, <2>3, <2>8 DEF InvalidateModel
  <2>9. CASE Idle
    BY Zenon, <2>3, <2>9 DEF Idle
  <2> QED BY Zenon, <2>2, <2>4, <2>5, <2>6, <2>7, <2>8, <2>9 DEF Step
<1> DEFINE m == Candidate(q)
<1>3. m \in Models
  BY Zenon, <1>0, CandidateModel
<1>4. GangsOf[m] = <<>> /\ m \notin req[q].gangless
  <2>1. Placed[m] # <<>>
    BY DEF Range
  <2>2. GangsOf[m] = <<>>
    BY ZenonT(30), <1>3, <2>1 DEF Configured
  <2> QED BY Zenon, <1>0, <1>3, <2>2 DEF WalkInv, GanglessInv
<1>5. n0 \in Range(Placed[m]) \ req[q].skipped /\ TakesRequests(n0)
  BY DEF SteadyInv
<1> HIDE DEF m
<1> DEFINE r(p) == [req[q] EXCEPT !.rev[m] = p.rev,
                      !.gangless = IF q \notin gone /\ SkipsAGang(q, m) THEN @ \cup {m} ELSE @]
<1>6. PICK p \in Picks(q, m) :
        req' = [req EXCEPT ![q] = IF p.node = None THEN Advance([r(p) EXCEPT !.last = "noworker"])
                                  ELSE [r(p) EXCEPT !.pc = "dispatch", !.node = p.node, !.addr = p.addr]]
  BY Zenon, <1>2 DEF Pick, m
<1>7. p.node \in Nodes \/ (p.node = Local /\ m \in LocalHas)
  BY Zenon, <1>0, <1>3, <1>4, <1>5, PicksAWorker
<1>8. p.node # None /\ (p.node = Local => m \in LocalHas)
  BY Zenon, <1>7 DEF Configured, Targets
<1>9. req'[q] = [r(p) EXCEPT !.pc = "dispatch", !.node = p.node, !.addr = p.addr]
  BY ZenonT(30), <1>6, <1>8 DEF ReqsInv
<1>10. req'[q].pc = "dispatch" /\ req'[q].node = p.node /\ req'[q].i = req[q].i
  BY <1>0, <1>9 DEF ReqInv, Fields
<1> QED BY ZenonT(30), <1>8, <1>10 DEF PassedOver, m

\* A worker that took requests during the whole life of a request is never
\* passed over by it (pick, takingRequests, withoutSkipped, decodeOnly,
\* pickRevisionGroup): with any number of workers, models and requests, neither
\* "no reachable worker left" nor the leader's own engine is the answer for a
\* model while such a worker has it.
THEOREM NobodyPassedOver ==
  ASSUME Configured, Enough
  PROVE  Spec => NoWorkerPassedOver
<1>1. Init => ReqsInv /\ WalksInv /\ SteadyInv
  BY ZenonT(30), InitWalks, InitSteady
<1>2. ReqsInv /\ WalksInv /\ SteadyInv /\ [Next]_vars => ReqsInv' /\ WalksInv' /\ SteadyInv'
  BY NextWalks, NextSteady
<1>3. ReqsInv /\ WalksInv /\ SteadyInv /\ [Next]_vars => [PassesNobodyOver]_vars
  BY NextPassesNobody
<1> QED BY <1>1, <1>2, <1>3, PTL DEF Spec, NoWorkerPassedOver
=============================================================================
