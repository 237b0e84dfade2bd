-------------------- MODULE GeneralizedVerificationProofs -------------------
(***************************************************************************)
(* What an error-free verification by GLACoordinator says about the        *)
(* results, for any number of clients and values of any lattice of sets.   *)
(*                                                                         *)
(* all_learnt is built by a loop, so these are proofs by induction: the    *)
(* set of counterexamples would have a least element.                      *)
(***************************************************************************)
EXTENDS GeneralizedVerification, SequenceTheorems, WellFoundedInduction, TLAPS

(* A non-empty set of natural numbers has a least element.                 *)
LEMMA LeastElement ==
  ASSUME NEW T \in SUBSET Nat, T # {}
  PROVE  \E n \in T : \A m \in T : ~ (m < n)
<1> DEFINE R == OpToRel(<, Nat)
<1>1. IsWellFoundedOn(R, Nat)
  BY NatLessThanWellFounded
<1>2. \A m, n \in Nat : m < n => <<m, n>> \in R
  BY DEF OpToRel
<1> HIDE DEF R
<1>3. \E n \in T : \A m \in T : <<m, n>> \notin R
  BY <1>1, WFMin
<1>4. QED BY <1>2, <1>3

-----------------------------------------------------------------------------
(* all_learnt.                                                             *)

\* f[i] is what the first i of the n sequences amount to.
Flattens(f, seqs, n) ==
  f = [i \in 1..n |-> IF i = 1 THEN seqs[i] ELSE f[i - 1] \o seqs[i]]

(* The recursion in the definition of FlattenSeq defines a function.       *)
LEMMA FlattenExists ==
  ASSUME NEW seqs, NEW n \in Nat \ {0}
  PROVE  \E f : Flattens(f, seqs, n)
<1> DEFINE T == {k \in Nat \ {0} : ~ \E f : Flattens(f, seqs, k)}
<1> SUFFICES ASSUME T # {} PROVE FALSE
  OBVIOUS
<1>1. PICK k \in T : \A m \in T : ~ (m < k)
  <2>1. T \in SUBSET Nat
    OBVIOUS
  <2> HIDE DEF T
  <2>2. QED BY <2>1, LeastElement
<1>2. k \in Nat /\ k >= 1 /\ ~ \E f : Flattens(f, seqs, k)
  OBVIOUS
<1>3. CASE k = 1
  <2> DEFINE f == [i \in 1..1 |-> seqs[i]]
  <2>1. Flattens(f, seqs, 1)
    BY DEF Flattens
  <2>2. QED BY <1>2, <1>3, <2>1
<1>4. CASE k > 1
  <2>1. k - 1 \in Nat \ {0} /\ k - 1 \notin T
    BY <1>1, <1>2, <1>4
  <2>2. PICK g : Flattens(g, seqs, k - 1)
    BY <2>1
  <2> DEFINE f == [i \in 1..k |-> IF i = k THEN g[k - 1] \o seqs[k] ELSE g[i]]
  <2>3. \A i \in 1..(k - 1) : g[i] = IF i = 1 THEN seqs[i] ELSE g[i - 1] \o seqs[i]
    BY <2>2 DEF Flattens
  <2>4. \A i \in 1..k : f[i] = IF i = 1 THEN seqs[i] ELSE f[i - 1] \o seqs[i]
    <3>1. f[k] = f[k - 1] \o seqs[k]
      <4>1. k \in 1..k /\ k - 1 \in 1..k /\ k - 1 # k
        BY <1>2, <1>4
      <4>2. f[k] = g[k - 1] \o seqs[k] /\ f[k - 1] = g[k - 1]
        BY <4>1, Zenon
      <4> HIDE DEF f
      <4>3. QED BY <4>2, Zenon
    <3>2. ASSUME NEW i \in 1..(k - 1)
          PROVE  f[i] = IF i = 1 THEN seqs[i] ELSE f[i - 1] \o seqs[i]
      <4>1. i \in 1..k /\ i # k /\ (i # 1 => i - 1 \in 1..k /\ i - 1 # k)
        BY <1>2, <1>4
      <4>2. f[i] = g[i] /\ (i # 1 => f[i - 1] = g[i - 1])
        BY <4>1, Zenon
      <4> HIDE DEF f
      <4>3. QED BY <2>3, <4>2
    <3> HIDE DEF f
    <3>3. \A i \in 1..k : i = k \/ i \in 1..(k - 1)
      BY <1>2
    <3>4. k # 1
      BY <1>2, <1>4
    <3>5. QED BY <3>1, <3>2, <3>3, <3>4, Zenon
  <2>5. f = [i \in 1..k |-> f[i]]
    OBVIOUS
  <2> HIDE DEF f
  <2>6. Flattens(f, seqs, k)
    BY <2>4, <2>5 DEF Flattens
  <2>7. QED BY <1>2, <2>6
<1>5. QED BY <1>2, <1>3, <1>4

(* So FlattenSeq is what the recursion says.                               *)
LEMMA FlattenUnfolds ==
  ASSUME NEW seqs, NEW n \in Nat \ {0}, Len(seqs) = n
  PROVE  \E f : Flattens(f, seqs, n) /\ FlattenSeq(seqs) = f[n]
<1> DEFINE g == CHOOSE f : f = [i \in 1..n |-> IF i = 1 THEN seqs[i] ELSE f[i - 1] \o seqs[i]]
<1>1. g = [i \in 1..n |-> IF i = 1 THEN seqs[i] ELSE g[i - 1] \o seqs[i]]
  BY FlattenExists DEF Flattens
<1>2. FlattenSeq(seqs) = g[n]
  BY DEF FlattenSeq
<1>3. QED BY <1>1, <1>2 DEF Flattens

(* A flattened sequence has the elements of its sequences, and no others.  *)
LEMMA FlattenElements ==
  ASSUME NEW S, NEW seqs \in Seq(Seq(S))
  PROVE  /\ FlattenSeq(seqs) \in Seq(S)
         /\ Range(FlattenSeq(seqs)) = UNION {Range(seqs[k]) : k \in 1..Len(seqs)}
<1> DEFINE n == Len(seqs)
<1>1. n \in Nat /\ \A k \in 1..n : seqs[k] \in Seq(S)
  BY LenProperties, ElementOfSeq
<1>2. CASE n = 0
  <2>1. seqs = <<>> /\ Len(seqs) = 0
    BY <1>2, EmptySeq
  <2>2. FlattenSeq(seqs) = seqs
    BY <2>1 DEF FlattenSeq
  <2>3. <<>> \in Seq(S) /\ Len(<<>>) = 0
    BY EmptySeq
  <2>4. Range(<<>>) = {<<>>[i] : i \in 1..Len(<<>>)}
    BY <2>3, RangeEquality
  <2>5. 1..0 = {}
    OBVIOUS
  <2>6. UNION {Range(seqs[k]) : k \in 1..Len(seqs)} = {}
    BY <2>1, <2>5, Zenon
  <2>7. Range(<<>>) = {}
    BY <2>3, <2>4, <2>5, Zenon
  <2>8. QED BY <2>1, <2>2, <2>3, <2>6, <2>7, Zenon
<1>3. CASE n # 0
  <2>1. PICK f : Flattens(f, seqs, n) /\ FlattenSeq(seqs) = f[n]
    BY <1>1, <1>3, FlattenUnfolds
  <2> HIDE DEF n
  <2>2. \A i \in 1..n : f[i] = IF i = 1 THEN seqs[i] ELSE f[i - 1] \o seqs[i]
    BY <2>1 DEF Flattens
  <2> DEFINE U(k) == UNION {Range(seqs[i]) : i \in 1..k}
             T == {k \in 1..n : ~ (f[k] \in Seq(S) /\ Range(f[k]) = U(k))}
  <2>3. T = {}
    <3> SUFFICES ASSUME T # {} PROVE FALSE
      OBVIOUS
    <3>1. PICK k \in T : \A m \in T : ~ (m < k)
      <4>1. T \in SUBSET Nat
        BY <1>1
      <4> HIDE DEF T
      <4>2. QED BY <4>1, LeastElement
    <3>2. k \in 1..n /\ ~ (f[k] \in Seq(S) /\ Range(f[k]) = U(k))
      OBVIOUS
    <3>3. CASE k = 1
      <4>1. f[1] = seqs[1] /\ seqs[1] \in Seq(S)
        <5> HIDE DEF T
        <5>1. 1 \in 1..n
          BY <3>2, <3>3
        <5>2. QED BY <1>1, <2>2, <5>1 DEF n
      <4>2. U(1) = Range(seqs[1])
        OBVIOUS
      <4>3. QED BY <3>2, <3>3, <4>1, <4>2
    <3>4. CASE k # 1
      <4>1. k - 1 \in 1..n /\ k - 1 \notin T
        <5> HIDE DEF T, U
        <5>1. k \in Nat /\ k - 1 \in 1..n /\ k - 1 < k
          BY <1>1, <3>2, <3>4
        <5>2. QED BY <3>1, <5>1
      <4>2. f[k - 1] \in Seq(S) /\ Range(f[k - 1]) = U(k - 1)
        BY <4>1
      <4>3. f[k] = f[k - 1] \o seqs[k] /\ seqs[k] \in Seq(S)
        BY <1>1, <2>2, <3>2, <3>4
      <4>4. f[k] \in Seq(S) /\ Range(f[k]) = Range(f[k - 1]) \cup Range(seqs[k])
        BY <4>2, <4>3, ConcatProperties, RangeConcatenation
      <4>5. 1..k = (1..(k - 1)) \cup {k}
        BY <1>1, <3>2
      <4>6. U(k) = U(k - 1) \cup Range(seqs[k])
        BY <4>5
      <4> HIDE DEF U
      <4>7. QED BY <3>2, <4>2, <4>4, <4>6
    <3>5. QED BY <3>3, <3>4
  <2>4. n \in 1..n
    BY <1>1, <1>3
  <2>5. f[n] \in Seq(S) /\ Range(f[n]) = U(n)
    BY <2>3, <2>4
  <2>6. QED BY <2>1, <2>5 DEF n
<1>4. QED BY <1>2, <1>3

-----------------------------------------------------------------------------
(* What each of the three checks says.                                     *)

\* The results are a sequence, each with a sequence of values of V.
WellFormed(results, V) ==
  /\ Len(results) \in Nat
  /\ DOMAIN results = 1..Len(results)
  /\ \A k \in DOMAIN results :
       /\ results[k].value \in Seq(V)
       /\ Len(results[k].value) \in Nat
       /\ DOMAIN results[k].value = 1..Len(results[k].value)

LEMMA ResultsTyped ==
  ASSUME NEW I, NEW V, NEW results \in Seq([id : I, value : Seq(V)])
  PROVE  WellFormed(results, V)
<1>1. Len(results) \in Nat /\ DOMAIN results = 1..Len(results)
  BY LenProperties
<1>2. ASSUME NEW k \in DOMAIN results
      PROVE  /\ results[k].value \in Seq(V)
             /\ Len(results[k].value) \in Nat
             /\ DOMAIN results[k].value = 1..Len(results[k].value)
  <2>1. results[k] \in [id : I, value : Seq(V)]
    BY <1>1, ElementOfSeq
  <2>2. results[k].value \in Seq(V)
    BY <2>1
  <2>3. QED BY <2>2, LenProperties
<1>3. QED BY <1>1, <1>2 DEF WellFormed

(* all_learnt holds the values of every result, and no others.             *)
LEMMA AllLearntElements ==
  ASSUME NEW I, NEW V, NEW results \in Seq([id : I, value : Seq(V)])
  PROVE  /\ AllLearnt(results) \in Seq(V)
         /\ Range(AllLearnt(results)) = UNION {Range(results[k].value) : k \in DOMAIN results}
<1> DEFINE seqs == [k \in DOMAIN results |-> results[k].value]
<1>1. /\ Len(results) \in Nat
      /\ DOMAIN results = 1..Len(results)
      /\ \A k \in DOMAIN results : results[k].value \in Seq(V)
  <2>1. WellFormed(results, V)
    BY ResultsTyped
  <2>2. QED BY <2>1 DEF WellFormed
<1>2. seqs \in Seq(Seq(V)) /\ Len(seqs) = Len(results)
  <2>1. seqs \in [1..Len(results) -> Seq(V)]
    BY <1>1
  <2> HIDE DEF seqs
  <2>2. seqs \in Seq(Seq(V))
    <3>1. seqs \in UNION {[1..n -> Seq(V)] : n \in Nat}
      BY <1>1, <2>1, Zenon
    <3>2. QED BY <3>1, SeqDef, Zenon
  <2>3. QED BY <1>1, <2>1, <2>2, LenProperties
<1>3. \A k \in DOMAIN results : seqs[k] = results[k].value
  OBVIOUS
<1>4. AllLearnt(results) = FlattenSeq(seqs)
  BY DEF AllLearnt
<1> HIDE DEF seqs
<1>5. /\ FlattenSeq(seqs) \in Seq(V)
      /\ Range(FlattenSeq(seqs)) = UNION {Range(seqs[k]) : k \in 1..Len(seqs)}
  BY <1>2, FlattenElements
<1>6. {Range(seqs[k]) : k \in DOMAIN results} = {Range(results[k].value) : k \in DOMAIN results}
  BY <1>3
<1>7. QED BY <1>1, <1>2, <1>4, <1>5, <1>6, Zenon

\* A value some result reports.
Reported(results) == UNION {Range(results[k].value) : k \in DOMAIN results}

(* No pair of indexes of all_learnt is reported exactly when any two of    *)
(* the values that the results report are comparable.                      *)
LEMMA PairsMeaning ==
  ASSUME NEW I, NEW V, NEW results \in Seq([id : I, value : Seq(V)])
  PROVE  InvalidPairs(results) = {} <=> \A a, b \in Reported(results) : Comparable(a, b)
<1> DEFINE all == AllLearnt(results)
<1>1. all \in Seq(V) /\ Range(all) = Reported(results)
  BY AllLearntElements DEF Reported
<1>2. InvalidPairs(results) =
        {ij \in (1..Len(all)) \X (1..Len(all)) : ~ Comparable(all[ij[1]], all[ij[2]])}
  BY DEF InvalidPairs
<1> HIDE DEF all
<1>3. Range(all) = {all[i] : i \in 1..Len(all)}
  BY <1>1, RangeEquality
<1>4. InvalidPairs(results) = {} <=> \A i, j \in 1..Len(all) : Comparable(all[i], all[j])
  <2>1. ASSUME InvalidPairs(results) = {}, NEW i \in 1..Len(all), NEW j \in 1..Len(all)
        PROVE  Comparable(all[i], all[j])
    <3>1. <<i, j>> \in (1..Len(all)) \X (1..Len(all)) /\ <<i, j>> \notin InvalidPairs(results)
      BY <2>1
    <3>2. QED BY <1>2, <3>1
  <2>2. ASSUME InvalidPairs(results) # {}
        PROVE  \E i, j \in 1..Len(all) : ~ Comparable(all[i], all[j])
    <3>1. PICK ij \in (1..Len(all)) \X (1..Len(all)) : ~ Comparable(all[ij[1]], all[ij[2]])
      BY <1>2, <2>2
    <3>2. QED BY <3>1
  <2>3. QED BY <2>1, <2>2
<1>5. QED BY <1>1, <1>3, <1>4

(* Nothing is reported as decreasing exactly when the values of every      *)
(* result only grow: the comparison of neighbours, with prev reset from    *)
(* client to client, covers all the pairs of one client.                   *)
LEMMA GrowthMeaning ==
  ASSUME NEW I, NEW V, NEW results \in Seq([id : I, value : Seq(V)])
  PROVE  ~ Decreasing(results) <=>
           \A k \in DOMAIN results : \A i, j \in DOMAIN results[k].value :
             i <= j => Leq(results[k].value[i], results[k].value[j])
<1>1. \A k \in DOMAIN results : /\ Len(results[k].value) \in Nat
                                /\ DOMAIN results[k].value = 1..Len(results[k].value)
  <2>1. WellFormed(results, V)
    BY ResultsTyped
  <2>2. QED BY <2>1 DEF WellFormed
<1>2. ASSUME ~ Decreasing(results), NEW k \in DOMAIN results,
             NEW i \in DOMAIN results[k].value, NEW j \in DOMAIN results[k].value, i <= j
      PROVE  Leq(results[k].value[i], results[k].value[j])
  <2> DEFINE v == results[k].value
             n == Len(v)
             T == {m \in 1..n : i <= m /\ ~ Leq(v[i], v[m])}
  <2>1. n \in Nat /\ i \in 1..n /\ j \in 1..n
    BY <1>1, <1>2
  <2>2. \A m \in 1..n : m # 1 => Leq(v[m - 1], v[m])
    BY <1>1, <1>2 DEF Decreasing, Previous
  <2> HIDE DEF v, n
  <2>3. SUFFICES ASSUME T # {} PROVE FALSE
    BY <1>2, <2>1 DEF v
  <2>4. PICK m \in T : \A l \in T : ~ (l < m)
    <3>1. T \in SUBSET Nat
      BY <2>1
    <3> HIDE DEF T
    <3>2. QED BY <2>3, <3>1, LeastElement
  <2>5. m \in 1..n /\ i <= m /\ ~ Leq(v[i], v[m])
    OBVIOUS
  <2>6. m # i
    BY <2>5 DEF Leq
  <2>7. m - 1 \in 1..n /\ i <= m - 1 /\ m - 1 < m /\ m # 1
    BY <2>1, <2>5, <2>6
  <2>8. m - 1 \notin T
    <3> HIDE DEF T
    <3>1. QED BY <2>4, <2>7
  <2>9. Leq(v[i], v[m - 1])
    BY <2>7, <2>8
  <2>10. Leq(v[m - 1], v[m])
    BY <2>2, <2>5, <2>7
  <2>11. QED BY <2>5, <2>9, <2>10 DEF Leq
<1>3. ASSUME \A k \in DOMAIN results : \A i, j \in DOMAIN results[k].value :
               i <= j => Leq(results[k].value[i], results[k].value[j]),
             NEW k \in DOMAIN results, NEW i \in DOMAIN results[k].value
      PROVE  Leq(Previous(results, k, i), results[k].value[i])
  <2>1. CASE i = 1
    BY <2>1 DEF Previous, Leq, Bottom
  <2>2. CASE i # 1
    <3>1. i - 1 \in DOMAIN results[k].value /\ i - 1 <= i
      BY <1>1, <2>2
    <3>2. QED BY <1>3, <2>2, <3>1 DEF Previous
  <2>3. QED BY <2>1, <2>2
<1>4. QED BY <1>2, <1>3 DEF Decreasing

(* A proposal of the test is a single number, so only the empty set is     *)
(* below it: a value is reported as ignoring its proposal exactly when it  *)
(* is empty.  A value that holds other numbers only passes this check.     *)
LEMMA IgnoredMeaning ==
  ASSUME NEW results
  PROVE  ProposalIgnored(results) <=>
           \E k \in DOMAIN results : \E i \in DOMAIN results[k].value :
             results[k].value[i] = Bottom
<1>1. \A x, p, i : Less(x, Proposed(p, i)) <=> x = Bottom
  BY DEF Less, Leq, Proposed, Bottom
<1>2. QED BY <1>1 DEF ProposalIgnored

(* Without an error logged, the results are the values of one chain, each  *)
(* client's in order and none of them empty, and conversely.               *)
THEOREM VerdictMeaning ==
  ASSUME NEW I, NEW V, NEW results \in Seq([id : I, value : Seq(V)])
  PROVE  Errors(results) = {} <=>
           /\ \A a, b \in Reported(results) : Comparable(a, b)
           /\ \A k \in DOMAIN results : \A i, j \in DOMAIN results[k].value :
                i <= j => Leq(results[k].value[i], results[k].value[j])
           /\ Bottom \notin Reported(results)
<1>1. Errors(results) = {} <=>
        /\ ~ ProposalIgnored(results)
        /\ ~ Decreasing(results)
        /\ InvalidPairs(results) = {}
  BY DEF Errors
<1>2. ProposalIgnored(results) <=> Bottom \in Reported(results)
  <2>1. \A k \in DOMAIN results : /\ results[k].value \in Seq(V)
                                  /\ DOMAIN results[k].value = 1..Len(results[k].value)
    <3>1. WellFormed(results, V)
      BY ResultsTyped
    <3>2. QED BY <3>1 DEF WellFormed
  <2>2. ASSUME NEW k \in DOMAIN results
        PROVE  Range(results[k].value) = {results[k].value[i] : i \in DOMAIN results[k].value}
    <3> DEFINE v == results[k].value
    <3>1. v \in Seq(V) /\ DOMAIN v = 1..Len(v)
      BY <2>1, Zenon
    <3> HIDE DEF v
    <3>2. Range(v) = {v[i] : i \in DOMAIN v}
      BY <3>1, RangeEquality
    <3>3. QED BY <3>2 DEF v
  <2>3. Bottom \in Reported(results) <=>
          \E k \in DOMAIN results : Bottom \in Range(results[k].value)
    BY DEF Reported
  <2>4. ASSUME NEW k \in DOMAIN results
        PROVE  Bottom \in Range(results[k].value) <=>
                 \E i \in DOMAIN results[k].value : results[k].value[i] = Bottom
    BY <2>2
  <2> HIDE DEF Reported
  <2>5. ProposalIgnored(results) <=>
          \E k \in DOMAIN results : \E i \in DOMAIN results[k].value :
            results[k].value[i] = Bottom
    BY IgnoredMeaning
  <2>6. QED BY <2>3, <2>4, <2>5, Zenon
<1>3. QED BY <1>1, <1>2, PairsMeaning, GrowthMeaning

=============================================================================
