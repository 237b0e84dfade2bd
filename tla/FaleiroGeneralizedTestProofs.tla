-------------------- MODULE FaleiroGeneralizedTestProofs --------------------
(***************************************************************************)
(* The generalized coordinator's verification never reports an error in    *)
(* what the generalized program has learnt, for any number of processes    *)
(* and rounds, whatever messages are lost: what the verification means     *)
(* (GeneralizedVerificationProofs) is among what the program guarantees    *)
(* (FaleiroGeneralizedProofs).                                             *)
(***************************************************************************)
EXTENDS FaleiroGeneralizedTest, FaleiroGeneralizedProofs, GeneralizedVerificationProofs

(* A collection is a sequence of processes' own results.                   *)
LEMMA CollectionTyped ==
  ASSUME IInv, NEW collection \in Collections
  PROVE  /\ collection \in Seq([id : Procs, value : Seq(SUBSET AllValues)])
         /\ \A k \in DOMAIN collection :
              \E p \in Procs : collection[k].id = p /\ collection[k].value = results[p]
<1>1. PICK order \in SetToAllKPermutations(Finished) :
        collection = [k \in DOMAIN order |-> [id |-> order[k], value |-> results[order[k]]]]
  BY DEF Collections
<1>2. PICK s \in SUBSET Finished : order \in SetToSeqs(s)
  BY <1>1 DEF SetToAllKPermutations
<1>3. order \in [1..Cardinality(s) -> s]
  BY <1>2 DEF SetToSeqs
<1>4. s \subseteq Procs /\ Cardinality(s) \in Nat
  <2>1. s \subseteq Procs
    BY <1>2 DEF Finished
  <2>2. QED BY <2>1, GeneralizedAssumption, FS_Subset, FS_CardinalityType
<1>5. \A p \in Procs : results[p] \in Seq(SUBSET AllValues)
  BY DEF IInv, TypeInv
<1>6. DOMAIN collection = 1..Cardinality(s)
  BY <1>1, <1>3
<1>7. ASSUME NEW k \in 1..Cardinality(s)
      PROVE  /\ order[k] \in Procs
             /\ collection[k] = [id |-> order[k], value |-> results[order[k]]]
  BY <1>1, <1>3, <1>4
<1>8. collection \in [1..Cardinality(s) -> [id : Procs, value : Seq(SUBSET AllValues)]]
  <2>1. ASSUME NEW k \in 1..Cardinality(s)
        PROVE  collection[k] \in [id : Procs, value : Seq(SUBSET AllValues)]
    <3>1. order[k] \in Procs /\ results[order[k]] \in Seq(SUBSET AllValues)
      BY <1>5, <1>7
    <3>2. [id |-> order[k], value |-> results[order[k]]]
            \in [id : Procs, value : Seq(SUBSET AllValues)]
      BY <3>1
    <3>3. QED BY <1>7, <3>2, Zenon
  <2>2. collection = [k \in 1..Cardinality(s) |-> collection[k]]
    BY <1>1, <1>3
  <2>3. QED BY <2>1, <2>2
<1>9. collection \in Seq([id : Procs, value : Seq(SUBSET AllValues)])
  <2>1. collection \in UNION {[1..n -> [id : Procs, value : Seq(SUBSET AllValues)]] : n \in Nat}
    BY <1>4, <1>8, Zenon
  <2>2. QED BY <2>1, SeqDef, Zenon
<1>10. QED BY <1>6, <1>7, <1>9

(* In whatever order the results arrive, and whichever of them never do,   *)
(* the checks at the end of GLACoordinator log no error about them.        *)
THEOREM VerificationPasses == Spec => []NothingReported
<1>1. IInv /\ LearntChain /\ ResultsGrow => NothingReported
  <2> SUFFICES ASSUME IInv, LearntChain, ResultsGrow, NEW c \in Collections
               PROVE  Errors(c) = {}
    BY DEF NothingReported
  <2>1. /\ c \in Seq([id : Procs, value : Seq(SUBSET AllValues)])
        /\ \A k \in DOMAIN c :
             \E p \in Procs : c[k].id = p /\ c[k].value = results[p]
    BY CollectionTyped
  <2>2. \A p \in Procs : /\ results[p] \in Seq(SUBSET AllValues)
                         /\ Len(results[p]) \in Nat
                         /\ DOMAIN results[p] = 1..Len(results[p])
    BY LenProperties DEF IInv, TypeInv
  <2>3. InvalidPairs(c) = {}
    <3>1. ASSUME NEW v \in Reported(c) PROVE v \in Learnt
      <4>1. PICK k \in DOMAIN c : v \in Range(c[k].value)
        BY DEF Reported
      <4>2. PICK p \in Procs : c[k].value = results[p]
        BY <2>1
      <4>3. PICK i \in 1..Len(results[p]) : v = results[p][i]
        BY <2>2, <4>1, <4>2, RangeEquality
      <4>4. QED BY <4>3 DEF Learnt
    <3>2. \A v, w \in Reported(c) : Comparable(v, w)
      BY <3>1 DEF LearntChain
    <3>3. QED BY <2>1, <3>2, PairsMeaning
  <2>4. ~ ProposalIgnored(c)
    <3> SUFFICES ASSUME NEW k \in DOMAIN c, NEW i \in DOMAIN c[k].value
                 PROVE  c[k].value[i] # Bottom
      BY IgnoredMeaning
    <3>1. PICK p \in Procs : c[k].value = results[p]
      BY <2>1
    <3>2. InitialValue(p, i) \subseteq results[p][i]
      BY <2>2, <3>1 DEF ResultsGrow
    <3>3. QED BY <3>1, <3>2 DEF InitialValue, Bottom
  <2>5. ~ Decreasing(c)
    <3> SUFFICES ASSUME NEW k \in DOMAIN c, NEW i \in DOMAIN c[k].value
                 PROVE  Leq(Previous(c, k, i), c[k].value[i])
      BY DEF Decreasing
    <3>1. PICK p \in Procs : c[k].value = results[p]
      BY <2>1
    <3>2. i \in 1..Len(results[p])
      BY <2>2, <3>1
    <3>3. CASE i = 1
      BY <3>3 DEF Previous, Leq, Bottom
    <3>4. CASE i # 1
      <4>1. i > 1
        BY <2>2, <3>2, <3>4
      <4>2. Leq(results[p][i - 1], results[p][i])
        BY <3>2, <4>1 DEF ResultsGrow
      <4>3. QED BY <3>1, <3>4, <4>2 DEF Previous
    <3>5. QED BY <3>3, <3>4
  <2>6. QED BY <2>3, <2>4, <2>5 DEF Errors
<1>2. QED BY <1>1, Invariance, Agreement, ResultsSound, PTL
=============================================================================
