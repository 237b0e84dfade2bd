---------------------- MODULE FaleiroGeneralizedProofs ---------------------
(***************************************************************************)
(* Proofs about FaleiroGeneralized for any finite set of processes, any    *)
(* number of values of each and any pattern of lost messages.              *)
(***************************************************************************)
EXTENDS FaleiroGeneralizedInv, FiniteSetTheorems, TLAPS

USE DEF Leq, Less, Join, Bottom, Grown

-----------------------------------------------------------------------------
(* Finite sets and majorities.                                             *)

(* Every set of processes is finite and has at most N elements.            *)
LEMMA ProcSets ==
  ASSUME NEW S, S \subseteq Procs
  PROVE  IsFiniteSet(S) /\ Cardinality(S) \in Nat /\ Cardinality(S) <= N /\ N \in Nat
BY GeneralizedAssumption, FS_Subset, FS_CardinalityType DEF N

(* (N + 2) / 2 is a strict majority of N, for even and for odd N.          *)
LEMMA MajorityType == Majority \in Nat /\ Majority + Majority > N /\ Majority >= 1 /\ N \in Nat
<1>1. N \in Nat
  BY ProcSets
<1>2. QED BY <1>1 DEF Majority

(* Two sets of a majority of the processes share one.                      *)
LEMMA QuorumsMeet ==
  ASSUME NEW S, NEW T, S \subseteq Procs, T \subseteq Procs,
         Cardinality(S) >= Majority, Cardinality(T) >= Majority
  PROVE  \E a \in Procs : a \in S /\ a \in T
<1>1. Cardinality(S) \in Nat /\ Cardinality(T) \in Nat /\ N \in Nat
  BY ProcSets
<1>2. Cardinality(S) + Cardinality(T) > Cardinality(Procs)
  BY <1>1, MajorityType DEF N
<1>3. S \cap T # {}
  BY <1>2, GeneralizedAssumption, FS_MajoritiesIntersect
<1>4. QED BY <1>3

(* There are finitely many values.                                         *)
LEMMA ValuesFinite == IsFiniteSet(AllValues)
<1> DEFINE Of(p) == {<<p, i>> : i \in 1..Rounds[p]}
           Sets == {Of(p) : p \in Procs}
<1>1. IsFiniteSet(Sets)
  <2> DEFINE f == [p \in Procs |-> Of(p)]
  <2>1. f \in Surjection(Procs, Sets)
    BY DEF Surjection
  <2>2. QED BY <2>1, GeneralizedAssumption, FS_Surjection
<1>2. ASSUME NEW p \in Procs PROVE IsFiniteSet(Of(p))
  <2> DEFINE I == 1..Rounds[p]
             g == [i \in I |-> <<p, i>>]
  <2>1. Rounds[p] \in Int /\ 1 \in Int
    BY GeneralizedAssumption
  <2>2. IsFiniteSet(I)
    BY <2>1, FS_Interval
  <2>3. g \in Surjection(I, Of(p))
    BY DEF Surjection
  <2>4. QED BY <2>2, <2>3, FS_Surjection
<1>3. \A S \in Sets : IsFiniteSet(S)
  BY <1>2
<1>4. IsFiniteSet(UNION Sets)
  BY <1>1, <1>3, FS_UNION
<1>5. QED BY <1>4 DEF AllValues

(* Sets of values are finite, and no larger than all values together.      *)
LEMMA ValueSets ==
  ASSUME NEW S, S \subseteq AllValues
  PROVE  IsFiniteSet(S) /\ Cardinality(S) \in Nat /\ Cardinality(S) <= Cardinality(AllValues)
         /\ Cardinality(AllValues) \in Nat
BY ValuesFinite, FS_Subset, FS_CardinalityType

(* A strictly larger value has strictly more elements.                     *)
LEMMA StrictGrowth ==
  ASSUME NEW S, NEW T, Less(S, T), T \subseteq AllValues
  PROVE  Cardinality(S) + 1 <= Cardinality(T)
<1>1. IsFiniteSet(T) /\ S \in SUBSET T /\ S # T
  BY ValueSets
<1>2. Cardinality(S) <= Cardinality(T) /\ Cardinality(S) # Cardinality(T)
  BY <1>1, FS_Subset
<1>3. Cardinality(S) \in Nat /\ Cardinality(T) \in Nat
  BY <1>1, ValueSets
<1>4. QED BY <1>2, <1>3

(* Messages that come from different processes are as many as those.       *)
LEMMA OnePerProcess ==
  ASSUME NEW M, \A m \in M : m.from \in Procs,
         \A m1, m2 \in M : m1.from = m2.from => m1 = m2
  PROVE  /\ IsFiniteSet(M) /\ Cardinality(M) \in Nat /\ Cardinality(M) <= N
         /\ Cardinality(M) = Cardinality({m.from : m \in M})
<1> DEFINE S == {m.from : m \in M}
           f == [m \in M |-> m.from]
<1>1. S \subseteq Procs
  OBVIOUS
<1>2. IsFiniteSet(S) /\ Cardinality(S) <= N
  BY <1>1, ProcSets
<1>3. f \in Injection(M, S) /\ f \in Surjection(M, S)
  BY DEF Injection, Surjection, IsInjective
<1> HIDE DEF f, S
<1>4. IsFiniteSet(M) /\ Cardinality(M) = Cardinality(S)
  BY <1>2, <1>3, FS_Injection
<1>5. QED BY <1>1, <1>2, <1>4, ProcSets DEF S

-----------------------------------------------------------------------------
(* What the parts of the invariant depend on.                              *)

(* SentValue(p) is the value of the message that carries the proposal.     *)
LEMMA SentValueIs ==
  ASSUME NumberInv, NEW p, NEW m \in msgs, IsProposal(m),
         About(m, p, active_proposal_number[p])
  PROVE  SentValue(p) = m.value
<1>1. {x \in msgs : /\ x.type = "proposal"
                    /\ x.proposer = p
                    /\ x.num = active_proposal_number[p]} = {m}
  BY DEF NumberInv, IsProposal, About
<1>2. QED BY <1>1 DEF SentValue

(* Other messages do not change what p last proposed.                      *)
LEMMA SentValueStable ==
  ASSUME NEW p, active_proposal_number'[p] = active_proposal_number[p],
         NEW R, msgs' = msgs \cup R,
         \A x \in R : ~ (IsProposal(x) /\ About(x, p, active_proposal_number[p]))
  PROVE  SentValue(p)' = SentValue(p)
<1>1. {y \in msgs' : /\ y.type = "proposal"
                     /\ y.proposer = p
                     /\ y.num = active_proposal_number'[p]}
      = {y \in msgs : /\ y.type = "proposal"
                      /\ y.proposer = p
                      /\ y.num = active_proposal_number[p]}
  BY DEF IsProposal, About
<1>2. QED BY <1>1 DEF SentValue

(* What a majority acknowledged stays acknowledged.                        *)
LEMMA AcknowledgedStable ==
  ASSUME msgs \subseteq msgs'
  PROVE  \A v : Acknowledged(v) => Acknowledged(v)'
<1> SUFFICES ASSUME NEW v, Acknowledged(v) PROVE Acknowledged(v)'
  OBVIOUS
<1>1. PICK Q \in SUBSET Procs :
        /\ Cardinality(Q) >= Majority
        /\ \A a \in Q : \E r \in msgs : r.type = "ack" /\ r.from = a /\ r.value = v
  BY DEF Acknowledged
<1>2. \A a \in Q : \E r \in msgs' : r.type = "ack" /\ r.from = a /\ r.value = v
  BY <1>1
<1>3. QED BY <1>1, <1>2 DEF Acknowledged

(* What was submitted stays submitted.                                     *)
LEMMA SubmittedGrows ==
  ASSUME round \in [Procs -> Nat], round' \in [Procs -> Nat],
         \A p \in Procs : round[p] <= round'[p]
  PROVE  Submitted \subseteq Submitted'
BY DEF Submitted

(* No new messages: nothing that is said about messages changes.           *)
LEMMA MessagesKept ==
  ASSUME IInv, UNCHANGED <<msgs, active_proposal_number, accepted_value>>,
         \A q \in Procs : received[q] \subseteq received'[q]
  PROVE  /\ NumberInv' /\ ReplyInv' /\ AcksFormChain' /\ ProposalsGrow'
         /\ \A q \in Procs : SentValue(q)' = SentValue(q)
<1>1. NumberInv'
  BY DEF IInv, NumberInv, IsProposal, About
<1>2. ReplyInv'
  <2>1. \A r \in msgs : r.from \in Procs
    BY DEF IInv, TypeInv, Messages
  <2>2. \A r \in msgs : IsReply(r) => \E x \in received'[r.from] : Answers(r, x)
    BY <2>1 DEF IInv, ReplyInv
  <2>3. QED BY <2>2 DEF IInv, ReplyInv, IsReply, Answers, CopyOf, About, IsProposal
<1>3. AcksFormChain' /\ ProposalsGrow'
  BY DEF IInv, AcksFormChain, ProposalsGrow, Proposals, Comparable
<1>4. \A q \in Procs : SentValue(q)' = SentValue(q)
  BY DEF SentValue
<1>5. QED BY <1>1, <1>2, <1>3, <1>4

(* Whoever has learnt nothing new knows what it knew.                      *)
LEMMA LearntKept ==
  ASSUME IInv, UNCHANGED <<learnt_value, results>>, msgs \subseteq msgs'
  PROVE  LearntInv' /\ ResultsGrow'
<1>1. ResultsGrow'
  BY DEF IInv, ResultsGrow, InitialValue
<1>2. LearntInv'
  BY AcknowledgedStable DEF IInv, LearntInv
<1>3. QED BY <1>1, <1>2

(* Nothing handled: the counters stay right.                               *)
LEMMA CountKept ==
  ASSUME IInv, UNCHANGED <<received, active_proposal_number, ack_count, nack_count, learn_count>>
  PROVE  CountInv'
<1>1. /\ \A q, t : Answered(q, t)' = Answered(q, t)
      /\ \A q, u, i : Copies(q, u, i)' = Copies(q, u, i)
  BY DEF Answered, Copies
<1>2. CountInv
  BY DEF IInv
<1>3. QED BY <1>1, <1>2 DEF CountInv, IsReply

-----------------------------------------------------------------------------
(* The initial states, and the steps of the main thread.                   *)

(* The invariant holds initially.                                          *)
LEMMA InitIInv == Init => IInv
<1> SUFFICES ASSUME Init PROVE IInv
  OBVIOUS
<1>1. TypeInv
  BY DEF Init, TypeInv
<1>2. PhaseInv
  BY GeneralizedAssumption DEF Init, PhaseInv
<1>3. NumberInv /\ ReplyInv /\ AcksFormChain /\ ProposalsGrow
  BY DEF Init, NumberInv, ReplyInv, AcksFormChain, ProposalsGrow, Proposals
<1>4. \A p \in Procs : SentValue(p) = {}
  BY DEF Init, SentValue
<1>5. CountInv
  <2>1. /\ \A p \in Procs, t \in Types : Answered(p, t) = {}
        /\ \A p, q \in Procs, i \in Numbers : Copies(p, q, i) = {}
    BY DEF Init, Answered, Copies
  <2>2. QED BY <2>1, FS_EmptySet DEF Init, CountInv, Types
<1>6. ValueInv
  <2>1. \A p \in Procs : SentValue(p) = {} /\ Cardinality(SentValue(p)) = 0
    BY <1>4, FS_EmptySet
  <2>2. QED BY <2>1 DEF Init, ValueInv
<1>7. OriginInv /\ LearntInv /\ ResultsGrow
  BY DEF Init, OriginInv, LearntInv, ResultsGrow
<1>8. QED BY <1>1, <1>2, <1>3, <1>5, <1>6, <1>7 DEF IInv

(* A step that only concerns where the main thread is and what it returned. *)
LEMMA QuietStep ==
  ASSUME IInv, TypeInv', PhaseInv', LearntInv', ResultsGrow',
         UNCHANGED <<round, counters, active_proposal_number, proposed_value,
                     buffered_values, accepted_value, learnerVars, netVars>>
  PROVE  IInv'
<1> USE DEF counters, learnerVars, netVars
<1>1. /\ NumberInv' /\ ReplyInv' /\ AcksFormChain' /\ ProposalsGrow'
      /\ \A q \in Procs : SentValue(q)' = SentValue(q)
  BY MessagesKept
<1>2. CountInv'
  BY CountKept
<1>3. ValueInv'
  BY <1>1 DEF IInv, ValueInv
<1>4. OriginInv'
  BY DEF IInv, OriginInv, Submitted
<1>5. QED BY <1>1, <1>2, <1>3, <1>4 DEF IInv

(* Stuttering preserves the invariant.                                     *)
LEMMA StutterStep == ASSUME IInv, UNCHANGED vars PROVE IInv'
<1> USE DEF vars, mainVars, proposerVars, counters, learnerVars, netVars
<1>1. TypeInv' /\ PhaseInv'
  BY DEF IInv, TypeInv, PhaseInv
<1>2. LearntInv' /\ ResultsGrow'
  BY LearntKept
<1>3. QED BY <1>1, <1>2, QuietStep

(* start() waits, wakes up for nothing or ends; learn_value waits.         *)
LEMMA WaitingStep ==
  ASSUME IInv, NEW p \in Procs,
         ProposeNothing(p) \/ Decide(p) \/ WaitAgain(p) \/ AwaitLearnt(p)
  PROVE  IInv'
<1> USE DEF proposerVars, counters, learnerVars, netVars
<1>1. /\ UNCHANGED <<round, results, counters, active_proposal_number, proposed_value,
                     buffered_values, accepted_value, learnerVars, netVars>>
      /\ pc[p] # "next" /\ pc' \in [Procs -> {"next", "start", "waiting", "learn", "learning"}]
      /\ pc'[p] # "next" /\ \A q \in Procs \ {p} : pc'[q] = pc[q]
      /\ notified' \in [Procs -> BOOLEAN] /\ status' \in [Procs -> {"Passive", "Active"}]
  BY DEF ProposeNothing, Decide, WaitAgain, AwaitLearnt, IInv, TypeInv
<1>2. TypeInv'
  BY <1>1 DEF IInv, TypeInv
<1>3. PhaseInv'
  BY <1>1 DEF IInv, PhaseInv
<1>4. LearntInv' /\ ResultsGrow'
  BY <1>1, LearntKept
<1>5. QED BY <1>1, <1>2, <1>3, <1>4, QuietStep

(* learn_value returns: a result above the value of this round and above   *)
(* the results before.                                                     *)
LEMMA LearnValueStep == ASSUME IInv, NEW p \in Procs, LearnValue(p) PROVE IInv'
<1> USE DEF proposerVars, counters, learnerVars, netVars
<1> DEFINE n == Len(results[p])
<1>1. /\ results[p] \in Seq(SUBSET AllValues) /\ learnt_value[p] \in SUBSET AllValues
      /\ n \in Nat
  BY DEF IInv, TypeInv
<1>2. /\ results'[p] = Append(results[p], learnt_value[p])
      /\ \A q \in Procs \ {p} : results'[q] = results[q]
      /\ UNCHANGED <<round, learnt_value, msgs>>
  BY DEF LearnValue, IInv, TypeInv
<1>3. /\ Len(results'[p]) = n + 1 /\ results'[p] \in Seq(SUBSET AllValues)
      /\ \A i \in 1..n : results'[p][i] = results[p][i]
      /\ results'[p][n + 1] = learnt_value[p]
  BY <1>1, <1>2
<1>4. TypeInv'
  <2>1. results' \in [Procs -> Seq(SUBSET AllValues)]
    BY <1>1 DEF LearnValue, IInv, TypeInv
  <2>2. QED BY <2>1 DEF LearnValue, IInv, TypeInv
<1>5. pc[p] # "next" /\ pc'[p] = "next" /\ \A q \in Procs \ {p} : pc'[q] = pc[q]
  BY DEF LearnValue, IInv, TypeInv
<1>6. PhaseInv' /\ round[p] = n + 1
  <2>1. round[p] = n + 1
    BY <1>5 DEF IInv, PhaseInv
  <2>2. QED BY <1>2, <1>3, <1>5, <2>1 DEF IInv, PhaseInv
<1>7. LearntInv'
  <2>1. \A v : Acknowledged(v) => Acknowledged(v)'
    BY <1>2, AcknowledgedStable
  <2>2. \A i \in 1..Len(results'[p]) : i \in 1..n \/ i = n + 1
    BY <1>1, <1>3
  <2>3. /\ \A q \in Procs : learnt_value[q] # Bottom => Acknowledged(learnt_value[q])
        /\ \A q \in Procs : \A i \in 1..Len(results[q]) :
             /\ Leq(results[q][i], learnt_value[q])
             /\ results[q][i] # Bottom => Acknowledged(results[q][i])
    BY DEF IInv, LearntInv
  <2>4. ASSUME NEW q \in Procs, NEW i \in 1..Len(results'[q])
        PROVE  /\ Leq(results'[q][i], learnt_value[q])
               /\ results'[q][i] # Bottom => Acknowledged(results[q][i])'
    <3>1. CASE q # p
      BY <1>2, <2>1, <2>3, <3>1
    <3>2. CASE q = p /\ i \in 1..n
      <4>1. results'[q][i] = results[q][i]
        BY <1>3, <3>2
      <4>2. QED BY <2>1, <2>3, <3>2, <4>1
    <3>3. CASE q = p /\ i = n + 1
      <4>1. results'[q][i] = learnt_value[p]
        BY <1>3, <3>3
      <4>2. QED BY <2>1, <2>3, <3>3, <4>1
    <3>4. QED BY <2>2, <3>1, <3>2, <3>3
  <2>5. QED BY <1>2, <2>1, <2>3, <2>4 DEF LearntInv
<1>8. ResultsGrow'
  <2> SUFFICES ASSUME NEW q \in Procs, NEW i \in 1..Len(results'[q])
               PROVE  /\ InitialValue(q, i) \subseteq results'[q][i]
                      /\ i > 1 => Leq(results'[q][i - 1], results'[q][i])
    BY DEF ResultsGrow, InitialValue
  <2>1. CASE q # p
    BY <1>2, <2>1 DEF IInv, ResultsGrow
  <2>2. CASE q = p /\ i \in 1..n
    <3>1. i \in 1..Len(results[p]) /\ (i > 1 => i - 1 \in 1..n)
      BY <1>1, <2>2
    <3>2. /\ InitialValue(p, i) \subseteq results[p][i]
          /\ i > 1 => Leq(results[p][i - 1], results[p][i])
      BY <3>1 DEF IInv, ResultsGrow
    <3>3. QED BY <1>3, <2>2, <3>1, <3>2
  <2>3. CASE q = p /\ i = n + 1
    <3>1. InitialValue(p, n + 1) \subseteq learnt_value[p]
      BY <1>6 DEF LearnValue, HasLearnt
    <3>2. i > 1 => i - 1 \in 1..n
      BY <1>1, <2>3
    <3>3. i > 1 => Leq(results[p][i - 1], learnt_value[p])
      BY <3>2 DEF IInv, LearntInv
    <3>4. QED BY <1>3, <2>3, <3>1, <3>2, <3>3
  <2>4. QED BY <1>1, <1>3, <2>1, <2>2, <2>3
<1>9. QED BY <1>4, <1>6, <1>7, <1>8, QuietStep DEF LearnValue

(* New messages that are no proposals.                                     *)
LEMMA NoNewProposals ==
  ASSUME IInv, UNCHANGED active_proposal_number, NEW R, msgs' = msgs \cup R,
         \A x \in R : /\ ~ IsProposal(x)
                      /\ x.type # "internal" =>
                           1 <= x.num /\ x.num <= active_proposal_number[x.proposer]
  PROVE  NumberInv' /\ ProposalsGrow' /\ \A q \in Procs : SentValue(q)' = SentValue(q)
<1>1. NumberInv'
  BY DEF IInv, NumberInv, IsProposal, About
<1>2. \A q : Proposals(q)' = Proposals(q)
  BY DEF Proposals, IsProposal
<1>3. ProposalsGrow'
  BY <1>2 DEF IInv, ProposalsGrow
<1>4. \A q \in Procs : SentValue(q)' = SentValue(q)
  BY SentValueStable
<1>5. QED BY <1>1, <1>3, <1>4

(* receive_value shares the next value and buffers it.                     *)
LEMMA ReceiveValueStep == ASSUME IInv, NEW p \in Procs, ReceiveValue(p) PROVE IInv'
<1> USE DEF counters, learnerVars
<1> DEFINE value == InitialValue(p, round[p] + 1)
           x == Message("internal", 0, value, p, p)
<1>1. TypeInv /\ round[p] \in Nat /\ Rounds[p] \in Nat /\ round[p] + 1 <= Rounds[p]
  <2>1. TypeInv /\ round[p] \in Nat /\ Rounds[p] \in Nat
    BY GeneralizedAssumption DEF IInv, TypeInv
  <2>2. round[p] < Rounds[p]
    BY DEF ReceiveValue
  <2>3. QED BY <2>1, <2>2
<1>2. value \subseteq AllValues
  BY <1>1 DEF AllValues, InitialValue
<1>3. x \in Messages
  BY <1>2 DEF Message, Messages, Types
<1>4. msgs' = msgs \cup {x}
  BY DEF ReceiveValue, Send
<1>5. /\ round' = [round EXCEPT ![p] = round[p] + 1]
      /\ buffered_values' = [buffered_values EXCEPT ![p] = Join(value, buffered_values[p])]
      /\ pc[p] = "next" /\ pc' = [pc EXCEPT ![p] = "start"]
      /\ UNCHANGED <<results, notified, status, counters, active_proposal_number,
                     proposed_value, accepted_value, learnerVars, received>>
  BY DEF ReceiveValue
<1>6. x.type = "internal" /\ x.value = value
  BY DEF Message
<1> HIDE DEF x
<1>7. TypeInv'
  BY SMTT(20), <1>1, <1>2, <1>3, <1>4, <1>5 DEF TypeInv
<1>8. PhaseInv'
  BY <1>1, <1>5 DEF IInv, TypeInv, PhaseInv
<1>9. NumberInv' /\ ProposalsGrow' /\ \A q \in Procs : SentValue(q)' = SentValue(q)
  <2> DEFINE R == {x}
  <2>1. msgs' = msgs \cup R /\ \A y \in R : ~ IsProposal(y) /\ y.type = "internal"
    BY <1>4, <1>6 DEF IsProposal
  <2> HIDE DEF R
  <2>2. QED BY <1>5, <2>1, NoNewProposals
<1>10. ReplyInv' /\ AcksFormChain'
  BY <1>4, <1>5, <1>6 DEF IInv, ReplyInv, AcksFormChain, IsReply, IsProposal, Answers, CopyOf, About,
                          Comparable
<1>11. CountInv'
  BY <1>5, CountKept
<1>12. ValueInv'
  BY <1>5, <1>9 DEF IInv, ValueInv
<1>13. OriginInv'
  <2>1. Submitted \subseteq Submitted'
    BY <1>1, <1>5, <1>7, SubmittedGrows DEF TypeInv
  <2>2. value \subseteq Submitted'
    <3>1. round'[p] = round[p] + 1
      BY <1>1, <1>5 DEF TypeInv
    <3>2. QED BY <1>1, <3>1 DEF Submitted, InitialValue
  <2>3. \A m \in msgs' : m.value \subseteq Submitted'
    BY <1>4, <1>6, <2>1, <2>2 DEF IInv, OriginInv
  <2>4. \A q \in Procs : buffered_values'[q] \subseteq Submitted'
    BY <1>1, <1>5, <2>1, <2>2 DEF IInv, OriginInv, TypeInv
  <2>5. QED BY <1>5, <2>1, <2>3, <2>4 DEF IInv, OriginInv
<1>14. LearntInv' /\ ResultsGrow'
  BY <1>4, <1>5, LearntKept
<1>15. QED BY <1>7, <1>8, <1>9, <1>10, <1>11, <1>12, <1>13, <1>14 DEF IInv

(* A proposal x of p under the next number, with a strictly larger value:  *)
(* what propose() and refine() have in common.                             *)
LEMMA NewProposalStep ==
  ASSUME IInv, TypeInv', PhaseInv', NEW p \in Procs,
         NEW x \in Messages, IsProposal(x), About(x, p, active_proposal_number[p] + 1),
         Less(SentValue(p), x.value), x.value \subseteq Submitted,
         active_proposal_number' = [active_proposal_number EXCEPT ![p] = @ + 1],
         proposed_value' = [proposed_value EXCEPT ![p] = x.value],
         ack_count' = [ack_count EXCEPT ![p] = 0],
         nack_count' = [nack_count EXCEPT ![p] = 0],
         \A q \in Procs : buffered_values'[q] \subseteq buffered_values[q],
         msgs' = msgs \cup {x},
         UNCHANGED <<round, results, accepted_value, learnerVars, received>>
  PROVE  IInv'
<1> USE DEF learnerVars
<1>1. TypeInv
  BY DEF IInv
<1>2. x.type = "proposal" /\ x.num = active_proposal_number[p] + 1 /\ x.proposer = p
  BY DEF IsProposal, About
<1>3. /\ active_proposal_number[p] \in Nat
      /\ active_proposal_number'[p] = active_proposal_number[p] + 1
      /\ \A q \in Procs \ {p} : active_proposal_number'[q] = active_proposal_number[q]
      /\ \A m \in msgs : m.proposer \in Procs /\ m.num \in Nat
  <2>1. active_proposal_number \in [Procs -> Nat] /\ msgs \subseteq Messages
    BY <1>1 DEF TypeInv
  <2>2. \A m \in Messages : m.proposer \in Procs /\ m.num \in Nat
    BY DEF Messages
  <2>3. /\ active_proposal_number[p] \in Nat
        /\ active_proposal_number'[p] = active_proposal_number[p] + 1
        /\ \A q \in Procs \ {p} : active_proposal_number'[q] = active_proposal_number[q]
    BY <2>1
  <2>4. QED BY <2>1, <2>2, <2>3
<1>4. \A m \in msgs : m.type # "internal" /\ m.proposer = p => m.num <= active_proposal_number[p]
  BY DEF IInv, NumberInv
<1>5. NumberInv'
  <2>1. \A m \in msgs' : m.type # "internal" =>
          1 <= m.num /\ m.num <= active_proposal_number'[m.proposer]
    <3> SUFFICES ASSUME NEW m \in msgs', m.type # "internal"
                 PROVE  1 <= m.num /\ m.num <= active_proposal_number'[m.proposer]
      OBVIOUS
    <3>1. CASE m = x
      BY <1>2, <1>3, <3>1
    <3>2. CASE m \in msgs
      <4>1. 1 <= m.num /\ m.num <= active_proposal_number[m.proposer]
        BY <3>2 DEF IInv, NumberInv
      <4>2. active_proposal_number[m.proposer] <= active_proposal_number'[m.proposer]
            /\ active_proposal_number[m.proposer] \in Nat /\ m.num \in Nat
            /\ active_proposal_number'[m.proposer] \in Nat
        BY <1>1, <1>3, <3>2 DEF TypeInv
      <4>3. QED BY <4>1, <4>2
    <3>3. QED BY <3>1, <3>2
  <2>2. \A m1, m2 \in msgs' :
          IsProposal(m1) /\ IsProposal(m2) /\ About(m1, m2.proposer, m2.num) => m1 = m2
    BY <1>2, <1>3, <1>4 DEF IInv, NumberInv, About, IsProposal
  <2>3. \A q \in Procs : active_proposal_number'[q] # 0 =>
          \E m \in msgs' : IsProposal(m) /\ About(m, q, active_proposal_number'[q])
    BY <1>3 DEF IInv, NumberInv
  <2>4. QED BY <2>1, <2>2, <2>3 DEF NumberInv, IsProposal, About
<1>6. ReplyInv' /\ AcksFormChain'
  BY <1>2 DEF IInv, ReplyInv, AcksFormChain, IsReply, IsProposal, Answers, CopyOf, About, Comparable
<1>7. SentValue(p)' = x.value
  BY <1>3, <1>5, SentValueIs DEF SentValue, NumberInv, IsProposal, About
<1>8. \A q \in Procs \ {p} : SentValue(q)' = SentValue(q)
  <2> TAKE q \in Procs \ {p}
  <2>1. active_proposal_number'[q] = active_proposal_number[q]
    BY <1>3
  <2> DEFINE R == {x}
  <2>2. /\ msgs' = msgs \cup R
        /\ \A y \in R : ~ (IsProposal(y) /\ About(y, q, active_proposal_number[q]))
    BY <1>2 DEF About
  <2> HIDE DEF R
  <2>3. QED BY <2>1, <2>2, SentValueStable
<1>9. CountInv'
  <2>1. \A q \in Procs \ {p}, t \in Types : Answered(q, t)' = Answered(q, t)
    BY <1>3 DEF Answered
  <2>2. \A m \in received[p] : IsReply(m) => m.num # active_proposal_number'[p]
    <3> SUFFICES ASSUME NEW m \in received[p], IsReply(m)
                 PROVE  m.num # active_proposal_number'[p]
      OBVIOUS
    <3>1. m \in msgs /\ m.proposer = p /\ m.type # "internal"
      BY <1>1 DEF IInv, CountInv, TypeInv, IsReply
    <3>2. m.num <= active_proposal_number[p] /\ m.num \in Nat
      BY <1>3, <1>4, <3>1
    <3>3. QED BY <1>3, <3>2
  <2>3. Cardinality(Answered(p, "ack")') = 0 /\ Cardinality(Answered(p, "nack")') = 0
    BY <2>2, FS_EmptySet DEF Answered, IsReply
  <2>4. \A q, u \in Procs, i \in Numbers : Copies(q, u, i)' = Copies(q, u, i)
    BY DEF Copies
  <2>5. \A q \in Procs : ack_count'[q] = Cardinality(Answered(q, "ack")')
                         /\ nack_count'[q] = Cardinality(Answered(q, "nack")')
    BY <1>1, <2>1, <2>3 DEF IInv, CountInv, TypeInv, Types
  <2>6. QED BY <2>4, <2>5 DEF IInv, CountInv, IsReply
<1>10. ValueInv'
  <2>1. active_proposal_number[p] + 1 <= Cardinality(x.value)
    <3>1. x.value \subseteq AllValues
      BY DEF Messages
    <3>2. Cardinality(SentValue(p)) + 1 <= Cardinality(x.value)
      BY <3>1, StrictGrowth
    <3>3. Cardinality(SentValue(p)) \in Nat /\ Cardinality(x.value) \in Nat
      BY <3>1, ValueSets
    <3>4. QED BY <1>3, <3>2, <3>3 DEF IInv, ValueInv
  <2>2. nack_count'[p] = 0 /\ proposed_value'[p] = x.value
    BY <1>1 DEF TypeInv
  <2>3. \A q \in Procs \ {p} : nack_count'[q] = nack_count[q] /\ proposed_value'[q] = proposed_value[q]
    BY <1>1 DEF TypeInv
  <2>4. QED BY <1>3, <1>7, <1>8, <2>1, <2>2, <2>3 DEF IInv, ValueInv
<1>11. ProposalsGrow'
  <2>1. \A q \in Procs \ {p} : Proposals(q)' = Proposals(q)
    BY <1>2 DEF Proposals
  <2>2. Proposals(p)' = Proposals(p) \cup {x}
    BY <1>2 DEF Proposals
  <2>3. \A m \in Proposals(p) : m.num < x.num /\ Less(m.value, x.value)
    <3> TAKE m \in Proposals(p)
    <3>1. m \in msgs /\ IsProposal(m) /\ m.proposer = p /\ m.num \in Nat
          /\ 1 <= m.num /\ m.num <= active_proposal_number[p]
      BY <1>3 DEF Proposals, IsProposal, IInv, NumberInv
    <3>2. PICK a \in msgs : IsProposal(a) /\ About(a, p, active_proposal_number[p])
      BY <1>3, <3>1 DEF IInv, NumberInv
    <3>3. SentValue(p) = a.value /\ a \in Proposals(p) /\ a.num = active_proposal_number[p]
      BY <3>2, SentValueIs DEF IInv, Proposals, IsProposal, About
    <3>4. m.value \subseteq a.value
      <4>1. CASE m.num = a.num
        BY <3>1, <3>2, <3>3, <4>1 DEF IInv, NumberInv, About
      <4>2. CASE m.num < a.num
        BY <3>3, <4>2 DEF IInv, ProposalsGrow
      <4>3. QED BY <1>3, <3>1, <3>3, <4>1, <4>2
    <3>5. m.num < x.num
      BY <1>2, <1>3, <3>1
    <3>6. m.value \subseteq x.value /\ m.value # x.value
      BY <3>3, <3>4
    <3>7. QED BY <3>5, <3>6
  <2>4. \A m1, m2 \in Proposals(p)' : m1.num < m2.num => Less(m1.value, m2.value)
    <3> SUFFICES ASSUME NEW m1 \in Proposals(p)', NEW m2 \in Proposals(p)', m1.num < m2.num
                 PROVE  Less(m1.value, m2.value)
      OBVIOUS
    <3>1. CASE m1 = x
      <4>1. m2.num <= x.num
        BY <1>2, <1>3, <2>2, <2>3 DEF Proposals
      <4>2. QED BY <1>2, <1>3, <2>2, <3>1, <4>1 DEF Proposals
    <3>2. CASE m1 # x
      BY <2>2, <2>3, <3>2 DEF IInv, ProposalsGrow
    <3>3. QED BY <3>1, <3>2
  <2>5. QED BY <2>1, <2>4 DEF IInv, ProposalsGrow
<1>12. OriginInv'
  <2>1. Submitted' = Submitted
    BY DEF Submitted
  <2>2. QED BY <1>1, <2>1 DEF IInv, OriginInv, TypeInv
<1>13. LearntInv' /\ ResultsGrow'
  BY LearntKept
<1>14. QED BY <1>5, <1>6, <1>9, <1>10, <1>11, <1>12, <1>13 DEF IInv

(* propose proposes strictly more than ever before, under a new number.    *)
LEMMA ProposeStep == ASSUME IInv, NEW p \in Procs, Propose(p) PROVE IInv'
<1> DEFINE value == Join(proposed_value[p], buffered_values[p])
           x == Message("proposal", active_proposal_number[p] + 1, value, p, p)
<1>1. TypeInv /\ value \subseteq AllValues
  BY DEF IInv, TypeInv
<1>2. x \in Messages
  BY <1>1 DEF Message, Messages, TypeInv, Types
<1>3. msgs' = msgs \cup {x}
  BY DEF Propose, Send
<1>4. IsProposal(x) /\ About(x, p, active_proposal_number[p] + 1) /\ x.value = value
  BY DEF IsProposal, About, Message
<1>5. Less(SentValue(p), value)
  BY DEF Propose, CanPropose, IInv, ValueInv
<1>6. value \subseteq Submitted
  BY DEF IInv, OriginInv
<1> HIDE DEF x
<1>7. /\ proposed_value' = [proposed_value EXCEPT ![p] = x.value]
      /\ active_proposal_number' = [active_proposal_number EXCEPT ![p] = @ + 1]
      /\ ack_count' = [ack_count EXCEPT ![p] = 0]
      /\ nack_count' = [nack_count EXCEPT ![p] = 0]
      /\ buffered_values' = [buffered_values EXCEPT ![p] = {}]
      /\ UNCHANGED <<round, results, notified, accepted_value, learnerVars, received>>
  BY <1>4 DEF Propose, ResetCounters
<1>8. TypeInv'
  BY SMTT(20), <1>1, <1>2, <1>3, <1>4, <1>7 DEF Propose, TypeInv, learnerVars
<1>9. PhaseInv'
  BY <1>1 DEF Propose, IInv, TypeInv, PhaseInv
<1>10. \A q \in Procs : buffered_values'[q] \subseteq buffered_values[q]
  BY <1>1, <1>7 DEF TypeInv
<1>11. QED
  BY <1>2, <1>3, <1>4, <1>5, <1>6, <1>7, <1>8, <1>9, <1>10, NewProposalStep

(* refine proposes what the nacks added to the last proposal.              *)
LEMMA RefineStep == ASSUME IInv, NEW p \in Procs, Refine(p) PROVE IInv'
<1> DEFINE x == Message("proposal", active_proposal_number[p] + 1, proposed_value[p], p, p)
<1>1. TypeInv
  BY DEF IInv
<1>2. x \in Messages
  BY <1>1 DEF Message, Messages, TypeInv, Types
<1>3. msgs' = msgs \cup {x}
  BY DEF Refine, Send
<1>4. IsProposal(x) /\ About(x, p, active_proposal_number[p] + 1) /\ x.value = proposed_value[p]
  BY DEF IsProposal, About, Message
<1>5. Less(SentValue(p), proposed_value[p])
  BY <1>1 DEF Refine, CanRefine, IInv, ValueInv, TypeInv
<1>6. proposed_value[p] \subseteq Submitted
  BY DEF IInv, OriginInv
<1> HIDE DEF x
<1>7. /\ proposed_value' = [proposed_value EXCEPT ![p] = x.value]
      /\ active_proposal_number' = [active_proposal_number EXCEPT ![p] = @ + 1]
      /\ ack_count' = [ack_count EXCEPT ![p] = 0]
      /\ nack_count' = [nack_count EXCEPT ![p] = 0]
      /\ UNCHANGED <<pc, round, results, status, buffered_values, accepted_value, learnerVars,
                     received>>
  BY <1>1, <1>4 DEF Refine, ResetCounters, TypeInv
<1>8. TypeInv'
  <2>1. notified' \in [Procs -> BOOLEAN]
    BY <1>1 DEF Refine, TypeInv
  <2>2. /\ active_proposal_number' \in [Procs -> Nat] /\ ack_count' \in [Procs -> Nat]
        /\ nack_count' \in [Procs -> Nat] /\ proposed_value' = proposed_value
        /\ msgs' \subseteq Messages /\ received' \in [Procs -> SUBSET msgs']
    BY <1>1, <1>2, <1>3, <1>4, <1>7 DEF TypeInv
  <2>3. QED BY <1>1, <1>7, <2>1, <2>2 DEF TypeInv, learnerVars
<1>9. PhaseInv'
  BY <1>7 DEF IInv, PhaseInv
<1>10. QED
  BY <1>2, <1>3, <1>4, <1>5, <1>6, <1>7, <1>8, <1>9, NewProposalStep

-----------------------------------------------------------------------------
(* The answers to one proposal.                                            *)

(* The reply of an acceptor to the proposal m is its only one.             *)
LEMMA AnswersAreFew ==
  ASSUME IInv, NEW q, NEW i, NEW C, C \subseteq msgs,
         \A x \in C : IsReply(x) /\ About(x, q, i)
  PROVE  IsFiniteSet(C) /\ Cardinality(C) \in Nat /\ Cardinality(C) <= N
<1>1. \A x \in C : x.from \in Procs
  BY DEF IInv, TypeInv, Messages
<1>2. \A x, y \in C : x.from = y.from => x = y
  BY DEF IInv, ReplyInv, About
<1>3. QED BY <1>1, <1>2, OnePerProcess

(* Copies of acks for one proposal come from different acceptors and have  *)
(* the same value, which a majority has acknowledged if there are enough.  *)
LEMMA CopiesOfOne ==
  ASSUME IInv, NEW q, NEW i, NEW C, C \subseteq msgs,
         \A x \in C : x.type = "learn" /\ About(x, q, i)
  PROVE  /\ IsFiniteSet(C) /\ Cardinality(C) \in Nat /\ Cardinality(C) <= N
         /\ \A m \in C : Cardinality(C) >= Majority => Acknowledged(m.value)
<1>1. \A x \in C : x \in Messages /\ x.from \in Procs
  BY DEF IInv, TypeInv, Messages
<1>2. \A x, y \in C : x.value = y.value
  <2> SUFFICES ASSUME NEW x \in C, NEW y \in C PROVE x.value = y.value
    OBVIOUS
  <2>1. PICK s \in msgs : CopyOf(x, s)
    BY DEF IInv, ReplyInv
  <2>2. PICK t \in msgs : CopyOf(y, t)
    BY DEF IInv, ReplyInv
  <2>3. IsReply(s) /\ IsReply(t) /\ s.from \in Procs /\ t.from \in Procs
    BY <1>1, <2>1, <2>2 DEF CopyOf, IsReply
  <2>4. PICK m1 \in received[s.from] : Answers(s, m1)
    BY <2>3 DEF IInv, ReplyInv
  <2>5. PICK m2 \in received[t.from] : Answers(t, m2)
    BY <2>3 DEF IInv, ReplyInv
  <2>6. m1 \in msgs /\ m2 \in msgs
    BY <2>3, <2>4, <2>5 DEF IInv, TypeInv
  <2>7. About(m1, q, i) /\ About(m2, q, i) /\ IsProposal(m1) /\ IsProposal(m2)
    BY <2>1, <2>2, <2>4, <2>5 DEF CopyOf, Answers, About
  <2>8. m1 = m2
    BY <2>6, <2>7 DEF IInv, NumberInv, About
  <2>9. QED BY <2>1, <2>2, <2>4, <2>5, <2>8 DEF CopyOf, Answers
<1>3. \A x, y \in C : x.from = y.from => x = y
  BY <1>1, <1>2 DEF Messages, About
<1>4. /\ IsFiniteSet(C) /\ Cardinality(C) \in Nat /\ Cardinality(C) <= N
      /\ Cardinality(C) = Cardinality({x.from : x \in C})
  BY <1>1, <1>3, OnePerProcess
<1>5. ASSUME NEW m \in C, Cardinality(C) >= Majority PROVE Acknowledged(m.value)
  <2> DEFINE Q == {x.from : x \in C}
  <2>1. Q \in SUBSET Procs /\ Cardinality(Q) >= Majority
    BY <1>1, <1>4, <1>5
  <2>2. \A a \in Q : \E r \in msgs : r.type = "ack" /\ r.from = a /\ r.value = m.value
    <3> SUFFICES ASSUME NEW x \in C
                 PROVE  \E r \in msgs : r.type = "ack" /\ r.from = x.from /\ r.value = m.value
      OBVIOUS
    <3>1. PICK r \in msgs : CopyOf(x, r)
      BY DEF IInv, ReplyInv
    <3>2. QED BY <1>2, <3>1 DEF CopyOf
  <2> HIDE DEF Q
  <2>3. QED BY <2>1, <2>2 DEF Acknowledged
<1>6. QED BY <1>4, <1>5

-----------------------------------------------------------------------------
(* The steps of the network thread.                                        *)

(* The acceptor of a handles the proposal m, holds r.value from then on    *)
(* and answers r, with a copy for the learners if that is an ack: what     *)
(* accepting and rejecting have in common.                                 *)
LEMMA AnswerStep ==
  ASSUME IInv, NEW a \in Procs, NEW m \in Deliverable(a, "proposal"),
         NEW r, IsReply(r), r.from = a, Answers(r, m),
         Leq(accepted_value[a], r.value), r.value \subseteq Submitted,
         NEW R, R \subseteq Messages, r \in R,
         \A x \in R : x = r \/ (x.type = "learn" /\ CopyOf(x, r)),
         accepted_value' = [accepted_value EXCEPT ![a] = r.value],
         msgs' = msgs \cup R,
         received' = [received EXCEPT ![a] = @ \cup {m}],
         UNCHANGED <<mainVars, proposerVars, learnerVars>>
  PROVE  IInv'
<1> USE DEF mainVars, proposerVars, counters, learnerVars
<1>1. TypeInv /\ m \in msgs /\ m \notin received[a] /\ IsProposal(m)
  BY DEF IInv, Deliverable, IsProposal
<1>2. r \in Messages /\ r.value \subseteq AllValues
  BY DEF Messages
<1>3. \A x \in R : /\ ~ IsProposal(x) /\ x.type # "internal"
                   /\ x.value = r.value /\ x.from = a /\ x.num = m.num /\ x.proposer = m.proposer
                   /\ IsReply(x) => x = r
  BY DEF IsReply, IsProposal, CopyOf, Answers, About
<1>4. /\ received'[a] = received[a] \cup {m}
      /\ \A q \in Procs \ {a} : received'[q] = received[q]
      /\ accepted_value'[a] = r.value
      /\ \A q \in Procs \ {a} : accepted_value'[q] = accepted_value[q]
  BY <1>1 DEF TypeInv
<1>5. TypeInv'
  <2>1. msgs' \subseteq Messages /\ accepted_value' \in [Procs -> SUBSET AllValues]
    BY <1>1, <1>2 DEF TypeInv
  <2>2. received' \in [Procs -> SUBSET msgs']
    BY <1>1 DEF TypeInv
  <2>3. QED BY <1>1, <2>1, <2>2 DEF TypeInv
<1>6. PhaseInv'
  BY DEF IInv, PhaseInv
<1>7. NumberInv' /\ ProposalsGrow' /\ \A q \in Procs : SentValue(q)' = SentValue(q)
  <2>1. 1 <= m.num /\ m.num <= active_proposal_number[m.proposer]
    BY <1>1 DEF IInv, NumberInv, IsProposal
  <2>2. \A x \in R : /\ ~ IsProposal(x)
                     /\ 1 <= x.num /\ x.num <= active_proposal_number[x.proposer]
    BY <1>3, <2>1
  <2>3. QED BY <2>2, NoNewProposals
<1>8. \A s \in msgs : IsReply(s) /\ s.from = a => ~ About(s, m.proposer, m.num)
  BY <1>1 DEF IInv, ReplyInv, NumberInv, Answers, About, TypeInv
<1>9. ReplyInv'
  <2>1. \A s \in msgs' : s.from \in Procs
    BY <1>5 DEF TypeInv, Messages
  <2>2. \A s \in msgs' : IsReply(s) => \E x \in received'[s.from] : Answers(s, x)
    <3> SUFFICES ASSUME NEW s \in msgs', IsReply(s)
                 PROVE  \E x \in received'[s.from] : Answers(s, x)
      OBVIOUS
    <3>1. CASE s \in msgs
      BY <1>4, <2>1, <3>1 DEF IInv, ReplyInv
    <3>2. CASE s \in R
      BY <1>3, <1>4, <3>2
    <3>3. QED BY <3>1, <3>2
  <2>3. \A s, t \in msgs' :
          IsReply(s) /\ IsReply(t) /\ t.from = s.from /\ About(t, s.proposer, s.num) => t = s
    <3> SUFFICES ASSUME NEW s \in msgs', NEW t \in msgs', IsReply(s), IsReply(t),
                        t.from = s.from, About(t, s.proposer, s.num)
                 PROVE  t = s
      OBVIOUS
    <3>1. CASE s \in msgs /\ t \in msgs
      BY <3>1 DEF IInv, ReplyInv
    <3>2. CASE s \in R /\ t \in R
      BY <1>3, <3>2
    <3>3. CASE s \in msgs /\ t \in R
      BY <1>3, <1>8, <3>3 DEF About
    <3>4. CASE s \in R /\ t \in msgs
      BY <1>3, <1>8, <3>4 DEF About
    <3>5. QED BY <3>1, <3>2, <3>3, <3>4
  <2>4. \A s \in msgs' : s.type = "learn" => \E t \in msgs' : CopyOf(s, t)
    BY DEF IInv, ReplyInv, IsReply
  <2>5. QED BY <2>2, <2>3, <2>4 DEF ReplyInv, IsReply, Answers, CopyOf, About, IsProposal
<1>10. AcksFormChain'
  <2>1. \A s \in msgs : s.type = "ack" => /\ s.from \in Procs
                                         /\ s.value \subseteq accepted_value[s.from]
    BY <1>1 DEF IInv, AcksFormChain, TypeInv, Messages
  <2>2. \A s \in msgs : s.type = "ack" /\ s.from = a => s.value \subseteq r.value
    BY <2>1
  <2>3. \A s \in msgs' : s.type = "ack" => s.value \subseteq accepted_value'[s.from]
    BY <1>3, <1>4, <2>1, <2>2
  <2>4. \A s, t \in msgs' : s.type = "ack" /\ t.type = "ack" /\ t.from = s.from
                              => Comparable(s.value, t.value)
    BY <1>3, <2>2 DEF IInv, AcksFormChain, Comparable
  <2>5. QED BY <2>3, <2>4 DEF AcksFormChain, Comparable
<1>11. CountInv'
  <2>1. /\ \A q \in Procs : Answered(q, "ack")' = Answered(q, "ack")
        /\ \A q \in Procs : Answered(q, "nack")' = Answered(q, "nack")
        /\ \A q \in Procs : \A u \in Procs : \A i \in Numbers : Copies(q, u, i)' = Copies(q, u, i)
    BY <1>1, <1>4 DEF Answered, Copies, IsProposal
  <2>2. \A q \in Procs : \A x \in received'[q] : IsReply(x) => x.proposer = q
    BY <1>1, <1>4 DEF IInv, CountInv, IsReply, IsProposal
  <2>3. QED BY <2>1, <2>2 DEF IInv, CountInv, IsReply
<1>12. ValueInv'
  BY <1>7 DEF IInv, ValueInv
<1>13. OriginInv'
  <2>1. Submitted' = Submitted
    BY DEF Submitted
  <2>2. \A x \in msgs' : x.value \subseteq Submitted
    BY <1>3 DEF IInv, OriginInv
  <2>3. QED BY <1>4, <2>1, <2>2 DEF IInv, OriginInv
<1>14. LearntInv' /\ ResultsGrow'
  BY LearntKept
<1>15. QED BY <1>5, <1>6, <1>7, <1>9, <1>10, <1>11, <1>12, <1>13, <1>14 DEF IInv

(* What an acceptor sends about the proposal m is a message.               *)
LEMMA AnswerType ==
  ASSUME TypeInv, NEW a \in Procs, NEW m \in msgs, NEW t \in Types,
         NEW v, v \subseteq AllValues
  PROVE  LET r == Message(t, m.num, v, m.proposer, a)
         IN  /\ r \in Messages /\ r.type = t /\ r.from = a
             /\ r.value = v /\ About(r, m.proposer, m.num)
<1>1. m.proposer \in Procs /\ m.num \in Nat
  BY DEF TypeInv, Messages
<1>2. QED BY <1>1 DEF Message, Messages, About

(* An acceptor acknowledges: it stores the value, and the copies for the  *)
(* learners agree with the ack.                                            *)
LEMMA AcceptStep ==
  ASSUME IInv, NEW a \in Procs, NEW m \in Deliverable(a, "proposal"), Accept(a, m)
  PROVE  IInv'
<1> DEFINE r == Message("ack", m.num, m.value, m.proposer, a)
           c == Message("learn", m.num, m.value, m.proposer, a)
           R == {r, c}
<1>1. m \in msgs /\ IsProposal(m) /\ TypeInv /\ m.proposer \in Procs
  BY DEF Deliverable, IsProposal, IInv, TypeInv, Messages
<1>2. m.value \subseteq Submitted /\ m.value \subseteq AllValues
  BY <1>1 DEF IInv, OriginInv, TypeInv, Messages
<1>3. /\ r \in Messages /\ r.type = "ack" /\ r.from = a
      /\ r.value = m.value /\ About(r, m.proposer, m.num)
  BY <1>1, <1>2, AnswerType DEF Types
<1>4. /\ c \in Messages /\ c.type = "learn" /\ c.from = a
      /\ c.value = m.value /\ About(c, m.proposer, m.num)
  BY <1>1, <1>2, AnswerType DEF Types
<1>5. /\ Leq(accepted_value[a], m.value)
      /\ accepted_value' = [accepted_value EXCEPT ![a] = m.value]
      /\ msgs' = msgs \cup R
      /\ received' = [received EXCEPT ![a] = @ \cup {m}]
      /\ UNCHANGED <<mainVars, proposerVars, learnerVars>>
  BY DEF Accept, Send, Handled
<1> HIDE DEF r, c
<1>6. IsReply(r) /\ Answers(r, m) /\ CopyOf(c, r)
  BY <1>1, <1>3, <1>4 DEF IsReply, Answers, CopyOf, About
<1>7. R \subseteq Messages /\ r \in R /\ \A x \in R : x = r \/ (x.type = "learn" /\ CopyOf(x, r))
  BY <1>3, <1>4, <1>6
<1> HIDE DEF R
<1>8. QED BY <1>2, <1>3, <1>5, <1>6, <1>7, AnswerStep

(* An acceptor refuses: its answer is strictly above the proposal.         *)
LEMMA RejectStep ==
  ASSUME IInv, NEW a \in Procs, NEW m \in Deliverable(a, "proposal"), Reject(a, m)
  PROVE  IInv'
<1> DEFINE v == Join(accepted_value[a], m.value)
           r == Message("nack", m.num, v, m.proposer, a)
           R == {r}
<1>1. m \in msgs /\ IsProposal(m) /\ TypeInv
  BY DEF Deliverable, IsProposal, IInv
<1>2. v \subseteq Submitted /\ v \subseteq AllValues
  BY <1>1 DEF IInv, OriginInv, TypeInv, Messages
<1>3. /\ r \in Messages /\ r.type = "nack" /\ r.from = a
      /\ r.value = v /\ About(r, m.proposer, m.num)
  BY <1>1, <1>2, AnswerType DEF Types
<1>4. Less(m.value, v) /\ Leq(accepted_value[a], v)
  BY DEF Reject
<1>5. /\ accepted_value' = [accepted_value EXCEPT ![a] = v]
      /\ msgs' = msgs \cup R
      /\ received' = [received EXCEPT ![a] = @ \cup {m}]
      /\ UNCHANGED <<mainVars, proposerVars, learnerVars>>
  BY DEF Reject, Send, Handled
<1> HIDE DEF r, v
<1>6. IsReply(r) /\ Answers(r, m)
  BY <1>1, <1>3, <1>4 DEF IsReply, Answers, About
<1>7. R \subseteq Messages /\ r \in R /\ \A x \in R : x = r \/ (x.type = "learn" /\ CopyOf(x, r))
  BY <1>3
<1> HIDE DEF R
<1>8. QED BY <1>2, <1>3, <1>4, <1>5, <1>6, <1>7, AnswerStep

(* What handling the message m at p leaves alone, whatever it is.          *)
LEMMA HandledStep ==
  ASSUME IInv, NEW p \in Procs, NEW t \in Types, NEW m \in Deliverable(p, t), Handled(p, m),
         UNCHANGED <<active_proposal_number, accepted_value, msgs, pc, round, results>>
  PROVE  /\ m \in msgs /\ m \notin received[p] /\ m.type = t /\ m.from \in Procs
         /\ IsReply(m) => m.proposer = p
         /\ received'[p] = received[p] \cup {m}
         /\ \A q \in Procs \ {p} : received'[q] = received[q]
         /\ received' \in [Procs -> SUBSET msgs]
         /\ \A q \in Procs : \A x \in received'[q] : IsReply(x) => x.proposer = q
         /\ \A q \in Procs : \A u \in Types : q # p \/ u # t => Answered(q, u)' = Answered(q, u)
         /\ \A q \in Procs : \A u \in Procs : \A i \in Numbers :
              q # p \/ t # "learn" => Copies(q, u, i)' = Copies(q, u, i)
         /\ PhaseInv' /\ NumberInv' /\ ReplyInv' /\ AcksFormChain' /\ ProposalsGrow'
         /\ \A q \in Procs : SentValue(q)' = SentValue(q)
         /\ Submitted' = Submitted
<1>1. /\ m \in msgs /\ m \notin received[p] /\ m.type = t /\ TypeInv
      /\ IsReply(m) => m.proposer = p
  BY DEF Deliverable, IsReply, IInv
<1>2. m.from \in Procs
  BY <1>1 DEF TypeInv, Messages
<1>3. /\ received'[p] = received[p] \cup {m}
      /\ \A q \in Procs \ {p} : received'[q] = received[q]
      /\ received' \in [Procs -> SUBSET msgs]
      /\ \A q \in Procs : received[q] \subseteq received'[q]
  BY <1>1 DEF Handled, TypeInv
<1>4. \A q \in Procs : \A x \in received'[q] : IsReply(x) => x.proposer = q
  BY <1>1, <1>3 DEF IInv, CountInv
<1>5. \A q \in Procs : \A u \in Types : q # p \/ u # t => Answered(q, u)' = Answered(q, u)
  BY <1>1, <1>3 DEF Answered
<1>6. \A q \in Procs : \A u \in Procs : \A i \in Numbers :
        q # p \/ t # "learn" => Copies(q, u, i)' = Copies(q, u, i)
  BY <1>1, <1>3 DEF Copies
<1>7. /\ NumberInv' /\ ReplyInv' /\ AcksFormChain' /\ ProposalsGrow'
      /\ \A q \in Procs : SentValue(q)' = SentValue(q)
  BY <1>3, MessagesKept
<1>8. PhaseInv' /\ Submitted' = Submitted
  BY DEF IInv, PhaseInv, Submitted
<1>9. QED BY <1>1, <1>2, <1>3, <1>4, <1>5, <1>6, <1>7, <1>8

(* notify_one releases the waiter or is lost.                              *)
LEMMA NotifyType ==
  ASSUME TypeInv, NEW p \in Procs, NEW place, Notify(p, place) \/ UNCHANGED notified
  PROVE  notified' \in [Procs -> BOOLEAN]
<1>1. CASE UNCHANGED notified
  BY <1>1 DEF TypeInv
<1>2. CASE Notify(p, place)
  <2>1. (notified[p] \/ pc[p] = place) \in BOOLEAN
    OBVIOUS
  <2> DEFINE b == notified[p] \/ pc[p] = place
  <2>2. notified' = [notified EXCEPT ![p] = b] /\ b \in BOOLEAN
    BY <1>2, <2>1 DEF Notify
  <2> HIDE DEF b
  <2>3. QED BY <2>2 DEF TypeInv
<1>3. QED BY <1>1, <1>2

(* An answer to the active proposal that is handled is one more; one to an *)
(* earlier proposal is none.                                               *)
LEMMA AnsweredGrows ==
  ASSUME IInv, NEW p \in Procs, NEW t \in {"ack", "nack"}, NEW m \in Deliverable(p, t),
         received'[p] = received[p] \cup {m}, UNCHANGED active_proposal_number
  PROVE  Cardinality(Answered(p, t)') =
           IF IsCurrent(p, m) THEN Cardinality(Answered(p, t)) + 1 ELSE Cardinality(Answered(p, t))
<1>1. m \in msgs /\ m \notin received[p] /\ m.type = t /\ received[p] \subseteq msgs
  BY DEF Deliverable, IInv, TypeInv
<1>2. CASE IsCurrent(p, m)
  <2>1. Answered(p, t)' = Answered(p, t) \cup {m} /\ m \notin Answered(p, t)
    BY <1>1, <1>2 DEF Answered, IsCurrent
  <2>2. /\ Answered(p, t) \subseteq msgs
        /\ \A x \in Answered(p, t) : IsReply(x) /\ About(x, p, active_proposal_number[p])
    BY <1>1 DEF Answered, IsReply, About, IInv, CountInv
  <2>3. IsFiniteSet(Answered(p, t))
    BY <2>2, AnswersAreFew
  <2>4. QED BY <1>2, <2>1, <2>3, FS_AddElement
<1>3. CASE ~ IsCurrent(p, m)
  <2>1. Answered(p, t)' = Answered(p, t)
    BY <1>3 DEF Answered, IsCurrent
  <2>2. QED BY <1>3, <2>1
<1>4. QED BY <1>2, <1>3

(* A proposer counts an ack of its active proposal, and no other.          *)
LEMMA ProcessAckStep ==
  ASSUME IInv, NEW p \in Procs, NEW m \in Deliverable(p, "ack"), ProcessAck(p, m)
  PROVE  IInv'
<1>1. TypeInv
  BY DEF IInv
<1>2. /\ UNCHANGED <<pc, round, results, status, nack_count, active_proposal_number,
                     proposed_value, buffered_values, accepted_value, learnt_value,
                     learn_count, msgs>>
      /\ Handled(p, m)
      /\ ack_count' = IF IsCurrent(p, m) THEN [ack_count EXCEPT ![p] = @ + 1] ELSE ack_count
      /\ Notify(p, "waiting") \/ UNCHANGED notified
  BY DEF ProcessAck, learnerVars
<1>3. /\ received'[p] = received[p] \cup {m}
      /\ received' \in [Procs -> SUBSET msgs]
      /\ \A q \in Procs : \A x \in received'[q] : IsReply(x) => x.proposer = q
      /\ \A q \in Procs : \A u \in Types : q # p \/ u # "ack" => Answered(q, u)' = Answered(q, u)
      /\ \A q \in Procs : \A u \in Procs : \A i \in Numbers : Copies(q, u, i)' = Copies(q, u, i)
      /\ PhaseInv' /\ NumberInv' /\ ReplyInv' /\ AcksFormChain' /\ ProposalsGrow'
      /\ \A q \in Procs : SentValue(q)' = SentValue(q)
      /\ Submitted' = Submitted
  BY <1>2, HandledStep DEF Types
<1>4. TypeInv'
  <2>1. notified' \in [Procs -> BOOLEAN]
    BY <1>1, <1>2, NotifyType
  <2>2. ack_count' \in [Procs -> Nat]
    BY <1>1, <1>2 DEF TypeInv
  <2>3. QED BY <1>1, <1>2, <1>3, <2>1, <2>2 DEF TypeInv
<1>5. CountInv'
  <2>1. ack_count'[p] = Cardinality(Answered(p, "ack")')
    <3>1. ack_count[p] = Cardinality(Answered(p, "ack"))
      BY DEF IInv, CountInv
    <3>2. ack_count'[p] = IF IsCurrent(p, m) THEN ack_count[p] + 1 ELSE ack_count[p]
      BY <1>1, <1>2 DEF TypeInv
    <3>3. QED BY <1>2, <1>3, <3>1, <3>2, AnsweredGrows
  <2>2. \A q \in Procs \ {p} : ack_count'[q] = ack_count[q]
    BY <1>1, <1>2 DEF TypeInv
  <2>3. \A q \in Procs : ack_count'[q] = Cardinality(Answered(q, "ack")')
                         /\ nack_count'[q] = Cardinality(Answered(q, "nack")')
    BY <1>2, <1>3, <2>1, <2>2 DEF IInv, CountInv, Types
  <2>4. QED BY <1>2, <1>3, <2>3 DEF IInv, CountInv, IsReply
<1>6. ValueInv' /\ OriginInv'
  BY <1>2, <1>3 DEF IInv, ValueInv, OriginInv
<1>7. LearntInv' /\ ResultsGrow'
  BY <1>2, LearntKept
<1>8. QED BY <1>3, <1>4, <1>5, <1>6, <1>7 DEF IInv

(* A nack makes the next value strictly larger than the last proposal.     *)
LEMMA NackGrows ==
  ASSUME IInv, NEW p \in Procs, NEW m \in Deliverable(p, "nack"), IsCurrent(p, m)
  PROVE  Less(SentValue(p), m.value)
<1>1. /\ m \in msgs /\ m.proposer = p /\ IsReply(m) /\ m.type = "nack" /\ m.from \in Procs
      /\ m.num = active_proposal_number[p]
  BY DEF Deliverable, IsReply, IsCurrent, IInv, TypeInv, Messages
<1>2. PICK x \in received[m.from] : Answers(m, x)
  BY <1>1 DEF IInv, ReplyInv
<1>3. x \in msgs /\ IsProposal(x) /\ About(x, p, active_proposal_number[p])
  BY <1>1, <1>2 DEF IInv, TypeInv, Answers, About
<1>4. SentValue(p) = x.value
  BY <1>3, SentValueIs DEF IInv
<1>5. QED BY <1>1, <1>2, <1>4 DEF Answers

(* A proposer joins a nack of its active proposal, and no other.           *)
LEMMA ProcessNackStep ==
  ASSUME IInv, NEW p \in Procs, NEW m \in Deliverable(p, "nack"), ProcessNack(p, m)
  PROVE  IInv'
<1>1. TypeInv
  BY DEF IInv
<1>2. /\ UNCHANGED <<pc, round, results, status, ack_count, active_proposal_number,
                     buffered_values, accepted_value, learnt_value, learn_count, msgs>>
      /\ Handled(p, m)
      /\ nack_count' = IF IsCurrent(p, m) THEN [nack_count EXCEPT ![p] = @ + 1] ELSE nack_count
      /\ proposed_value' = IF IsCurrent(p, m)
                           THEN [proposed_value EXCEPT ![p] = Join(@, m.value)]
                           ELSE proposed_value
      /\ Notify(p, "waiting") \/ UNCHANGED notified
  BY DEF ProcessNack, learnerVars
<1>3. /\ m \in msgs /\ received'[p] = received[p] \cup {m}
      /\ received' \in [Procs -> SUBSET msgs]
      /\ \A q \in Procs : \A x \in received'[q] : IsReply(x) => x.proposer = q
      /\ \A q \in Procs : \A u \in Types : q # p \/ u # "nack" => Answered(q, u)' = Answered(q, u)
      /\ \A q \in Procs : \A u \in Procs : \A i \in Numbers : Copies(q, u, i)' = Copies(q, u, i)
      /\ PhaseInv' /\ NumberInv' /\ ReplyInv' /\ AcksFormChain' /\ ProposalsGrow'
      /\ \A q \in Procs : SentValue(q)' = SentValue(q)
      /\ Submitted' = Submitted
  BY <1>2, HandledStep DEF Types
<1>4. /\ nack_count'[p] = IF IsCurrent(p, m) THEN nack_count[p] + 1 ELSE nack_count[p]
      /\ proposed_value'[p] = IF IsCurrent(p, m) THEN proposed_value[p] \cup m.value
                              ELSE proposed_value[p]
      /\ \A q \in Procs \ {p} : nack_count'[q] = nack_count[q] /\ proposed_value'[q] = proposed_value[q]
      /\ nack_count[p] \in Nat
  BY <1>1, <1>2 DEF TypeInv
<1>5. TypeInv'
  <2>1. notified' \in [Procs -> BOOLEAN]
    BY <1>1, <1>2, NotifyType
  <2>2. m.value \subseteq AllValues
    BY <1>1, <1>3 DEF TypeInv, Messages
  <2>3. nack_count' \in [Procs -> Nat] /\ proposed_value' \in [Procs -> SUBSET AllValues]
    BY <1>1, <1>2, <2>2 DEF TypeInv
  <2>4. QED BY <1>1, <1>2, <1>3, <2>1, <2>3 DEF TypeInv
<1>6. CountInv'
  <2>1. nack_count'[p] = Cardinality(Answered(p, "nack")')
    <3>1. nack_count[p] = Cardinality(Answered(p, "nack"))
      BY DEF IInv, CountInv
    <3>2. QED BY <1>2, <1>3, <1>4, <3>1, AnsweredGrows
  <2>2. \A q \in Procs : ack_count'[q] = Cardinality(Answered(q, "ack")')
                         /\ nack_count'[q] = Cardinality(Answered(q, "nack")')
    BY <1>2, <1>3, <1>4, <2>1 DEF IInv, CountInv, Types
  <2>3. QED BY <1>2, <1>3, <2>2 DEF IInv, CountInv, IsReply
<1>7. ValueInv'
  <2>1. IsCurrent(p, m) => Less(SentValue(p), m.value)
    BY NackGrows
  <2>2. /\ Leq(SentValue(p), proposed_value'[p])
        /\ nack_count'[p] # 0 => SentValue(p) # proposed_value'[p]
        /\ nack_count'[p] = 0 => SentValue(p) = proposed_value'[p]
    <3>1. /\ SentValue(p) \subseteq proposed_value[p]
          /\ nack_count[p] # 0 => SentValue(p) # proposed_value[p]
          /\ nack_count[p] = 0 => SentValue(p) = proposed_value[p]
      BY DEF IInv, ValueInv
    <3>2. CASE IsCurrent(p, m)
      <4>1. SentValue(p) \subseteq m.value /\ SentValue(p) # m.value
        BY <2>1, <3>2
      <4>2. /\ proposed_value'[p] = proposed_value[p] \cup m.value
            /\ nack_count'[p] # 0
        BY <1>4, <3>2
      <4>3. /\ SentValue(p) \subseteq proposed_value[p] \cup m.value
            /\ SentValue(p) # proposed_value[p] \cup m.value
        BY <4>1
      <4>4. QED BY <4>2, <4>3
    <3>3. CASE ~ IsCurrent(p, m)
      <4>1. nack_count'[p] = nack_count[p] /\ proposed_value'[p] = proposed_value[p]
        BY <1>4, <3>3
      <4>2. QED BY <3>1, <4>1
    <3>4. QED BY <3>2, <3>3
  <2>3. QED BY <1>2, <1>3, <1>4, <2>2 DEF IInv, ValueInv
<1>8. OriginInv'
  BY <1>2, <1>3, <1>4 DEF IInv, OriginInv
<1>9. LearntInv' /\ ResultsGrow'
  BY <1>2, LearntKept
<1>10. QED BY <1>3, <1>5, <1>6, <1>7, <1>8, <1>9 DEF IInv

(* A proposer buffers the value another one shares.                        *)
LEMMA InternalReceiveStep ==
  ASSUME IInv, NEW p \in Procs, NEW m \in Deliverable(p, "internal"), InternalReceive(p, m)
  PROVE  IInv'
<1>1. TypeInv
  BY DEF IInv
<1>2. /\ UNCHANGED <<pc, round, results, notified, status, ack_count, nack_count,
                     active_proposal_number, proposed_value, accepted_value, learnt_value,
                     learn_count, msgs>>
      /\ Handled(p, m)
      /\ buffered_values' = [buffered_values EXCEPT ![p] = Join(m.value, @)]
  BY DEF InternalReceive, mainVars, counters, learnerVars
<1>3. /\ m \in msgs
      /\ received' \in [Procs -> SUBSET msgs]
      /\ \A q \in Procs : \A x \in received'[q] : IsReply(x) => x.proposer = q
      /\ \A q \in Procs : \A u \in Types : u # "internal" => Answered(q, u)' = Answered(q, u)
      /\ \A q \in Procs : \A u \in Procs : \A i \in Numbers : Copies(q, u, i)' = Copies(q, u, i)
      /\ PhaseInv' /\ NumberInv' /\ ReplyInv' /\ AcksFormChain' /\ ProposalsGrow'
      /\ \A q \in Procs : SentValue(q)' = SentValue(q)
      /\ Submitted' = Submitted
  BY <1>2, HandledStep DEF Types
<1>4. m.value \subseteq AllValues /\ m.value \subseteq Submitted
  BY <1>1, <1>3 DEF IInv, OriginInv, TypeInv, Messages
<1>5. TypeInv'
  BY <1>1, <1>2, <1>3, <1>4 DEF TypeInv
<1>6. CountInv'
  BY <1>2, <1>3 DEF IInv, CountInv, IsReply, Types
<1>7. ValueInv'
  BY <1>2, <1>3 DEF IInv, ValueInv
<1>8. OriginInv'
  <2>1. \A q \in Procs : buffered_values'[q] \subseteq Submitted
    BY <1>1, <1>2, <1>4 DEF IInv, OriginInv, TypeInv
  <2>2. QED BY <1>2, <1>3, <2>1 DEF IInv, OriginInv
<1>9. LearntInv' /\ ResultsGrow'
  BY <1>2, LearntKept
<1>10. QED BY <1>3, <1>5, <1>6, <1>7, <1>8, <1>9 DEF IInv

(* A learner counts a copy of an ack, and learns its value once a majority *)
(* has acknowledged it and it is above what the learner knows.             *)
LEMMA LearnAckStep ==
  ASSUME IInv, NEW p \in Procs, NEW m \in Deliverable(p, "learn"), LearnAck(p, m)
  PROVE  /\ IInv'
         /\ learnt_value' # learnt_value =>
              /\ learnt_value' = [learnt_value EXCEPT ![p] = m.value]
              /\ Less(learnt_value[p], m.value) /\ m.value \subseteq Submitted
              /\ Acknowledged(m.value) /\ UNCHANGED <<msgs, round, results>>
<1> DEFINE u == m.proposer
           i == m.num
           C == Copies(p, u, i) \cup {m}
<1>1. TypeInv
  BY DEF IInv
<1>2. /\ UNCHANGED <<pc, round, results, status, ack_count, nack_count,
                     active_proposal_number, proposed_value, buffered_values,
                     accepted_value, msgs>>
      /\ Handled(p, m)
      /\ learn_count' = [learn_count EXCEPT ![p][u][i] = @ + 1]
      /\ \/ /\ learn_count'[p][u][i] >= Majority /\ Less(learnt_value[p], m.value)
            /\ learnt_value' = [learnt_value EXCEPT ![p] = m.value]
            /\ Notify(p, "learning")
         \/ UNCHANGED <<learnt_value, notified>>
  BY DEF LearnAck, proposerVars, counters
<1>3. /\ m \in msgs /\ m \notin received[p] /\ m.type = "learn"
      /\ received'[p] = received[p] \cup {m}
      /\ \A q \in Procs \ {p} : received'[q] = received[q]
      /\ received' \in [Procs -> SUBSET msgs]
      /\ \A q \in Procs : \A x \in received'[q] : IsReply(x) => x.proposer = q
      /\ \A q \in Procs : \A t \in Types : t # "learn" => Answered(q, t)' = Answered(q, t)
      /\ \A q \in Procs : \A v \in Procs : \A j \in Numbers :
           q # p => Copies(q, v, j)' = Copies(q, v, j)
      /\ PhaseInv' /\ NumberInv' /\ ReplyInv' /\ AcksFormChain' /\ ProposalsGrow'
      /\ \A q \in Procs : SentValue(q)' = SentValue(q)
      /\ Submitted' = Submitted
  BY <1>2, HandledStep DEF Types
<1>4. u \in Procs /\ i \in Nat /\ m.value \subseteq AllValues /\ m.value \subseteq Submitted
  BY <1>1, <1>3 DEF IInv, OriginInv, TypeInv, Messages
<1>5. i \in Numbers
  <2>1. 1 <= i /\ i <= active_proposal_number[u]
    BY <1>3 DEF IInv, NumberInv
  <2>2. active_proposal_number[u] <= Cardinality(SentValue(u))
    BY <1>4 DEF IInv, ValueInv
  <2>3. SentValue(u) \subseteq AllValues
    BY <1>1 DEF SentValue, TypeInv, Messages
  <2>4. /\ Cardinality(SentValue(u)) <= Cardinality(AllValues)
        /\ Cardinality(SentValue(u)) \in Nat /\ Cardinality(AllValues) \in Nat
    BY <2>3, ValueSets
  <2>5. active_proposal_number[u] \in Nat
    BY <1>1, <1>4 DEF TypeInv
  <2>6. QED BY <1>4, <2>1, <2>2, <2>4, <2>5 DEF Numbers
<1> HIDE DEF u, i
<1>6. /\ Copies(p, u, i)' = C /\ m \notin Copies(p, u, i)
      /\ \A v \in Procs : \A j \in Numbers :
           v # u \/ j # i => Copies(p, v, j)' = Copies(p, v, j)
  BY <1>3 DEF Copies, u, i
<1>7. C \subseteq msgs /\ \A x \in C : x.type = "learn" /\ About(x, u, i)
  BY <1>1, <1>3 DEF Copies, TypeInv, About, u, i
<1>8. /\ Copies(p, u, i) \subseteq msgs
      /\ \A x \in Copies(p, u, i) : x.type = "learn" /\ About(x, u, i)
  BY <1>7
<1>9. IsFiniteSet(Copies(p, u, i))
  BY <1>8, CopiesOfOne
<1>10. Cardinality(C) = Cardinality(Copies(p, u, i)) + 1
  BY <1>6, <1>9, FS_AddElement
<1>11. m \in C /\ (Cardinality(C) >= Majority => Acknowledged(m.value))
  BY <1>7, CopiesOfOne
<1> HIDE DEF C
<1>12. /\ learn_count'[p][u][i] = learn_count[p][u][i] + 1
       /\ learn_count' \in [Procs -> [Procs -> [Numbers -> Nat]]]
       /\ \A q \in Procs : \A v \in Procs : \A j \in Numbers :
            q # p \/ v # u \/ j # i => learn_count'[q][v][j] = learn_count[q][v][j]
  <2> DEFINE row == [learn_count[p][u] EXCEPT ![i] = learn_count[p][u][i] + 1]
             table == [learn_count[p] EXCEPT ![u] = row]
  <2>1. /\ learn_count \in [Procs -> [Procs -> [Numbers -> Nat]]]
        /\ learn_count' = [learn_count EXCEPT ![p] = table]
    BY <1>1, <1>2 DEF TypeInv
  <2>2. /\ row \in [Numbers -> Nat] /\ row[i] = learn_count[p][u][i] + 1
        /\ \A j \in Numbers : j # i => row[j] = learn_count[p][u][j]
    BY <1>4, <1>5, <2>1
  <2> HIDE DEF row
  <2>3. /\ table \in [Procs -> [Numbers -> Nat]] /\ table[u] = row
        /\ \A v \in Procs : v # u => table[v] = learn_count[p][v]
    BY <1>4, <2>1, <2>2
  <2> HIDE DEF table
  <2>4. /\ learn_count' \in [Procs -> [Procs -> [Numbers -> Nat]]] /\ learn_count'[p] = table
        /\ \A q \in Procs : q # p => learn_count'[q] = learn_count[q]
    BY <2>1, <2>3
  <2>5. QED BY <2>2, <2>3, <2>4
<1>13. learn_count'[p][u][i] = Cardinality(C)
  BY <1>4, <1>5, <1>10, <1>12 DEF IInv, CountInv
<1>14. learnt_value' # learnt_value =>
         /\ learnt_value' = [learnt_value EXCEPT ![p] = m.value]
         /\ Less(learnt_value[p], m.value)
         /\ Acknowledged(m.value)
  BY <1>2, <1>11, <1>13
<1>15. TypeInv'
  <2>1. notified' \in [Procs -> BOOLEAN]
    BY <1>1, <1>2, NotifyType
  <2>2. learnt_value' \in [Procs -> SUBSET AllValues]
    BY <1>1, <1>4, <1>14 DEF TypeInv
  <2>3. QED BY <1>1, <1>2, <1>3, <1>12, <2>1, <2>2 DEF TypeInv
<1>16. CountInv'
  <2>1. \A q \in Procs : \A v \in Procs : \A j \in Numbers :
          learn_count'[q][v][j] = Cardinality(Copies(q, v, j)')
    <3>1. \A q \in Procs : \A v \in Procs : \A j \in Numbers :
            learn_count[q][v][j] = Cardinality(Copies(q, v, j))
      BY DEF IInv, CountInv
    <3>2. SUFFICES ASSUME NEW q \in Procs, NEW v \in Procs, NEW j \in Numbers
                   PROVE  learn_count'[q][v][j] = Cardinality(Copies(q, v, j)')
      OBVIOUS
    <3>3. CASE q = p /\ v = u /\ j = i
      BY <1>6, <1>13, <3>3
    <3>4. CASE q # p \/ v # u \/ j # i
      <4>1. Copies(q, v, j)' = Copies(q, v, j)
        <5>1. CASE q # p
          BY <1>3, <5>1
        <5>2. CASE q = p
          <6>1. v # u \/ j # i
            BY <3>4, <5>2
          <6>2. QED BY <1>6, <5>2, <6>1
        <5>3. QED BY <5>1, <5>2
      <4>2. learn_count'[q][v][j] = learn_count[q][v][j]
        BY <1>12, <3>4
      <4>3. learn_count[q][v][j] = Cardinality(Copies(q, v, j))
        BY <3>1
      <4>4. QED BY <4>1, <4>2, <4>3
    <3>5. QED BY <3>3, <3>4
  <2>2. \A q \in Procs : ack_count'[q] = Cardinality(Answered(q, "ack")')
                         /\ nack_count'[q] = Cardinality(Answered(q, "nack")')
    BY <1>2, <1>3 DEF IInv, CountInv, Types
  <2>3. QED BY <1>3, <2>1, <2>2 DEF CountInv
<1>17. ValueInv'
  BY <1>2, <1>3 DEF IInv, ValueInv
<1>18. OriginInv'
  <2>1. \A q \in Procs : learnt_value'[q] \subseteq Submitted
    BY <1>1, <1>4, <1>14 DEF IInv, OriginInv, TypeInv
  <2>2. QED BY <1>2, <1>3, <2>1 DEF IInv, OriginInv
<1>19. LearntInv'
  <2>1. \A v : Acknowledged(v) => Acknowledged(v)'
    BY <1>2, AcknowledgedStable
  <2>2. \A q \in Procs : /\ learnt_value[q] \subseteq learnt_value'[q]
                         /\ learnt_value'[q] = learnt_value[q] \/ Acknowledged(learnt_value'[q])
    BY <1>1, <1>14 DEF TypeInv
  <2>3. ASSUME NEW q \in Procs PROVE learnt_value'[q] # Bottom => Acknowledged(learnt_value[q])'
    BY <2>1, <2>2 DEF IInv, LearntInv
  <2>4. ASSUME NEW q \in Procs, NEW j \in 1..Len(results[q])
        PROVE  /\ Leq(results[q][j], learnt_value'[q])
               /\ results[q][j] # Bottom => Acknowledged(results[q][j])'
    BY <1>2, <2>1, <2>2 DEF IInv, LearntInv
  <2>5. QED BY <1>2, <2>3, <2>4 DEF LearntInv
<1>20. ResultsGrow'
  BY <1>2 DEF IInv, ResultsGrow, InitialValue
<1>21. IInv'
  BY <1>3, <1>15, <1>16, <1>17, <1>18, <1>19, <1>20 DEF IInv
<1>22. QED BY <1>2, <1>4, <1>14, <1>21

-----------------------------------------------------------------------------
(* The invariant is inductive.                                             *)

(* Every step preserves the invariant.                                     *)
LEMMA NextIInv == IInv /\ [Next]_vars => IInv'
<1> SUFFICES ASSUME IInv, [Next]_vars PROVE IInv'
  OBVIOUS
<1>1. CASE UNCHANGED vars
  BY <1>1, StutterStep
<1>2. ASSUME NEW p \in Procs, Main(p) PROVE IInv'
  BY <1>2, ReceiveValueStep, ProposeStep, WaitingStep, RefineStep, LearnValueStep
     DEF Main, Turn
<1>3. ASSUME NEW p \in Procs, Network(p) PROVE IInv'
  BY <1>3, AcceptStep, RejectStep, ProcessAckStep, ProcessNackStep, InternalReceiveStep,
     LearnAckStep DEF Network
<1>4. QED BY <1>1, <1>2, <1>3 DEF Next

(* The inductive invariant holds in every reachable state.                 *)
THEOREM Invariance == Spec => []IInv
BY InitIInv, NextIInv, PTL DEF Spec

-----------------------------------------------------------------------------
(* The checked properties.                                                 *)

(* Two values that majorities acknowledged are comparable: an acceptor in  *)
(* both majorities acknowledged both.                                      *)
LEMMA AcknowledgedComparable ==
  ASSUME IInv, NEW v, NEW w, Acknowledged(v), Acknowledged(w)
  PROVE  Comparable(v, w)
<1>1. PICK Q \in SUBSET Procs :
        /\ Cardinality(Q) >= Majority
        /\ \A a \in Q : \E r \in msgs : r.type = "ack" /\ r.from = a /\ r.value = v
  BY DEF Acknowledged
<1>2. PICK S \in SUBSET Procs :
        /\ Cardinality(S) >= Majority
        /\ \A a \in S : \E r \in msgs : r.type = "ack" /\ r.from = a /\ r.value = w
  BY DEF Acknowledged
<1>3. PICK a \in Procs : a \in Q /\ a \in S
  BY <1>1, <1>2, QuorumsMeet
<1>4. PICK r \in msgs : r.type = "ack" /\ r.from = a /\ r.value = v
  BY <1>1, <1>3
<1>5. PICK s \in msgs : s.type = "ack" /\ s.from = a /\ s.value = w
  BY <1>2, <1>3
<1>6. Comparable(r.value, s.value)
  BY <1>4, <1>5 DEF IInv, AcksFormChain
<1>7. QED BY <1>4, <1>5, <1>6

(* Whatever a learner holds or learn_value returned was acknowledged.      *)
LEMMA LearntAcknowledged ==
  ASSUME IInv, NEW v \in Learnt
  PROVE  v = Bottom \/ Acknowledged(v)
BY DEF IInv, LearntInv, Learnt

(* What a majority acknowledged is comparable with all that was learnt.    *)
LEMMA LearntComparable ==
  ASSUME IInv, NEW v, v = Bottom \/ Acknowledged(v), NEW w \in Learnt
  PROVE  Comparable(v, w)
<1>1. w = Bottom \/ Acknowledged(w)
  BY LearntAcknowledged
<1>2. CASE Acknowledged(v) /\ Acknowledged(w)
  BY <1>2, AcknowledgedComparable
<1>3. CASE v = Bottom \/ w = Bottom
  BY <1>3 DEF Comparable
<1>4. QED BY <1>1, <1>2, <1>3

(* No counter of a proposer or a learner exceeds N, however answers are    *)
(* delayed or reordered, and no proposer numbers more proposals than there *)
(* are values.                                                             *)
THEOREM TypeCorrect == Spec => []TypeOK
<1>1. IInv => TypeOK
  <2> SUFFICES ASSUME IInv PROVE TypeOK
    OBVIOUS
  <2>1. N \in Nat
    BY ProcSets
  <2>2. \A p \in Procs : ack_count[p] \in 0..N /\ nack_count[p] \in 0..N
    <3> SUFFICES ASSUME NEW p \in Procs, NEW t \in {"ack", "nack"}
                 PROVE  Cardinality(Answered(p, t)) \in 0..N
      BY DEF IInv, CountInv
    <3>1. /\ Answered(p, t) \subseteq msgs
          /\ \A x \in Answered(p, t) : IsReply(x) /\ About(x, p, active_proposal_number[p])
      BY DEF Answered, IsReply, About, IInv, CountInv, TypeInv
    <3>2. Cardinality(Answered(p, t)) \in Nat /\ Cardinality(Answered(p, t)) <= N
      BY <3>1, AnswersAreFew
    <3>3. QED BY <2>1, <3>2
  <2>3. \A p \in Procs : \A q \in Procs : \A i \in Numbers : learn_count[p][q][i] \in 0..N
    <3> SUFFICES ASSUME NEW p \in Procs, NEW q \in Procs, NEW i \in Numbers
                 PROVE  Cardinality(Copies(p, q, i)) \in 0..N
      BY DEF IInv, CountInv
    <3>1. /\ Copies(p, q, i) \subseteq msgs
          /\ \A x \in Copies(p, q, i) : x.type = "learn" /\ About(x, q, i)
      BY DEF Copies, About, IInv, TypeInv
    <3>2. Cardinality(Copies(p, q, i)) \in Nat /\ Cardinality(Copies(p, q, i)) <= N
      BY <3>1, CopiesOfOne
    <3>3. QED BY <2>1, <3>2
  <2>4. \A p \in Procs : active_proposal_number[p] \in {0} \cup Numbers
    <3> SUFFICES ASSUME NEW p \in Procs
                 PROVE  active_proposal_number[p] \in {0} \cup Numbers
      OBVIOUS
    <3>1. active_proposal_number[p] <= Cardinality(SentValue(p))
      BY DEF IInv, ValueInv
    <3>2. SentValue(p) \subseteq AllValues
      BY DEF SentValue, IInv, TypeInv, Messages
    <3>3. /\ Cardinality(SentValue(p)) <= Cardinality(AllValues)
          /\ Cardinality(SentValue(p)) \in Nat /\ Cardinality(AllValues) \in Nat
      BY <3>2, ValueSets
    <3>4. active_proposal_number[p] \in Nat
      BY DEF IInv, TypeInv
    <3>5. QED BY <3>1, <3>3, <3>4 DEF Numbers
  <2>5. /\ ack_count \in [Procs -> 0..N] /\ nack_count \in [Procs -> 0..N]
        /\ active_proposal_number \in [Procs -> {0} \cup Numbers]
    BY <2>2, <2>4 DEF IInv, TypeInv
  <2>6. learn_count \in [Procs -> [Procs -> [Numbers -> 0..N]]]
    BY <2>3 DEF IInv, TypeInv
  <2>7. QED BY <2>5, <2>6 DEF IInv, TypeInv, PhaseInv, TypeOK
<1>2. QED BY <1>1, Invariance, PTL

(* Every counter is the number of answers handled to the proposal it       *)
(* stands for.                                                             *)
THEOREM CountersSound == Spec => []CountsMatchAnswers
<1>1. IInv => CountsMatchAnswers
  BY DEF IInv, CountInv, Answered, Copies, CountsMatchAnswers
<1>2. QED BY <1>1, Invariance, PTL

(* A proposer never proposes a value that is not above all it proposed     *)
(* before, over refinements and over rounds.                               *)
THEOREM Growth == Spec => []ProposalsGrow
<1>1. IInv => ProposalsGrow
  BY DEF IInv
<1>2. QED BY <1>1, Invariance, PTL

(* Every result contains the values submitted so far and the results       *)
(* before it.                                                              *)
THEOREM ResultsSound == Spec => []ResultsGrow
<1>1. IInv => ResultsGrow
  BY DEF IInv
<1>2. QED BY <1>1, Invariance, PTL

(* All that learners know and learn_value returned is a chain.             *)
THEOREM Agreement == Spec => []LearntChain
<1>1. IInv => LearntChain
  BY LearntAcknowledged, LearntComparable DEF LearntChain
<1>2. QED BY <1>1, Invariance, PTL

(* A majority of the acceptors holds for ever what a learner knows.        *)
THEOREM Durability == Spec => []LearntIsHeld
<1>1. IInv => LearntIsHeld
  <2> SUFFICES ASSUME IInv, NEW v \in Learnt, v # Bottom
               PROVE  Cardinality({a \in Procs : Leq(v, accepted_value[a])}) >= Majority
    BY DEF LearntIsHeld
  <2> DEFINE H == {a \in Procs : Leq(v, accepted_value[a])}
  <2>1. PICK Q \in SUBSET Procs :
          /\ Cardinality(Q) >= Majority
          /\ \A a \in Q : \E r \in msgs : r.type = "ack" /\ r.from = a /\ r.value = v
    BY LearntAcknowledged DEF Acknowledged
  <2>2. Q \subseteq H
    BY <2>1 DEF IInv, AcksFormChain
  <2>3. IsFiniteSet(H) /\ Cardinality(H) \in Nat
    BY ProcSets
  <2>4. Cardinality(Q) <= Cardinality(H) /\ Cardinality(Q) \in Nat
    BY <2>2, <2>3, ProcSets, FS_Subset
  <2>5. QED BY <2>1, <2>3, <2>4, MajorityType
<1>2. QED BY <1>1, Invariance, PTL

(* A step keeps what a process has, and puts what it is given or told into *)
(* the buffer.                                                             *)
LEMMA NothingDroppedStep == IInv /\ NothingDropped /\ [Next]_vars => NothingDropped'
<1> DEFINE Kept(p) == proposed_value[p] \cup buffered_values[p]
<1> SUFFICES ASSUME IInv, NothingDropped, [Next]_vars, NEW p \in Procs
             PROVE  /\ \A i \in 1..round'[p] : InitialValue(p, i) \subseteq Kept(p)'
                    /\ \A m \in received'[p] : m.type = "internal" => m.value \subseteq Kept(p)'
  BY DEF NothingDropped, InitialValue
<1> USE DEF mainVars, proposerVars, counters, learnerVars, netVars
<1>1. TypeInv
  BY DEF IInv
<1>2. /\ \A i \in 1..round[p] : InitialValue(p, i) \subseteq Kept(p)
      /\ \A m \in received[p] : m.type = "internal" => m.value \subseteq Kept(p)
  BY DEF NothingDropped
\* Enough for a step that leaves the round alone.
<1>3. ASSUME round'[p] = round[p], Kept(p) \subseteq Kept(p)',
             \A m \in received'[p] \ received[p] : m.type = "internal" => m.value \subseteq Kept(p)'
      PROVE  /\ \A i \in 1..round'[p] : InitialValue(p, i) \subseteq Kept(p)'
             /\ \A m \in received'[p] : m.type = "internal" => m.value \subseteq Kept(p)'
  <2> HIDE DEF Kept
  <2>1. QED BY <1>2, <1>3 DEF InitialValue
<1>4. CASE UNCHANGED vars
  BY <1>3, <1>4 DEF vars
<1>5. ASSUME NEW q \in Procs, ReceiveValue(q)
      PROVE  /\ \A i \in 1..round'[p] : InitialValue(p, i) \subseteq Kept(p)'
             /\ \A m \in received'[p] : m.type = "internal" => m.value \subseteq Kept(p)'
  <2>1. CASE q # p
    <3>1. /\ round'[p] = round[p] /\ buffered_values'[p] = buffered_values[p]
          /\ proposed_value' = proposed_value /\ received' = received
      BY <1>1, <1>5, <2>1 DEF ReceiveValue, TypeInv
    <3>2. QED BY <1>3, <3>1
  <2>2. CASE q = p
    <3>1. /\ round'[p] = round[p] + 1 /\ proposed_value' = proposed_value /\ received' = received
          /\ buffered_values'[p] = InitialValue(p, round[p] + 1) \cup buffered_values[p]
      BY <1>1, <1>5, <2>2 DEF ReceiveValue, TypeInv
    <3>2. round[p] \in Nat
      BY <1>1 DEF TypeInv
    <3>3. \A i \in 1..round'[p] : i \in 1..round[p] \/ i = round[p] + 1
      BY <3>1, <3>2
    <3>4. Kept(p) \subseteq Kept(p)' /\ InitialValue(p, round[p] + 1) \subseteq Kept(p)'
      BY <3>1
    <3> HIDE DEF Kept
    <3>5. \A i \in 1..round'[p] : InitialValue(p, i) \subseteq Kept(p)'
      BY <1>2, <3>3, <3>4 DEF InitialValue
    <3>6. QED BY <1>2, <3>1, <3>4, <3>5
  <2>3. QED BY <2>1, <2>2
\* The other steps of a main thread: propose() moves the buffer over.
<1>6. ASSUME NEW q \in Procs,
             Propose(q) \/ ProposeNothing(q) \/ Turn(q) \/ LearnValue(q) \/ AwaitLearnt(q)
      PROVE  round' = round /\ received' = received /\ Kept(p) \subseteq Kept(p)'
  <2>1. CASE Propose(q)
    <3>1. /\ proposed_value' = [proposed_value EXCEPT ![q] = proposed_value[q] \cup buffered_values[q]]
          /\ buffered_values' = [buffered_values EXCEPT ![q] = {}]
          /\ round' = round /\ received' = received
      BY <2>1 DEF Propose
    <3>2. QED BY <1>1, <3>1 DEF TypeInv
  <2>2. CASE ProposeNothing(q) \/ Turn(q) \/ LearnValue(q) \/ AwaitLearnt(q)
    BY <2>2 DEF ProposeNothing, Turn, Decide, Refine, WaitAgain, LearnValue, AwaitLearnt
  <2>3. QED BY <1>6, <2>1, <2>2
\* The handlers: only InternalReceive handles an internal message.
<1>7. ASSUME NEW q \in Procs, Network(q)
      PROVE  /\ round' = round /\ Kept(p) \subseteq Kept(p)'
             /\ \A m \in received'[p] \ received[p] : m.type = "internal" => m.value \subseteq Kept(p)'
  <2>1. ASSUME NEW m \in Deliverable(q, "internal"), InternalReceive(q, m)
        PROVE  /\ round' = round /\ proposed_value' = proposed_value
               /\ buffered_values' = [buffered_values EXCEPT ![q] = m.value \cup @]
               /\ received' = [received EXCEPT ![q] = @ \cup {m}]
    BY <2>1 DEF InternalReceive, Handled
  <2>2. ASSUME NEW type \in {"proposal", "ack", "nack", "learn"}, NEW m \in Deliverable(q, type),
               \/ Accept(q, m) \/ Reject(q, m)
               \/ ProcessAck(q, m) \/ ProcessNack(q, m) \/ LearnAck(q, m)
        PROVE  /\ m.type # "internal" /\ round' = round /\ buffered_values' = buffered_values
               /\ Kept(p) \subseteq Kept(p)'
               /\ received' = [received EXCEPT ![q] = @ \cup {m}]
    <3>1. m.type # "internal"
      BY DEF Deliverable
    <3>2. /\ round' = round /\ buffered_values' = buffered_values
          /\ received' = [received EXCEPT ![q] = @ \cup {m}]
      BY <2>2 DEF Accept, Reject, ProcessAck, ProcessNack, LearnAck, Handled
    <3>3. \/ proposed_value' = proposed_value
          \/ proposed_value' = [proposed_value EXCEPT ![q] = proposed_value[q] \cup m.value]
      BY <2>2 DEF Accept, Reject, ProcessAck, ProcessNack, LearnAck
    <3>4. proposed_value[p] \subseteq proposed_value'[p]
      <4>1. proposed_value \in [Procs -> SUBSET AllValues]
        BY <1>1 DEF TypeInv
      <4>2. QED BY <3>3, <4>1
    <3>5. QED BY <3>1, <3>2, <3>4
  <2>3. CASE \E m \in Deliverable(q, "internal") : InternalReceive(q, m)
    <3>1. PICK m \in Deliverable(q, "internal") : InternalReceive(q, m)
      BY <2>3
    <3>2. /\ round' = round /\ proposed_value' = proposed_value
          /\ buffered_values' = [buffered_values EXCEPT ![q] = m.value \cup @]
          /\ received' = [received EXCEPT ![q] = @ \cup {m}]
      BY <2>1, <3>1
    <3>3. CASE q = p
      <4>1. /\ buffered_values'[p] = m.value \cup buffered_values[p]
            /\ received'[p] = received[p] \cup {m}
        BY <1>1, <3>2, <3>3 DEF TypeInv
      <4>2. QED BY <3>2, <4>1
    <3>4. CASE q # p
      <4>1. buffered_values'[p] = buffered_values[p] /\ received'[p] = received[p]
        BY <1>1, <3>2, <3>4 DEF TypeInv
      <4>2. QED BY <3>2, <4>1
    <3>5. QED BY <3>3, <3>4
  <2>4. CASE \E type \in {"proposal", "ack", "nack", "learn"} : \E m \in Deliverable(q, type) :
               \/ Accept(q, m) \/ Reject(q, m)
               \/ ProcessAck(q, m) \/ ProcessNack(q, m) \/ LearnAck(q, m)
    <3>1. PICK type \in {"proposal", "ack", "nack", "learn"} : \E m \in Deliverable(q, type) :
               \/ Accept(q, m) \/ Reject(q, m)
               \/ ProcessAck(q, m) \/ ProcessNack(q, m) \/ LearnAck(q, m)
      BY <2>4
    <3>2. PICK m \in Deliverable(q, type) :
               \/ Accept(q, m) \/ Reject(q, m)
               \/ ProcessAck(q, m) \/ ProcessNack(q, m) \/ LearnAck(q, m)
      BY <3>1
    <3>3. /\ m.type # "internal" /\ round' = round /\ Kept(p) \subseteq Kept(p)'
          /\ received' = [received EXCEPT ![q] = @ \cup {m}]
      BY <2>2, <3>2
    <3> HIDE DEF Kept
    <3>4. QED BY <1>1, <3>3 DEF TypeInv
  <2>5. QED BY <1>7, <2>3, <2>4 DEF Network
<1>8. PICK q \in Procs : UNCHANGED vars \/ Main(q) \/ Network(q)
  BY DEF Next
<1>9. QED BY <1>3, <1>4, <1>5, <1>6, <1>7, <1>8 DEF Main

(* No value a process was given, or was told by another one, is lost when  *)
(* its buffer is emptied.                                                  *)
THEOREM NothingLost == Spec => []NothingDropped
<1>1. Init => NothingDropped
  BY DEF Init, NothingDropped
<1>2. QED BY <1>1, Invariance, NothingDroppedStep, PTL DEF Spec

-----------------------------------------------------------------------------
(* Refinement.                                                             *)

(* Every step is a submission, a learning, an answer or none of them.      *)
LEMMA NextSimulates == IInv /\ [Next]_vars => [GLA!AbsNext]_(GLA!absvars)
<1> USE DEF mainVars, learnerVars, GLA!absvars
<1> SUFFICES ASSUME IInv, [Next]_vars PROVE GLA!AbsNext \/ UNCHANGED GLA!absvars
  OBVIOUS
<1>1. CASE UNCHANGED vars
  BY <1>1 DEF vars
<1>2. ASSUME NEW p \in Procs, ReceiveValue(p) PROVE GLA!Submit(p)
  BY <1>2 DEF ReceiveValue, GLA!Submit, IInv, PhaseInv
<1>3. ASSUME NEW p \in Procs, LearnValue(p) PROVE GLA!Answer(p)
  <2>1. Len(results[p]) < round[p]
    <3>1. results[p] \in Seq(SUBSET AllValues) /\ round[p] = Len(results[p]) + 1
      BY <1>3 DEF LearnValue, IInv, PhaseInv, TypeInv
    <3>2. Len(results[p]) \in Nat
      BY <3>1
    <3>3. QED BY <3>1, <3>2
  <2>2. <<p, round[p]>> \in learnt_value[p]
    BY <1>3 DEF LearnValue, HasLearnt, InitialValue
  <2>3. QED BY <1>3, <2>1, <2>2 DEF LearnValue, GLA!Answer
<1>4. ASSUME NEW p \in Procs,
             Propose(p) \/ ProposeNothing(p) \/ Turn(p) \/ AwaitLearnt(p)
      PROVE  UNCHANGED GLA!absvars
  BY <1>4 DEF Propose, ProposeNothing, Turn, Decide, Refine, WaitAgain, AwaitLearnt
<1>5. ASSUME NEW p \in Procs, NEW m,
             \/ Accept(p, m) \/ Reject(p, m) \/ ProcessAck(p, m) \/ ProcessNack(p, m)
             \/ InternalReceive(p, m)
      PROVE  UNCHANGED GLA!absvars
  BY <1>5 DEF Accept, Reject, ProcessAck, ProcessNack, InternalReceive
<1>6. ASSUME NEW p \in Procs, NEW m \in Deliverable(p, "learn"), LearnAck(p, m)
      PROVE  UNCHANGED GLA!absvars \/ \E v \in SUBSET GLA!SubmittedValues : GLA!Learn(p, v)
  <2>1. CASE learnt_value' = learnt_value
    BY <1>6, <2>1 DEF LearnAck
  <2>2. CASE learnt_value' # learnt_value
    <3>1. /\ learnt_value' = [learnt_value EXCEPT ![p] = m.value]
          /\ Less(learnt_value[p], m.value) /\ m.value \subseteq Submitted
          /\ Acknowledged(m.value) /\ UNCHANGED <<msgs, round, results>>
      BY <1>6, <2>2, LearnAckStep
    <3>2. m.value \in SUBSET GLA!SubmittedValues
      BY <3>1 DEF Submitted, GLA!SubmittedValues
    <3>3. GLA!EverLearnt = Learnt
      BY DEF Learnt, GLA!EverLearnt
    <3>4. \A w \in GLA!EverLearnt : GLA!Comparable(m.value, w)
      BY <3>1, <3>3, LearntComparable DEF Comparable, GLA!Comparable, GLA!Leq
    <3>5. GLA!Learn(p, m.value)
      BY <3>1, <3>4 DEF GLA!Learn, GLA!Less, GLA!Leq
    <3>6. QED BY <3>2, <3>5
  <2>3. QED BY <2>1, <2>2
<1>7. ASSUME NEW p \in Procs, Main(p) PROVE GLA!AbsNext \/ UNCHANGED GLA!absvars
  BY <1>2, <1>3, <1>4, <1>7 DEF Main, GLA!AbsNext
<1>8. ASSUME NEW p \in Procs, Network(p) PROVE GLA!AbsNext \/ UNCHANGED GLA!absvars
  BY <1>5, <1>6, <1>8 DEF Network, GLA!AbsNext
<1>9. QED BY <1>1, <1>7, <1>8 DEF Next

(* The generalized program implements generalized lattice agreement.       *)
THEOREM Refinement == Spec => ImplementsGLA
<1>1. Init => GLA!AbsInit
  BY DEF Init, GLA!AbsInit, GLA!Bottom
<1>2. QED
  BY <1>1, NextSimulates, Invariance, PTL DEF Spec, ImplementsGLA, GLA!AbsSpec

-----------------------------------------------------------------------------
(* The system does not come to rest too early.                             *)

(* A process that a step leaves alone is where it was.                     *)
LEMMA Undisturbed ==
  ASSUME NEW q \in Procs, Awake(q), InRound(q),
         pc'[q] = pc[q], status'[q] = status[q], notified'[q] = notified[q],
         ack_count'[q] = ack_count[q], nack_count'[q] = nack_count[q],
         active_proposal_number'[q] = active_proposal_number[q],
         round'[q] = round[q], buffered_values'[q] = buffered_values[q],
         learnt_value'[q] = learnt_value[q], SentValue(q)' = SentValue(q)
  PROVE  Awake(q)' /\ InRound(q)'
BY DEF Awake, InRound, CanDecide, CanRefine, HasLearnt, InitialValue

(* New messages R, and messages that are handled: proposals come from      *)
(* their proposer, an ack has its copy, and a proposal that is handled its *)
(* answer.                                                                 *)
LEMMA RepliedStep ==
  ASSUME RepliedInv, NEW R, msgs' = msgs \cup R,
         \A x \in R : IsProposal(x) => x.from = x.proposer,
         \A s \in R : s.type = "ack" => \E r \in R : r.type = "learn" /\ CopyOf(r, s),
         \A q \in Procs : \A m \in received'[q] :
           m \in received[q] \/ /\ <<m.type, m.from, q>> \in Links
                                /\ IsProposal(m) =>
                                     \E r \in R : /\ IsReply(r) /\ r.from = q
                                                  /\ About(r, m.proposer, m.num)
  PROVE  RepliedInv'
<1>1. \A x \in msgs' : IsProposal(x) => x.from = x.proposer
  BY DEF RepliedInv
<1>2. \A q \in Procs : \A m \in received'[q] : IsProposal(m) =>
        \E r \in msgs' : IsReply(r) /\ r.from = q /\ About(r, m.proposer, m.num)
  BY DEF RepliedInv
<1>3. \A s \in msgs' : s.type = "ack" => \E r \in msgs' : r.type = "learn" /\ CopyOf(r, s)
  BY DEF RepliedInv
<1>4. \A q \in Procs : \A m \in received'[q] : <<m.type, m.from, q>> \in Links
  BY DEF RepliedInv
<1>5. QED BY <1>1, <1>2, <1>3, <1>4 DEF RepliedInv, IsProposal, IsReply, About, CopyOf

(* A step that handles no copy of an ack: the learners are where they were. *)
LEMMA LearnerKept ==
  ASSUME LearnerInv, UNCHANGED <<learn_count, learnt_value>>,
         \A q \in Procs : \A m \in received'[q] : m \in received[q] \/ m.type # "learn"
  PROVE  LearnerInv'
BY DEF LearnerInv

(* Initially nobody waits.                                                 *)
LEMMA InitProgress == Init => ProgressInv
<1> SUFFICES ASSUME Init PROVE ProgressInv
  OBVIOUS
<1>1. \A p \in Procs : Awake(p) /\ InRound(p)
  BY DEF Init, Awake, InRound
<1>2. RepliedInv /\ LearnerInv
  BY DEF Init, RepliedInv, LearnerInv
<1>3. QED BY <1>1, <1>2 DEF ProgressInv

(* Stuttering changes nothing.                                             *)
LEMMA StutterProgress == ASSUME IInv, ProgressInv, UNCHANGED vars PROVE ProgressInv'
<1> USE DEF vars, mainVars, proposerVars, counters, learnerVars, netVars
<1>1. \A q \in Procs : SentValue(q)' = SentValue(q)
  BY DEF SentValue
<1>2. \A q \in Procs : Awake(q)' /\ InRound(q)'
  BY <1>1, Undisturbed DEF ProgressInv
<1>3. RepliedInv' /\ LearnerInv'
  BY DEF ProgressInv, RepliedInv, LearnerInv, IsProposal, IsReply, About, CopyOf
<1>4. QED BY <1>2, <1>3 DEF ProgressInv

(* The main thread falls asleep only when its condition does not hold, and *)
(* goes on to learn_value only when a majority has acknowledged.           *)
LEMMA WaitingProgress ==
  ASSUME IInv, ProgressInv, NEW p \in Procs,
         ProposeNothing(p) \/ Decide(p) \/ WaitAgain(p) \/ AwaitLearnt(p) \/ LearnValue(p)
  PROVE  ProgressInv'
<1> USE DEF mainVars, proposerVars, counters, learnerVars, netVars
<1>1. /\ UNCHANGED <<round, ack_count, nack_count, active_proposal_number, proposed_value,
                     buffered_values, accepted_value, learnt_value, learn_count, msgs,
                     received>>
      /\ \A q \in Procs \ {p} : pc'[q] = pc[q] /\ status'[q] = status[q]
                                /\ notified'[q] = notified[q]
  BY DEF ProposeNothing, Decide, WaitAgain, AwaitLearnt, LearnValue, IInv, TypeInv
<1>2. \A q \in Procs : SentValue(q)' = SentValue(q)
  BY <1>1 DEF SentValue
<1>3. ASSUME NEW q \in Procs \ {p} PROVE Awake(q)' /\ InRound(q)'
  BY <1>1, <1>2, Undisturbed DEF ProgressInv
<1>4. Awake(p) /\ InRound(p) /\ TypeInv /\ Majority >= 1
  BY MajorityType DEF ProgressInv, IInv
<1>5. Awake(p)' /\ InRound(p)'
  <2>1. CASE ProposeNothing(p)
    <3>1. /\ pc[p] = "start" /\ pc'[p] = "waiting"
          /\ status'[p] = status[p] /\ notified'[p] = notified[p]
      BY <1>4, <2>1 DEF ProposeNothing, TypeInv
    <3>2. status[p] # "Active"
      BY <1>4, <3>1 DEF InRound
    <3>3. QED BY <1>1, <3>1, <3>2 DEF Awake, InRound, CanDecide, CanRefine
  <2>2. CASE Decide(p)
    <3>1. /\ pc[p] = "waiting" /\ pc'[p] = "learn" /\ status'[p] = "Passive"
          /\ ack_count[p] >= Majority /\ status[p] = "Active"
      BY <1>4, <2>2 DEF Decide, CanDecide, TypeInv
    <3>2. InitialValue(p, round[p]) \subseteq SentValue(p)
      BY <1>4, <3>1 DEF InRound
    <3>3. QED BY <1>1, <1>2, <3>1, <3>2 DEF Awake, InRound, InitialValue, Majority, N
  <2>3. CASE WaitAgain(p)
    <3>1. /\ pc[p] = "waiting" /\ pc'[p] = "waiting" /\ status'[p] = status[p]
          /\ ~ CanDecide(p) /\ ~ CanRefine(p)
      BY <1>4, <2>3 DEF WaitAgain, TypeInv
    <3>2. QED
      BY <1>1, <1>2, <1>4, <3>1 DEF Awake, InRound, CanDecide, CanRefine, InitialValue
  <2>4. CASE AwaitLearnt(p)
    <3>1. /\ pc[p] \in {"learn", "learning"} /\ pc'[p] = "learning" /\ status'[p] = status[p]
          /\ ~ HasLearnt(p)
      BY <1>4, <2>4 DEF AwaitLearnt, TypeInv
    <3>2. QED
      BY <1>1, <1>2, <1>4, <3>1 DEF Awake, InRound, HasLearnt, InitialValue
  <2>5. CASE LearnValue(p)
    <3>1. pc[p] \in {"learn", "learning"} /\ pc'[p] = "next" /\ status'[p] = status[p]
      BY <1>4, <2>5 DEF LearnValue, TypeInv
    <3>2. QED
      BY <1>4, <3>1 DEF Awake, InRound
  <2>6. QED BY <2>1, <2>2, <2>3, <2>4, <2>5
<1>6. RepliedInv' /\ LearnerInv'
  BY <1>1 DEF ProgressInv, RepliedInv, LearnerInv, IsProposal, IsReply, About, CopyOf
<1>7. QED BY <1>3, <1>5, <1>6 DEF ProgressInv

(* The value that receive_value takes is in the buffer.                    *)
LEMMA ReceiveValueProgress ==
  ASSUME IInv, ProgressInv, NEW p \in Procs, ReceiveValue(p)
  PROVE  ProgressInv'
<1> USE DEF counters, learnerVars
<1> DEFINE value == InitialValue(p, round[p] + 1)
           x == Message("internal", 0, value, p, p)
           R == {x}
<1>1. /\ msgs' = msgs \cup R
      /\ UNCHANGED <<notified, status, ack_count, nack_count, active_proposal_number,
                     learnt_value, learn_count, received>>
      /\ pc[p] = "next"
  BY DEF ReceiveValue, Send
<1>2. /\ pc'[p] = "start" /\ round'[p] = round[p] + 1 /\ value \subseteq buffered_values'[p]
      /\ \A q \in Procs \ {p} : pc'[q] = pc[q] /\ round'[q] = round[q]
                                /\ buffered_values'[q] = buffered_values[q]
  BY DEF ReceiveValue, IInv, TypeInv
<1>3. \A y \in R : ~ IsProposal(y) /\ y.type = "internal"
  BY DEF Message, IsProposal
<1>4. value = InitialValue(p, round'[p])
  BY <1>2
<1> HIDE DEF R, value
<1>5. \A q \in Procs : SentValue(q)' = SentValue(q)
  BY <1>1, <1>3, NoNewProposals
<1>6. ASSUME NEW q \in Procs \ {p} PROVE Awake(q)' /\ InRound(q)'
  BY <1>1, <1>2, <1>5, Undisturbed DEF ProgressInv
<1>7. status[p] # "Active"
  BY <1>1 DEF ProgressInv, InRound
<1>8. Awake(p)' /\ InRound(p)'
  BY <1>1, <1>2, <1>4, <1>7 DEF Awake, InRound, InitialValue
<1>9. RepliedInv'
  BY <1>1, <1>3, RepliedStep DEF ProgressInv
<1>10. LearnerInv'
  BY <1>1, LearnerKept DEF ProgressInv
<1>11. QED BY <1>6, <1>8, <1>9, <1>10 DEF ProgressInv

(* propose() and refine() propose the value of the round, and count from   *)
(* zero before anybody can answer.                                         *)
LEMMA ProposalProgress ==
  ASSUME IInv, IInv', ProgressInv, NEW p \in Procs, Propose(p) \/ Refine(p)
  PROVE  ProgressInv'
<1> USE DEF counters, learnerVars, ResetCounters
<1> DEFINE n == active_proposal_number[p] + 1
           value == IF Refine(p) THEN proposed_value[p]
                                 ELSE Join(proposed_value[p], buffered_values[p])
           x == Message("proposal", n, value, p, p)
           R == {x}
<1>1. TypeInv /\ Awake(p) /\ InRound(p) /\ Majority >= 1 /\ Majority \in Nat
  BY MajorityType DEF IInv, ProgressInv
<1>2. /\ pc[p] \in {"start", "waiting"} /\ (Refine(p) <=> pc[p] = "waiting")
      /\ pc[p] = "waiting" => status[p] = "Active"
  BY DEF Propose, Refine, CanRefine
<1>3. /\ msgs' = msgs \cup R
      /\ UNCHANGED <<round, accepted_value, learnt_value, learn_count, received>>
      /\ pc'[p] = "waiting" /\ status'[p] = "Active"
      /\ active_proposal_number'[p] = n
      /\ ack_count'[p] = 0 /\ nack_count'[p] = 0
      /\ \A q \in Procs \ {p} :
           /\ pc'[q] = pc[q] /\ status'[q] = status[q] /\ notified'[q] = notified[q]
           /\ ack_count'[q] = ack_count[q] /\ nack_count'[q] = nack_count[q]
           /\ active_proposal_number'[q] = active_proposal_number[q]
           /\ buffered_values'[q] = buffered_values[q]
  <2>1. CASE Propose(p)
    <3>1. ~ Refine(p)
      BY <2>1 DEF Propose, Refine
    <3>2. QED BY <1>1, <2>1, <3>1 DEF Propose, Send, TypeInv
  <2>2. CASE Refine(p)
    BY <1>1, <2>2 DEF Refine, CanRefine, Send, TypeInv
  <2>3. QED BY <2>1, <2>2
<1>4. /\ IsProposal(x) /\ About(x, p, n) /\ x.value = value /\ x.from = p /\ x.proposer = p
      /\ x.type = "proposal" /\ \A y \in R : y = x
  BY DEF Message, IsProposal, About
<1>5. InitialValue(p, round[p]) \subseteq value
  <2>1. CASE pc[p] = "start"
    BY <1>1, <1>2, <2>1 DEF InRound
  <2>2. CASE pc[p] = "waiting"
    <3>1. InitialValue(p, round[p]) \subseteq SentValue(p)
      BY <1>1, <1>2, <2>2 DEF InRound
    <3>2. SentValue(p) \subseteq proposed_value[p]
      BY DEF IInv, ValueInv
    <3>3. QED BY <1>2, <2>2, <3>1, <3>2
  <2>3. QED BY <1>2, <2>1, <2>2
<1>6. n # 0 /\ n \in Nat
  BY <1>1 DEF TypeInv
<1> HIDE DEF n, value, x
<1>7. SentValue(p)' = value
  <2>1. NumberInv' /\ x \in msgs'
    BY <1>3 DEF IInv
  <2>2. x.proposer = p /\ x.num = active_proposal_number'[p]
    BY <1>3, <1>4 DEF About
  <2>3. {y \in msgs' : /\ y.type = "proposal"
                       /\ y.proposer = p
                       /\ y.num = active_proposal_number'[p]} = {x}
    BY <1>4, <2>1, <2>2 DEF NumberInv, IsProposal, About
  <2>4. QED BY <1>4, <2>3 DEF SentValue
<1>8. Awake(p)' /\ InRound(p)'
  <2>1. InitialValue(p, round'[p]) \subseteq SentValue(p)'
    BY <1>3, <1>5, <1>7
  <2>2. ~ (ack_count'[p] >= Majority) /\ ~ (nack_count'[p] > 0)
    BY <1>1, <1>3
  <2>3. Awake(p)'
    BY <1>3, <2>2 DEF Awake, CanDecide, CanRefine, Majority, N
  <2>4. QED BY <1>3, <1>6, <2>1, <2>3 DEF InRound, InitialValue
<1> HIDE DEF R
<1>9. \A q \in Procs \ {p} : SentValue(q)' = SentValue(q)
  <2>1. \A q \in Procs \ {p} : \A y \in R : ~ (IsProposal(y) /\ About(y, q, active_proposal_number[q]))
    BY <1>4 DEF About
  <2>2. QED BY <1>3, <2>1, SentValueStable
<1>10. ASSUME NEW q \in Procs \ {p} PROVE Awake(q)' /\ InRound(q)'
  BY <1>3, <1>9, Undisturbed DEF ProgressInv
<1>11. RepliedInv'
  BY <1>3, <1>4, RepliedStep DEF ProgressInv
<1>12. LearnerInv'
  BY <1>3, LearnerKept DEF ProgressInv
<1>13. QED BY <1>8, <1>10, <1>11, <1>12 DEF ProgressInv

(* An acceptor answers, and tells the learners what it acknowledges.       *)
LEMMA AnswerProgress ==
  ASSUME IInv, ProgressInv, NEW a \in Procs, NEW m \in Deliverable(a, "proposal"),
         Accept(a, m) \/ Reject(a, m)
  PROVE  ProgressInv'
<1> USE DEF mainVars, proposerVars, counters, learnerVars
<1> DEFINE r == Message("ack", m.num, m.value, m.proposer, a)
           c == Message("learn", m.num, m.value, m.proposer, a)
           d == Message("nack", m.num, Join(accepted_value[a], m.value), m.proposer, a)
           R == IF Accept(a, m) THEN {r, c} ELSE {d}
<1>1. /\ m \in msgs /\ IsProposal(m) /\ <<m.type, m.from, a>> \in Links /\ TypeInv
      /\ 1 <= m.num /\ m.num <= active_proposal_number[m.proposer]
  BY DEF Deliverable, IsProposal, IInv, NumberInv
<1>2. /\ UNCHANGED <<pc, round, notified, status, ack_count, nack_count,
                     active_proposal_number, buffered_values, learnt_value, learn_count>>
      /\ received' = [received EXCEPT ![a] = @ \cup {m}]
      /\ msgs' = msgs \cup R
  <2>1. CASE Accept(a, m)
    <3>1. R = {Message(type, m.num, m.value, m.proposer, a) : type \in {"ack", "learn"}}
      BY <2>1
    <3>2. QED BY <2>1, <3>1 DEF Accept, Send, Handled
  <2>2. CASE Reject(a, m)
    <3>1. ~ Accept(a, m)
      BY <2>2 DEF Accept, Reject
    <3>2. QED BY <2>2, <3>1 DEF Reject, Send, Handled
  <2>3. QED BY <2>1, <2>2
<1>3. /\ r.type = "ack" /\ r.from = a /\ About(r, m.proposer, m.num)
      /\ c.type = "learn" /\ CopyOf(c, r) /\ About(c, m.proposer, m.num)
      /\ d.type = "nack" /\ d.from = a /\ About(d, m.proposer, m.num)
  BY DEF Message, About, CopyOf
<1> HIDE DEF r, c, d
<1>4. /\ \A x \in R : /\ ~ IsProposal(x) /\ x.type # "internal"
                      /\ About(x, m.proposer, m.num)
      /\ \A x \in R : x.type = "ack" => \E y \in R : y.type = "learn" /\ CopyOf(y, x)
      /\ \E x \in R : IsReply(x) /\ x.from = a /\ About(x, m.proposer, m.num)
  BY <1>3 DEF IsProposal, IsReply
<1> HIDE DEF R
<1>5. \A x \in R : 1 <= x.num /\ x.num <= active_proposal_number[x.proposer]
  BY <1>1, <1>4 DEF About
<1>6. \A q \in Procs : SentValue(q)' = SentValue(q)
  BY <1>2, <1>4, <1>5, NoNewProposals
<1>7. \A q \in Procs : Awake(q)' /\ InRound(q)'
  BY <1>2, <1>6, Undisturbed DEF ProgressInv
<1>8. \A q \in Procs : \A x \in received'[q] : x \in received[q] \/ (x = m /\ q = a)
  BY <1>1, <1>2 DEF TypeInv
<1>9. RepliedInv'
  BY <1>1, <1>2, <1>4, <1>8, RepliedStep DEF ProgressInv
<1>10. LearnerInv'
  BY <1>1, <1>2, <1>8, LearnerKept DEF ProgressInv, IsProposal
<1>11. QED BY <1>7, <1>9, <1>10 DEF ProgressInv

(* What handling a message m that is no proposal leaves alone.             *)
LEMMA HandledProgress ==
  ASSUME IInv, ProgressInv, NEW p \in Procs, NEW t \in Types \ {"proposal"},
         NEW m \in Deliverable(p, t), Handled(p, m), UNCHANGED msgs
  PROVE  /\ m.type = t /\ m \in msgs
         /\ \A q \in Procs : \A x \in received'[q] : x \in received[q] \/ (x = m /\ q = p)
         /\ RepliedInv'
<1>1. /\ m \in msgs /\ m.type = t /\ ~ IsProposal(m) /\ <<m.type, m.from, p>> \in Links
      /\ TypeInv
  BY DEF Deliverable, IsProposal, IInv
<1>2. \A q \in Procs : \A x \in received'[q] : x \in received[q] \/ (x = m /\ q = p)
  BY <1>1 DEF Handled, TypeInv
<1>3. RepliedInv'
  <2> DEFINE R == {}
  <2>1. msgs' = msgs \cup R /\ \A x \in R : FALSE
    OBVIOUS
  <2> HIDE DEF R
  <2>2. QED BY <1>1, <1>2, <2>1, RepliedStep DEF ProgressInv
<1>4. QED BY <1>1, <1>2, <1>3

(* notify_one releases the thread that waits at place.                     *)
LEMMA NotifyWakes ==
  ASSUME TypeInv, NEW p \in Procs, NEW place, Notify(p, place)
  PROVE  /\ pc[p] = place => notified'[p]
         /\ notified[p] => notified'[p]
         /\ \A q \in Procs \ {p} : notified'[q] = notified[q]
<1> DEFINE b == notified[p] \/ pc[p] = place
<1>1. notified' = [notified EXCEPT ![p] = b] /\ notified \in [Procs -> BOOLEAN]
  BY DEF Notify, TypeInv
<1>2. pc[p] = place \/ notified[p] => b
  OBVIOUS
<1> HIDE DEF b
<1>3. notified'[p] = b /\ \A q \in Procs \ {p} : notified'[q] = notified[q]
  BY <1>1
<1>4. QED BY <1>2, <1>3

(* An answer wakes the waiter up.                                          *)
LEMMA CountProgress ==
  ASSUME IInv, ProgressInv, NEW p \in Procs,
         \/ \E m \in Deliverable(p, "ack") : ProcessAck(p, m)
         \/ \E m \in Deliverable(p, "nack") : ProcessNack(p, m)
  PROVE  ProgressInv'
<1> USE DEF learnerVars
<1>1. PICK t \in {"ack", "nack"} : \E m \in Deliverable(p, t) :
        \/ t = "ack" /\ ProcessAck(p, m)
        \/ t = "nack" /\ ProcessNack(p, m)
  OBVIOUS
<1>2. PICK m \in Deliverable(p, t) : \/ t = "ack" /\ ProcessAck(p, m)
                                     \/ t = "nack" /\ ProcessNack(p, m)
  BY <1>1
<1>3. TypeInv /\ Awake(p) /\ InRound(p)
  BY DEF IInv, ProgressInv
<1>4. /\ UNCHANGED <<pc, round, status, active_proposal_number, buffered_values,
                     accepted_value, learnt_value, learn_count, msgs>>
      /\ Handled(p, m)
      /\ \A q \in Procs \ {p} : /\ notified'[q] = notified[q]
                                /\ ack_count'[q] = ack_count[q]
                                /\ nack_count'[q] = nack_count[q]
  BY <1>2, <1>3 DEF ProcessAck, ProcessNack, Notify, TypeInv
<1>5. \/ UNCHANGED <<ack_count, nack_count, notified>>
      \/ /\ pc[p] = "waiting" => notified'[p]
         /\ notified[p] => notified'[p]
         /\ ack_count'[p] >= ack_count[p]
  <2>1. CASE IsCurrent(p, m)
    <3>1. Notify(p, "waiting")
      BY <1>2, <2>1 DEF ProcessAck, ProcessNack
    <3>2. ack_count'[p] = ack_count[p] + 1 \/ ack_count'[p] = ack_count[p]
      BY <1>2, <1>3, <2>1 DEF ProcessAck, ProcessNack, TypeInv
    <3>3. ack_count[p] \in Nat
      BY <1>3 DEF TypeInv
    <3>4. ack_count'[p] >= ack_count[p]
      BY <3>2, <3>3
    <3>5. QED BY <1>3, <3>1, <3>4, NotifyWakes
  <2>2. CASE ~ IsCurrent(p, m)
    BY <1>2, <2>2 DEF ProcessAck, ProcessNack
  <2>3. QED BY <2>1, <2>2
<1>6. m.type = t /\ RepliedInv'
      /\ \A q \in Procs : \A x \in received'[q] : x \in received[q] \/ (x = m /\ q = p)
  BY <1>4, HandledProgress DEF Types
<1>7. \A q \in Procs : SentValue(q)' = SentValue(q)
  BY <1>4 DEF SentValue
<1>8. ASSUME NEW q \in Procs \ {p} PROVE Awake(q)' /\ InRound(q)'
  BY <1>4, <1>7, Undisturbed DEF ProgressInv
<1>9. Awake(p)' /\ InRound(p)'
  <2>1. CASE UNCHANGED <<ack_count, nack_count, notified>>
    BY <1>3, <1>4, <1>7, <2>1, Undisturbed
  <2>2. CASE /\ pc[p] = "waiting" => notified'[p]
             /\ notified[p] => notified'[p]
             /\ ack_count'[p] >= ack_count[p]
    <3>1. Awake(p)'
      BY <1>3, <1>4, <2>2 DEF Awake, HasLearnt, InitialValue
    <3>2. pc[p] \in {"learn", "learning"} => ack_count'[p] >= Majority
      <4>1. ack_count'[p] \in Nat /\ ack_count[p] \in Nat /\ Majority \in Nat
        BY <1>2, <1>3, MajorityType DEF ProcessAck, ProcessNack, TypeInv
      <4>2. pc[p] \in {"learn", "learning"} => ack_count[p] >= Majority
        BY <1>3 DEF InRound
      <4>3. QED BY <2>2, <4>1, <4>2
    <3>3. QED
      BY <1>3, <1>4, <1>7, <3>1, <3>2 DEF InRound, InitialValue, Majority, N
  <2>3. QED BY <1>5, <2>1, <2>2
<1>10. LearnerInv'
  BY <1>4, <1>6, LearnerKept DEF ProgressInv
<1>11. QED BY <1>6, <1>8, <1>9, <1>10 DEF ProgressInv

(* A shared value only adds to the buffer.                                 *)
LEMMA InternalProgress ==
  ASSUME IInv, ProgressInv, NEW p \in Procs, NEW m \in Deliverable(p, "internal"),
         InternalReceive(p, m)
  PROVE  ProgressInv'
<1> USE DEF mainVars, counters, learnerVars
<1>1. /\ UNCHANGED <<pc, round, notified, status, ack_count, nack_count,
                     active_proposal_number, learnt_value, learn_count, msgs>>
      /\ Handled(p, m)
      /\ buffered_values[p] \subseteq buffered_values'[p]
      /\ \A q \in Procs \ {p} : buffered_values'[q] = buffered_values[q]
  BY DEF InternalReceive, IInv, TypeInv
<1>2. m.type = "internal" /\ RepliedInv'
      /\ \A q \in Procs : \A x \in received'[q] : x \in received[q] \/ (x = m /\ q = p)
  BY <1>1, HandledProgress DEF Types
<1>3. \A q \in Procs : SentValue(q)' = SentValue(q)
  BY <1>1 DEF SentValue
<1>4. ASSUME NEW q \in Procs \ {p} PROVE Awake(q)' /\ InRound(q)'
  BY <1>1, <1>3, Undisturbed DEF ProgressInv
<1>5. Awake(p)' /\ InRound(p)'
  BY <1>1, <1>3 DEF ProgressInv, Awake, InRound, CanDecide, CanRefine, HasLearnt, InitialValue
<1>6. LearnerInv'
  BY <1>1, <1>2, LearnerKept DEF ProgressInv
<1>7. QED BY <1>2, <1>4, <1>5, <1>6 DEF ProgressInv

(* A copy of an ack is about a proposal: its number is one.                *)
LEMMA LearnNumbers ==
  ASSUME IInv, NEW m \in msgs, m.type = "learn"
  PROVE  m.proposer \in Procs /\ m.num \in Numbers
<1> DEFINE u == m.proposer
<1>1. u \in Procs /\ m.num \in Nat /\ TypeInv
  BY DEF IInv, TypeInv, Messages
<1>2. 1 <= m.num /\ m.num <= active_proposal_number[u]
  BY DEF IInv, NumberInv
<1>3. active_proposal_number[u] <= Cardinality(SentValue(u)) /\ active_proposal_number[u] \in Nat
  BY <1>1 DEF IInv, ValueInv, TypeInv
<1>4. SentValue(u) \subseteq AllValues
  BY <1>1 DEF SentValue, TypeInv, Messages
<1>5. /\ Cardinality(SentValue(u)) <= Cardinality(AllValues)
      /\ Cardinality(SentValue(u)) \in Nat /\ Cardinality(AllValues) \in Nat
  BY <1>4, ValueSets
<1> HIDE DEF u
<1>6. m.num \in Numbers
  BY <1>1, <1>2, <1>3, <1>5 DEF Numbers
<1>7. QED BY <1>1, <1>6 DEF u

(* The copies for the learners carry the value of the proposal.            *)
LEMMA CopyValue ==
  ASSUME IInv, NEW x \in msgs, x.type = "learn"
  PROVE  \E m \in msgs : IsProposal(m) /\ About(m, x.proposer, x.num) /\ m.value = x.value
<1>1. PICK s \in msgs : CopyOf(x, s)
  BY DEF IInv, ReplyInv
<1>2. IsReply(s) /\ s.from \in Procs
  BY <1>1 DEF CopyOf, IsReply, IInv, TypeInv, Messages
<1>3. PICK m \in received[s.from] : Answers(s, m)
  BY <1>2 DEF IInv, ReplyInv
<1>4. m \in msgs
  BY <1>2, <1>3 DEF IInv, TypeInv
<1>5. QED BY <1>1, <1>3, <1>4 DEF CopyOf, Answers, About

(* All copies for one proposal carry the same value.                       *)
LEMMA SameCopies ==
  ASSUME IInv, NEW x \in msgs, NEW y \in msgs, x.type = "learn", y.type = "learn",
         About(x, y.proposer, y.num)
  PROVE  x.value = y.value
<1>1. PICK m \in msgs : IsProposal(m) /\ About(m, x.proposer, x.num) /\ m.value = x.value
  BY CopyValue
<1>2. PICK n \in msgs : IsProposal(n) /\ About(n, y.proposer, y.num) /\ n.value = y.value
  BY CopyValue
<1>3. m = n
  BY <1>1, <1>2 DEF IInv, NumberInv, About
<1>4. QED BY <1>1, <1>2, <1>3

(* A learner that a majority has told the value of a proposal knows it: if *)
(* it is not above what the learner knows, it is below.                    *)
LEMMA LearnAckProgress ==
  ASSUME IInv, IInv', ProgressInv, NEW p \in Procs, NEW m \in Deliverable(p, "learn"),
         LearnAck(p, m)
  PROVE  ProgressInv'
<1> USE DEF proposerVars, counters
<1>1. TypeInv /\ Awake(p) /\ InRound(p)
  BY DEF IInv, ProgressInv
<1>2. /\ UNCHANGED <<pc, round, results, status, ack_count, nack_count,
                     active_proposal_number, buffered_values, accepted_value, msgs>>
      /\ Handled(p, m)
      /\ learn_count' = [learn_count EXCEPT ![p][m.proposer][m.num] = @ + 1]
      /\ \/ /\ learnt_value' = [learnt_value EXCEPT ![p] = m.value]
            /\ Less(learnt_value[p], m.value)
            /\ Notify(p, "learning")
         \/ /\ UNCHANGED <<learnt_value, notified>>
            /\ ~ (/\ learn_count'[p][m.proposer][m.num] >= Majority
                  /\ Less(learnt_value[p], m.value))
  BY DEF LearnAck
<1>3. /\ m \in msgs /\ m.type = "learn" /\ RepliedInv'
      /\ \A q \in Procs : \A x \in received'[q] : x \in received[q] \/ (x = m /\ q = p)
  BY <1>2, HandledProgress DEF Types
<1>4. \A q \in Procs : SentValue(q)' = SentValue(q)
  BY <1>2 DEF SentValue
<1>5. /\ \A q \in Procs \ {p} : learnt_value'[q] = learnt_value[q]
                                /\ notified'[q] = notified[q]
      /\ learnt_value[p] \subseteq learnt_value'[p]
      /\ notified[p] => notified'[p]
      /\ UNCHANGED learnt_value \/ (pc[p] = "learning" => notified'[p])
      /\ UNCHANGED learnt_value \/ learnt_value'[p] = m.value
  <2>1. CASE UNCHANGED <<learnt_value, notified>>
    BY <2>1
  <2>2. CASE /\ learnt_value' = [learnt_value EXCEPT ![p] = m.value]
             /\ Less(learnt_value[p], m.value)
             /\ Notify(p, "learning")
    <3>1. /\ \A q \in Procs \ {p} : learnt_value'[q] = learnt_value[q]
          /\ learnt_value'[p] = m.value /\ learnt_value[p] \subseteq m.value
      BY <1>1, <2>2 DEF TypeInv
    <3>2. QED BY <1>1, <2>2, <3>1, NotifyWakes
  <2>3. QED BY <1>2, <2>1, <2>2
<1>6. ASSUME NEW q \in Procs \ {p} PROVE Awake(q)' /\ InRound(q)'
  BY <1>2, <1>4, <1>5, Undisturbed DEF ProgressInv
<1>7. Awake(p)' /\ InRound(p)'
  <2>1. InRound(p)'
    BY <1>1, <1>2, <1>4 DEF InRound, InitialValue, Majority, N
  <2>2. pc[p] = "waiting" /\ (CanDecide(p) \/ CanRefine(p))' => notified'[p]
    BY <1>1, <1>2, <1>5 DEF Awake, CanDecide, CanRefine, Majority, N
  <2>3. pc[p] = "learning" /\ HasLearnt(p)' => notified'[p]
    <3>1. CASE UNCHANGED learnt_value
      BY <1>1, <1>2, <1>5, <3>1 DEF Awake, HasLearnt, InitialValue
    <3>2. QED BY <1>5, <3>1
  <2>4. QED BY <1>2, <2>1, <2>2, <2>3 DEF Awake
<1>8. LearnerInv'
  <2> SUFFICES ASSUME NEW q \in Procs, NEW x \in received'[q], x.type = "learn",
                      learn_count'[q][x.proposer][x.num] >= Majority
               PROVE  x.value \subseteq learnt_value'[q]
    BY DEF LearnerInv, Majority, N
  <2>1. TypeInv' /\ CountInv' /\ x \in msgs
    BY <1>2 DEF IInv, TypeInv
  <2>2. x.proposer \in Procs /\ x.num \in Numbers
    BY <2>1, LearnNumbers
  <2>3. CASE ~ (q = p /\ About(x, m.proposer, m.num))
    <3>1. x \in received[q]
      BY <1>3, <2>3 DEF About
    <3>2. learn_count'[q][x.proposer][x.num] = learn_count[q][x.proposer][x.num]
      <4>1. learn_count \in [Procs -> [Procs -> [Numbers -> Nat]]]
        BY <1>1 DEF TypeInv
      <4>2. CASE q # p
        BY <1>2, <4>1, <4>2
      <4>3. CASE q = p /\ x.proposer # m.proposer
        <5>1. learn_count'[p][x.proposer] = learn_count[p][x.proposer]
          BY <1>2, <2>2, <4>1, <4>3
        <5>2. QED BY <4>3, <5>1
      <4>4. CASE q = p /\ x.proposer = m.proposer /\ x.num # m.num
        <5>1. learn_count'[p][m.proposer]
                = [learn_count[p][m.proposer] EXCEPT ![m.num] = @ + 1]
          BY <1>2, <2>2, <4>1, <4>4
        <5>2. QED BY <2>2, <4>1, <4>4, <5>1
      <4>5. QED BY <2>3, <4>2, <4>3, <4>4 DEF About
    <3>3. x.value \subseteq learnt_value[q]
      BY <3>1, <3>2 DEF ProgressInv, LearnerInv
    <3>4. QED BY <1>5, <3>3
  <2>4. CASE q = p /\ About(x, m.proposer, m.num)
    <3>1. learn_count'[p][m.proposer][m.num] >= Majority
      BY <2>4 DEF About
    <3>2. /\ Copies(p, m.proposer, m.num)' \subseteq msgs
          /\ \A y \in Copies(p, m.proposer, m.num)' : y.type = "learn" /\ About(y, m.proposer, m.num)
          /\ x \in Copies(p, m.proposer, m.num)'
      BY <1>2, <2>1, <2>4 DEF Copies, About, TypeInv
    <3>3. Cardinality(Copies(p, m.proposer, m.num)') >= Majority
      BY <2>1, <2>2, <2>4, <3>1 DEF CountInv, About
    <3>4. Acknowledged(x.value)
      BY <3>2, <3>3, CopiesOfOne
    <3>5. x.value = m.value
      BY <1>3, <2>1, <2>4, SameCopies DEF About
    <3>6. CASE UNCHANGED learnt_value
      <4>1. ~ Less(learnt_value[p], m.value)
        <5>1. Less(learnt_value[p], m.value) => learnt_value' # learnt_value
          BY <1>1, <1>2, <3>1 DEF TypeInv
        <5>2. QED BY <3>6, <5>1
      <4>2. learnt_value[p] \in Learnt
        BY DEF Learnt
      <4>3. Comparable(x.value, learnt_value[p])
        BY <3>4, <4>2, LearntComparable
      <4>4. QED BY <2>4, <3>5, <3>6, <4>1, <4>3 DEF Comparable
    <3>7. CASE learnt_value'[p] = m.value
      BY <2>4, <3>5, <3>7
    <3>8. QED BY <1>5, <3>6, <3>7
  <2>5. QED BY <2>3, <2>4
<1>9. QED BY <1>3, <1>6, <1>7, <1>8 DEF ProgressInv

(* Every step keeps the system going.                                      *)
LEMMA NextProgress == IInv /\ ProgressInv /\ [Next]_vars => ProgressInv'
<1> SUFFICES ASSUME IInv, ProgressInv, [Next]_vars PROVE ProgressInv'
  OBVIOUS
<1>1. IInv'
  BY NextIInv
<1>2. CASE UNCHANGED vars
  BY <1>2, StutterProgress
<1>3. ASSUME NEW p \in Procs, Main(p) PROVE ProgressInv'
  BY <1>1, <1>3, ReceiveValueProgress, ProposalProgress, WaitingProgress DEF Main, Turn
<1>4. ASSUME NEW p \in Procs, Network(p) PROVE ProgressInv'
  BY <1>1, <1>4, AnswerProgress, CountProgress, InternalProgress, LearnAckProgress
     DEF Network
<1>5. QED BY <1>2, <1>3, <1>4 DEF Next

(* Nothing a waiter waits for is lost, in any reachable state.             *)
THEOREM Progress == Spec => []ProgressInv
BY InitIInv, NextIInv, InitProgress, NextProgress, PTL DEF Spec

(* When nothing is left to handle, everybody a proposer exchanges messages *)
(* with has answered its active proposal.                                  *)
LEMMA AllAnswered ==
  ASSUME IInv, ProgressInv, Quiet, NEW p \in Procs, status[p] = "Active",
         NEW a \in Procs, {<<"proposal", p, a>>, <<"ack", a, p>>, <<"nack", a, p>>} \subseteq Links
  PROVE  \E r \in Answered(p, "ack") \cup Answered(p, "nack") : r.from = a
<1>1. active_proposal_number[p] # 0
  BY DEF ProgressInv, InRound
<1>2. PICK m \in msgs : IsProposal(m) /\ About(m, p, active_proposal_number[p])
  BY <1>1 DEF IInv, NumberInv
<1>3. m.type = "proposal" /\ m.from = p /\ Deliverable(a, "proposal") = {}
  BY <1>2 DEF ProgressInv, RepliedInv, Quiet, Types, IsProposal, About
<1>4. m \in received[a]
  BY <1>3 DEF Deliverable
<1>5. PICK r \in msgs : IsReply(r) /\ r.from = a /\ About(r, p, active_proposal_number[p])
  BY <1>2, <1>4 DEF ProgressInv, RepliedInv, About
<1>6. <<r.type, r.from, p>> \in Links /\ Deliverable(p, r.type) = {} /\ r.type # "internal"
      /\ r.proposer = p
  BY <1>5 DEF IsReply, Quiet, Types, About
<1>7. r \in received[p]
  BY <1>6 DEF Deliverable
<1>8. QED BY <1>5, <1>7 DEF Answered, IsReply, About

(* start() is left waiting only if it has proposed nothing.                *)
LEMMA NobodyAwaitsAnswers ==
  ASSUME IInv, ProgressInv, Quiet, NEW p \in Served, pc[p] = "waiting"
  PROVE  status[p] = "Passive"
<1> SUFFICES ASSUME status[p] = "Active" PROVE FALSE
  BY DEF IInv, TypeInv, Served
<1> DEFINE S == {a \in Procs : {<<"proposal", p, a>>, <<"ack", a, p>>,
                                <<"nack", a, p>>} \subseteq Links}
           A == Answered(p, "ack")
           B == Answered(p, "nack")
           From(C) == {r.from : r \in C}
<1>1. p \in Procs /\ S \subseteq Procs /\ Cardinality(S) >= Majority
  BY DEF Served
<1>2. S \subseteq From(A) \cup From(B)
  BY <1>1, AllAnswered
<1>3. ASSUME NEW t \in {"ack", "nack"}
      PROVE  /\ From(Answered(p, t)) \subseteq Procs
             /\ Cardinality(Answered(p, t)) \in Nat
             /\ Cardinality(Answered(p, t)) = Cardinality(From(Answered(p, t)))
  <2> DEFINE C == Answered(p, t)
  <2>1. C \subseteq msgs /\ \A x \in C : IsReply(x) /\ About(x, p, active_proposal_number[p])
    BY <1>1 DEF Answered, IsReply, About, IInv, CountInv, TypeInv
  <2>2. \A x \in C : x.from \in Procs
    BY <2>1 DEF IInv, TypeInv, Messages
  <2>3. \A x, y \in C : x.from = y.from => x = y
    BY <2>1 DEF IInv, ReplyInv, About
  <2> HIDE DEF C
  <2>4. Cardinality(C) \in Nat /\ Cardinality(C) = Cardinality(From(C))
    BY <2>2, <2>3, OnePerProcess
  <2>5. QED BY <2>2, <2>4 DEF C
<1>4. ack_count[p] = Cardinality(A) /\ nack_count[p] = Cardinality(B)
  BY <1>1 DEF IInv, CountInv
<1>5. Cardinality(S) <= Cardinality(From(A)) + Cardinality(From(B))
  <2>1. From(A) \subseteq Procs /\ From(B) \subseteq Procs
    BY <1>3
  <2> HIDE DEF A, B, S, From
  <2>2. IsFiniteSet(From(A)) /\ IsFiniteSet(From(B)) /\ IsFiniteSet(From(A) \cup From(B))
    BY <2>1, ProcSets, FS_Union
  <2>3. Cardinality(From(A) \cup From(B))
          = Cardinality(From(A)) + Cardinality(From(B)) - Cardinality(From(A) \cap From(B))
    BY <2>2, FS_Union
  <2>4. Cardinality(S) <= Cardinality(From(A) \cup From(B))
    BY <1>2, <2>2, FS_Subset
  <2>5. /\ Cardinality(From(A) \cap From(B)) \in Nat
        /\ Cardinality(S) \in Nat /\ Cardinality(From(A) \cup From(B)) \in Nat
        /\ Cardinality(From(A)) \in Nat /\ Cardinality(From(B)) \in Nat
    BY <1>1, <2>1, ProcSets
  <2>6. QED BY <2>3, <2>4, <2>5
<1>6. /\ Cardinality(A) \in Nat /\ Cardinality(B) \in Nat
      /\ Cardinality(A) = Cardinality(From(A)) /\ Cardinality(B) = Cardinality(From(B))
      /\ Cardinality(S) \in Nat /\ Majority \in Nat
  BY <1>1, <1>3, ProcSets, MajorityType
<1> HIDE DEF A, B, S, From
<1>7. nack_count[p] + ack_count[p] >= Majority /\ nack_count[p] \in Nat /\ ack_count[p] \in Nat
  BY <1>1, <1>4, <1>5, <1>6
<1>8. nack_count[p] > 0 \/ ack_count[p] >= Majority
  BY <1>6, <1>7
<1>9. CanDecide(p) \/ CanRefine(p)
  BY <1>7, <1>8 DEF CanDecide, CanRefine
<1>10. notified[p] /\ ~ notified[p]
  BY <1>1, <1>9 DEF ProgressInv, Awake, Quiet
<1>11. QED BY <1>10

(* learn_value is not left waiting: who acknowledged the proposal has told *)
(* the learner, too.                                                       *)
LEMMA NobodyAwaitsLearning ==
  ASSUME IInv, ProgressInv, Quiet, NEW p \in Attentive
  PROVE  pc[p] # "learning"
<1> SUFFICES ASSUME pc[p] = "learning" PROVE FALSE
  OBVIOUS
<1> DEFINE n == active_proposal_number[p]
           A == Answered(p, "ack")
           C == Copies(p, p, n)
           From(D) == {r.from : r \in D}
<1>1. p \in Procs /\ TypeInv /\ Majority \in Nat /\ Majority >= 1
  BY MajorityType DEF Attentive, IInv
<1>2. ack_count[p] = Cardinality(A) /\ Cardinality(A) >= Majority
  BY <1>1 DEF IInv, CountInv, ProgressInv, InRound
<1>3. A \subseteq msgs /\ A \subseteq received[p]
      /\ \A r \in A : r.type = "ack" /\ IsReply(r) /\ About(r, p, n) /\ r.from \in Procs
  <2>1. A \subseteq received[p] /\ received[p] \subseteq msgs /\ msgs \subseteq Messages
    BY <1>1 DEF Answered, TypeInv
  <2>2. \A r \in A : r.type = "ack" /\ IsReply(r) /\ r.num = n
    BY DEF Answered, IsReply
  <2>3. \A r \in A : r.proposer = p
    BY <1>1, <2>1, <2>2 DEF IInv, CountInv
  <2>4. QED BY <2>1, <2>2, <2>3 DEF About, Messages
<1>4. C \subseteq msgs /\ \A x \in C : x.type = "learn" /\ About(x, p, n) /\ x.from \in Procs
  BY <1>1 DEF Copies, About, TypeInv, Messages
<1>5. ASSUME NEW r \in A
      PROVE  \E x \in C : x.from = r.from
  <2>1. PICK x \in msgs : x.type = "learn" /\ CopyOf(x, r)
    BY <1>3 DEF ProgressInv, RepliedInv
  <2>2. <<"ack", r.from, p>> \in Links
    BY <1>1, <1>3 DEF ProgressInv, RepliedInv
  <2>3. <<x.type, x.from, p>> \in Links /\ x.type = "learn" /\ x.from = r.from
    BY <1>3, <2>1, <2>2 DEF Attentive, CopyOf
  <2>4. Deliverable(p, "learn") = {}
    BY <1>1 DEF Quiet, Types
  <2>5. x \in received[p]
    BY <2>3, <2>4 DEF Deliverable
  <2>6. x.proposer = p /\ x.num = n
    BY <1>3, <2>1 DEF CopyOf, About
  <2>7. QED BY <2>3, <2>5, <2>6 DEF Copies
<1>6. Cardinality(A) = Cardinality(From(A))
  <2>1. \A x, y \in A : x.from = y.from => x = y
    BY <1>3 DEF IInv, ReplyInv, About
  <2> HIDE DEF A
  <2>2. QED BY <1>3, <2>1, OnePerProcess
<1>7. Cardinality(C) = Cardinality(From(C)) /\ Cardinality(C) \in Nat
  <2>1. \A x, y \in C : x.from = y.from => x = y
    <3> SUFFICES ASSUME NEW x \in C, NEW y \in C, x.from = y.from PROVE x = y
      OBVIOUS
    <3>1. x \in Messages /\ y \in Messages /\ About(x, p, n) /\ About(y, p, n)
          /\ x.type = y.type /\ x \in msgs /\ y \in msgs
      BY <1>1, <1>4 DEF TypeInv
    <3>2. x.value = y.value
      BY <1>4, <3>1, SameCopies DEF About
    <3>3. QED BY <3>1, <3>2 DEF Messages, About
  <2> HIDE DEF C
  <2>2. QED BY <1>4, <2>1, OnePerProcess
<1>8. Cardinality(C) >= Majority
  <2>1. From(A) \subseteq From(C) /\ From(C) \subseteq Procs
    BY <1>4, <1>5
  <2> HIDE DEF A, C, From
  <2>2. IsFiniteSet(From(C))
    BY <2>1, ProcSets
  <2>3. Cardinality(From(A)) <= Cardinality(From(C))
    BY <2>1, <2>2, FS_Subset
  <2>4. Cardinality(From(A)) \in Nat /\ Cardinality(From(C)) \in Nat
    BY <2>1, ProcSets
  <2>5. QED BY <1>1, <1>2, <1>6, <1>7, <2>3, <2>4
<1>9. PICK x \in C : TRUE
  <2>1. C # {}
    BY <1>1, <1>8, FS_EmptySet
  <2>2. QED BY <2>1
<1>10. x \in received[p] /\ x \in msgs /\ x.type = "learn" /\ x.proposer = p /\ x.num = n
  BY <1>4 DEF Copies
<1>11. n \in Numbers
  BY <1>10, LearnNumbers
<1>12. learn_count[p][x.proposer][x.num] = Cardinality(C)
  BY <1>1, <1>10, <1>11 DEF IInv, CountInv
<1>13. x.value \subseteq learnt_value[p]
  BY <1>1, <1>8, <1>10, <1>12 DEF ProgressInv, LearnerInv
<1>14. InitialValue(p, round[p]) \subseteq SentValue(p)
  BY <1>1 DEF ProgressInv, InRound
<1>15. SentValue(p) = x.value
  <2>1. PICK m \in msgs : IsProposal(m) /\ About(m, x.proposer, x.num) /\ m.value = x.value
    BY <1>10, CopyValue
  <2>2. QED BY <1>10, <2>1, SentValueIs DEF IInv
<1>16. HasLearnt(p)
  BY <1>13, <1>14, <1>15 DEF HasLearnt
<1>17. notified[p] /\ ~ notified[p]
  BY <1>1, <1>16 DEF ProgressInv, Awake, Quiet
<1>18. QED BY <1>17

(* Whenever the system comes to rest, every main thread that a majority    *)
(* hears is through its list, unless propose() gave its start() nothing to *)
(* wait for: no notification, answer or copy is lost on the way.           *)
THEOREM RestIsEnd == Spec => []NothingOwed
<1>1. IInv /\ ProgressInv => NothingOwed
  <2> SUFFICES ASSUME IInv, ProgressInv, Quiet, NEW p \in Served \cap Attentive
               PROVE  pc[p] = "next" \/ WaitsForNothing(p)
    BY DEF NothingOwed
  <2>1. p \in Procs /\ p \in Served /\ p \in Attentive
    BY DEF Served
  <2>2. pc[p] # "learning"
    BY <2>1, NobodyAwaitsLearning
  <2>3. pc[p] = "waiting" => status[p] = "Passive"
    BY <2>1, NobodyAwaitsAnswers
  <2>4. QED BY <2>1, <2>2, <2>3 DEF Quiet, WaitsForNothing
<1>2. QED BY <1>1, Invariance, Progress, PTL

=============================================================================
