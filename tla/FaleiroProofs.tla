--------------------------- MODULE FaleiroProofs ---------------------------
(***************************************************************************)
(* Proofs about Faleiro for any finite set of processes, any set of        *)
(* proposers and any pattern of lost messages.                             *)
(***************************************************************************)
EXTENDS FaleiroInv, FiniteSetTheorems, TLAPS

USE DEF Leq, Less, Join, Bottom, ResetCounters, IsCurrent

-----------------------------------------------------------------------------
(* Finite sets and majorities.                                             *)

(* Every set of processes is finite and has at most N elements.            *)
LEMMA ProcSets ==
  ASSUME NEW S, S \subseteq Procs
  PROVE  IsFiniteSet(S) /\ Cardinality(S) \in Nat /\ Cardinality(S) <= N
BY ProcsAssumption, FS_Subset, FS_CardinalityType DEF N

(* (N + 2) / 2 is a strict majority of N, for even and for odd N.          *)
LEMMA MajorityType == Majority \in Nat /\ Majority + Majority > N /\ Majority >= 1
<1>1. N \in Nat
  BY ProcSets, ProcsAssumption, FS_CardinalityType DEF N
<1>2. QED BY <1>1 DEF Majority

(* Two sets of a majority of the processes share one.                      *)
LEMMA QuorumsMeet ==
  ASSUME NEW S, NEW T, S \subseteq Procs, T \subseteq Procs,
         Cardinality(S) >= Majority, Cardinality(T) >= Majority
  PROVE  \E a \in Procs : a \in S /\ a \in T
<1>1. Cardinality(S) \in Nat /\ Cardinality(T) \in Nat /\ N \in Nat
  BY ProcSets, ProcsAssumption, FS_CardinalityType DEF N
<1>2. Cardinality(S) + Cardinality(T) > Cardinality(Procs)
  BY <1>1, MajorityType DEF N
<1>3. S \cap T # {}
  BY <1>2, ProcsAssumption, FS_MajoritiesIntersect
<1>4. QED BY <1>3

(* A strictly larger value has strictly more elements.                     *)
LEMMA StrictGrowth ==
  ASSUME NEW S, NEW T, Less(S, T), T \subseteq Procs
  PROVE  Cardinality(S) + 1 <= Cardinality(T)
<1>1. IsFiniteSet(T) /\ S \in SUBSET T /\ S # T
  BY ProcSets
<1>2. Cardinality(S) <= Cardinality(T) /\ Cardinality(S) # Cardinality(T)
  BY <1>1, FS_Subset
<1>3. Cardinality(S) \in Nat /\ Cardinality(T) \in Nat
  BY <1>1, ProcSets
<1>4. QED BY <1>2, <1>3

-----------------------------------------------------------------------------
(* The value and the answers of the active proposal.                       *)

(* SentValue(p) is the value of the message that carries the proposal.     *)
LEMMA SentValueIs ==
  ASSUME NumberInv, NEW p, NEW m \in msgs, IsProposal(m),
         About(m, p, active_proposal_number[p])
  PROVE  SentValue(p) = m.value
<1>1. {x \in msgs : /\ x.type = "proposal"
                    /\ x.proposer = p
                    /\ x.num = active_proposal_number[p]} = {m}
  BY DEF NumberInv, IsProposal, About
<1>2. QED BY <1>1 DEF SentValue

(* A message that is not a proposal under the active number of p does not  *)
(* change what p last proposed.                                            *)
LEMMA SentValueStable ==
  ASSUME NEW p, active_proposal_number'[p] = active_proposal_number[p],
         NEW x, msgs' = msgs \/ msgs' = msgs \cup {x},
         ~ (IsProposal(x) /\ About(x, p, active_proposal_number[p]))
  PROVE  SentValue(p)' = SentValue(p)
<1>1. {y \in msgs' : /\ y.type = "proposal"
                     /\ y.proposer = p
                     /\ y.num = active_proposal_number'[p]}
      = {y \in msgs : /\ y.type = "proposal"
                      /\ y.proposer = p
                      /\ y.num = active_proposal_number[p]}
  BY DEF IsProposal, About
<1>2. QED BY <1>1 DEF SentValue

(* Handling a proposal, or nothing, leaves the answers p counts alone.     *)
LEMMA AnsweredStable ==
  ASSUME NEW p, NEW t \in {"ack", "nack"},
         active_proposal_number'[p] = active_proposal_number[p],
         NEW x, received'[p] = received[p] \/ received'[p] = received[p] \cup {x},
         x.type # t \/ x.num # active_proposal_number[p]
  PROVE  Answered(p, t)' = Answered(p, t)
BY DEF Answered

(* Handling the answer x of an acceptor that had not answered yet adds it. *)
LEMMA AnsweredGrows ==
  ASSUME NEW p, NEW x,
         active_proposal_number'[p] = active_proposal_number[p],
         received'[p] = received[p] \cup {x},
         About(x, p, active_proposal_number[p]), x.from \in Procs,
         \A y \in received[p] :
           y.type = x.type /\ y.from = x.from
             => ~ About(y, p, active_proposal_number[p])
  PROVE  Cardinality(Answered(p, x.type)') = Cardinality(Answered(p, x.type)) + 1
<1>1. Answered(p, x.type)' = Answered(p, x.type) \cup {x.from}
  BY DEF Answered, About
<1>2. x.from \notin Answered(p, x.type)
  BY DEF Answered, About
<1>3. IsFiniteSet(Answered(p, x.type))
  BY ProcSets DEF Answered
<1>4. QED BY <1>1, <1>2, <1>3, FS_AddElement

(* Nobody has answered a proposal number that is not in use.               *)
LEMMA NoneAnswered ==
  ASSUME NEW p, NEW t, \A m \in received[p] : ~ About(m, p, active_proposal_number[p])
  PROVE  Cardinality(Answered(p, t)) = 0
<1>1. Answered(p, t) = {}
  BY DEF Answered, About
<1>2. QED BY <1>1, FS_EmptySet

-----------------------------------------------------------------------------
(* The initial states, and the steps of the main thread.                   *)

LEMMA InitIInv == Init => IInv
<1> SUFFICES ASSUME Init PROVE IInv
  OBVIOUS
<1>1. TypeInv
  BY DEF Init, TypeInv
<1>2. NumberInv /\ ReplyInv /\ AcksFormChain
  BY DEF Init, NumberInv, ReplyInv, AcksFormChain, Started
<1>3. \A p \in Procs : SentValue(p) = {}
  BY DEF Init, SentValue
<1>4. CountsMatchAnswers
  BY NoneAnswered DEF Init, CountsMatchAnswers
<1>5. ValueInv /\ OriginInv /\ ReturnInv
  BY DEF Init, ValueInv, OriginInv, ReturnInv, Started
<1>6. RefinementsBounded
  BY <1>3, FS_EmptySet DEF Init, RefinementsBounded
<1>7. QED BY <1>1, <1>2, <1>4, <1>5, <1>6 DEF IInv

(* A step that changes neither the messages, nor the counters, nor the     *)
(* values: only where the main thread of p is.                             *)
LEMMA QuietStep ==
  ASSUME IInv, TypeInv', NEW p \in Procs, pc[p] # "idle", pc'[p] # "idle",
         pc' = [pc EXCEPT ![p] = pc'[p]],
         UNCHANGED <<counters, active_proposal_number, proposed_value,
                     accepted_value, netVars>>,
         \A q \in Procs : result'[q] \subseteq Started,
         \A q \in Procs : pc'[q] = "returned" =>
           /\ ack_count[q] >= Majority
           /\ Leq(SentValue(q), result'[q])
           /\ nack_count[q] = 0 => SentValue(q) = result'[q]
  PROVE  IInv'
<1> USE DEF counters, netVars
<1>1. Started' = Started /\ Started \subseteq Procs
  BY DEF IInv, TypeInv, Started
<1>2. \A q \in Procs : SentValue(q)' = SentValue(q)
  BY DEF SentValue
<1>3. \A q \in Procs, t \in {"ack", "nack"} : Answered(q, t)' = Answered(q, t)
  BY DEF Answered
<1>4. NumberInv'
  BY <1>1 DEF IInv, TypeInv, NumberInv, IsProposal, About
<1>5. ReplyInv' /\ AcksFormChain'
  BY DEF IInv, ReplyInv, AcksFormChain, IsReply, Answers, About, IsProposal, Comparable
<1>6. CountsMatchAnswers'
  BY <1>3 DEF IInv, CountsMatchAnswers
<1>7. ValueInv'
  BY <1>1, <1>2 DEF IInv, ValueInv
<1>8. OriginInv'
  BY <1>1 DEF IInv, OriginInv
<1>9. RefinementsBounded' /\ ReturnInv'
  BY <1>2 DEF IInv, RefinementsBounded, ReturnInv
<1>10. QED BY <1>4, <1>5, <1>6, <1>7, <1>8, <1>9 DEF IInv

LEMMA EnterWaitStep == ASSUME IInv, NEW p \in Procs, EnterWait(p) PROVE IInv'
<1>1. TypeInv'
  BY DEF IInv, EnterWait, TypeInv, proposerVars, counters, netVars
<1>2. /\ \A q \in Procs : result'[q] \subseteq Started
      /\ \A q \in Procs : pc'[q] = "returned" =>
           /\ ack_count[q] >= Majority
           /\ Leq(SentValue(q), result'[q])
           /\ nack_count[q] = 0 => SentValue(q) = result'[q]
  BY DEF IInv, TypeInv, OriginInv, ReturnInv, EnterWait
<1>3. pc[p] # "idle" /\ pc'[p] # "idle" /\ pc' = [pc EXCEPT ![p] = pc'[p]]
  BY DEF EnterWait, IInv, TypeInv
<1>4. UNCHANGED <<counters, active_proposal_number, proposed_value, accepted_value, netVars>>
  BY DEF EnterWait, proposerVars
<1>5. QED BY <1>1, <1>2, <1>3, <1>4, QuietStep

LEMMA WaitAgainStep == ASSUME IInv, NEW p \in Procs, WaitAgain(p) PROVE IInv'
<1>1. TypeInv'
  BY DEF IInv, WaitAgain, TypeInv, proposerVars, counters, netVars
<1>2. /\ \A q \in Procs : result'[q] \subseteq Started
      /\ \A q \in Procs : pc'[q] = "returned" =>
           /\ ack_count[q] >= Majority
           /\ Leq(SentValue(q), result'[q])
           /\ nack_count[q] = 0 => SentValue(q) = result'[q]
  BY DEF IInv, TypeInv, OriginInv, ReturnInv, WaitAgain
<1>3. pc[p] # "idle" /\ pc'[p] # "idle" /\ pc' = [pc EXCEPT ![p] = pc'[p]]
  BY DEF WaitAgain, IInv, TypeInv
<1>4. UNCHANGED <<counters, active_proposal_number, proposed_value, accepted_value, netVars>>
  BY DEF WaitAgain, proposerVars
<1>5. QED BY <1>1, <1>2, <1>3, <1>4, QuietStep

(* decide() succeeds with a majority of acks and returns what is proposed  *)
(* by then, which is at least what the majority acknowledged.              *)
LEMMA DecideStep == ASSUME IInv, NEW p \in Procs, Decide(p) PROVE IInv'
<1>1. TypeInv'
  BY DEF IInv, Decide, TypeInv, counters, netVars
<1>2. \A q \in Procs : result'[q] \subseteq Started
  BY DEF IInv, TypeInv, OriginInv, Decide
<1>3. \A q \in Procs : pc'[q] = "returned" =>
        /\ ack_count[q] >= Majority
        /\ Leq(SentValue(q), result'[q])
        /\ nack_count[q] = 0 => SentValue(q) = result'[q]
  BY DEF IInv, TypeInv, ReturnInv, ValueInv, Started, Decide, CanDecide
<1>4. pc[p] # "idle" /\ pc'[p] # "idle" /\ pc' = [pc EXCEPT ![p] = pc'[p]]
  BY DEF Decide, IInv, TypeInv
<1>5. UNCHANGED <<counters, active_proposal_number, proposed_value, accepted_value, netVars>>
  BY DEF Decide
<1>6. QED BY <1>1, <1>2, <1>3, <1>4, <1>5, QuietStep

(* A proposal x of p under the next number: what propose() and refine()    *)
(* have in common.                                                         *)
LEMMA NewProposalStep ==
  ASSUME IInv, TypeInv', NEW p \in Procs, pc[p] # "returned",
         pc'[p] \in {"proposed", "waiting"}, pc' = [pc EXCEPT ![p] = pc'[p]],
         NEW x, IsProposal(x), About(x, p, active_proposal_number[p] + 1),
         InitialValue(p) \subseteq x.value, x.value \subseteq Started',
         active_proposal_number[p] + 1 <= Cardinality(x.value),
         active_proposal_number' = [active_proposal_number EXCEPT ![p] = @ + 1],
         proposed_value' = [proposed_value EXCEPT ![p] = x.value],
         ack_count' = [ack_count EXCEPT ![p] = 0],
         nack_count' = [nack_count EXCEPT ![p] = 0],
         msgs' = msgs \cup {x},
         UNCHANGED <<result, accepted_value, received>>
  PROVE  IInv'
<1>1. TypeInv
  BY DEF IInv
<1>2. Started \subseteq Started' /\ Started' = Started \cup {p} /\ Started \subseteq Procs
  BY <1>1 DEF TypeInv, Started
<1>3. NumberInv'
  <2>1. \A m \in msgs : m.num # active_proposal_number[p] + 1 \/ m.proposer # p
    BY <1>1 DEF IInv, NumberInv, TypeInv
  <2>2. \A m \in msgs' : 1 <= m.num /\ m.num <= active_proposal_number'[m.proposer]
    <3>1. \A m \in msgs : 1 <= m.num /\ m.num <= active_proposal_number[m.proposer]
      BY DEF IInv, NumberInv
    <3>2. \A m \in msgs : m.proposer \in Procs /\ m.num \in Nat
      BY <1>1 DEF TypeInv, Messages
    <3>3. 1 <= x.num /\ x.num <= active_proposal_number'[x.proposer]
      BY <1>1 DEF TypeInv, About
    <3>4. \A m \in msgs : m.num <= active_proposal_number'[m.proposer]
      BY <3>1, <3>2, <1>1 DEF TypeInv
    <3>5. QED BY <3>1, <3>3, <3>4
  <2>3. \A m1, m2 \in msgs' :
          IsProposal(m1) /\ IsProposal(m2) /\ About(m1, m2.proposer, m2.num) => m1 = m2
    BY <2>1 DEF IInv, NumberInv, About
  <2>4. \A q \in Procs : pc'[q] = "idle" <=> active_proposal_number'[q] = 0
    BY <1>1 DEF IInv, NumberInv, TypeInv
  <2>5. \A q \in Started' :
          \E m \in msgs' : IsProposal(m) /\ About(m, q, active_proposal_number'[q])
    BY <1>1, <1>2 DEF IInv, NumberInv, TypeInv
  <2>6. QED BY <2>2, <2>3, <2>4, <2>5 DEF NumberInv, IsProposal, About
<1>4. ReplyInv' /\ AcksFormChain'
  BY DEF IInv, ReplyInv, AcksFormChain, IsReply, IsProposal, Answers, About, Comparable
<1>5. x \in msgs' /\ About(x, p, active_proposal_number'[p])
  BY <1>1 DEF TypeInv, About
<1>6. SentValue(p)' = x.value
  BY <1>3, <1>5, SentValueIs DEF SentValue, NumberInv, IsProposal, About
<1>7. \A q \in Procs \ {p} : SentValue(q)' = SentValue(q)
  <2> SUFFICES ASSUME NEW q \in Procs \ {p} PROVE SentValue(q)' = SentValue(q)
    OBVIOUS
  <2>1. active_proposal_number'[q] = active_proposal_number[q]
    BY <1>1 DEF TypeInv
  <2>2. ~ (IsProposal(x) /\ About(x, q, active_proposal_number[q]))
    BY DEF About
  <2>3. QED BY <2>1, <2>2, SentValueStable
<1>8. CountsMatchAnswers'
  <2>1. \A q \in Procs \ {p}, t \in {"ack", "nack"} : Answered(q, t)' = Answered(q, t)
    BY <1>1 DEF Answered, TypeInv
  <2>2. \A m \in received[p] : ~ About(m, p, active_proposal_number'[p])
    BY <1>1 DEF IInv, NumberInv, TypeInv, About
  <2>3. \A t \in {"ack", "nack"} : Answered(p, t)' = {}
    BY <2>2 DEF Answered, About
  <2>4. \A t \in {"ack", "nack"} : Cardinality(Answered(p, t)') = 0
    BY <2>3, FS_EmptySet
  <2>5. QED BY <1>1, <2>1, <2>4 DEF IInv, CountsMatchAnswers, TypeInv
<1>9. ValueInv'
  BY <1>1, <1>2, <1>6, <1>7 DEF IInv, ValueInv, InitialValue, TypeInv
<1>10. OriginInv'
  BY <1>1, <1>2 DEF IInv, OriginInv, TypeInv
<1>11. RefinementsBounded' /\ ReturnInv'
  BY <1>1, <1>6, <1>7 DEF IInv, RefinementsBounded, ReturnInv, TypeInv
<1>12. QED BY <1>3, <1>4, <1>8, <1>9, <1>10, <1>11 DEF IInv

LEMMA ProposeStep == ASSUME IInv, NEW p \in Procs, Propose(p) PROVE IInv'
<1> DEFINE x == [type |-> "proposal", num |-> 1, value |-> InitialValue(p), proposer |-> p]
<1>1. TypeInv
  BY DEF IInv
<1>2. x \in Messages
  BY DEF Messages, InitialValue
<1>3. msgs' = msgs \cup {x}
  BY DEF Propose, SendProposal, Send
<1>4. TypeInv'
  BY <1>1, <1>2, <1>3 DEF Propose, TypeInv, counters, InitialValue
<1>5. \A m \in received[p] : ~ About(m, p, active_proposal_number[p])
  BY <1>1 DEF IInv, NumberInv, TypeInv, About, Propose
<1>6. ack_count[p] = 0 /\ nack_count[p] = 0
  BY <1>5, NoneAnswered DEF IInv, CountsMatchAnswers
<1>7. ack_count' = [ack_count EXCEPT ![p] = 0] /\ nack_count' = [nack_count EXCEPT ![p] = 0]
  BY <1>1, <1>6 DEF Propose, counters, TypeInv
<1>8. Cardinality(InitialValue(p)) = 1
  BY FS_Singleton DEF InitialValue
<1>9. p \in Started' /\ pc'[p] = "proposed" /\ pc[p] = "idle"
  BY <1>1 DEF Propose, TypeInv, Started
<1>10. IsProposal(x) /\ About(x, p, active_proposal_number[p] + 1) /\ x.value = {p}
  BY DEF IsProposal, About, Propose, InitialValue
<1>11. pc' = [pc EXCEPT ![p] = pc'[p]]
  BY <1>1 DEF Propose, TypeInv
<1>12. /\ active_proposal_number' = [active_proposal_number EXCEPT ![p] = @ + 1]
       /\ proposed_value' = [proposed_value EXCEPT ![p] = x.value]
       /\ active_proposal_number[p] + 1 <= Cardinality(x.value)
       /\ UNCHANGED <<result, accepted_value, received>>
  BY <1>1, <1>8, <1>10 DEF Propose, TypeInv, InitialValue
<1> HIDE DEF x
<1>13. QED
  BY <1>3, <1>4, <1>7, <1>9, <1>10, <1>11, <1>12, NewProposalStep DEF InitialValue

LEMMA RefineStep == ASSUME IInv, NEW p \in Procs, Refine(p) PROVE IInv'
<1> DEFINE x == [type |-> "proposal", num |-> active_proposal_number[p] + 1,
                 value |-> proposed_value[p], proposer |-> p]
<1>1. TypeInv
  BY DEF IInv
<1>2. x \in Messages
  BY <1>1 DEF Messages, TypeInv
<1>3. msgs' = msgs \cup {x}
  BY DEF Refine, SendProposal, Send
<1>4. TypeInv'
  BY <1>1, <1>2, <1>3 DEF Refine, TypeInv
<1>5. p \in Started /\ p \in Started' /\ Started' = Started /\ pc'[p] = "waiting" /\ pc[p] = "waiting"
  BY <1>1 DEF Refine, TypeInv, Started
<1>6. Less(SentValue(p), proposed_value[p]) /\ InitialValue(p) \subseteq SentValue(p)
  BY <1>5 DEF Refine, CanRefine, IInv, ValueInv
<1>7. active_proposal_number[p] + 1 <= Cardinality(proposed_value[p])
  <2>1. Cardinality(SentValue(p)) + 1 <= Cardinality(proposed_value[p])
    BY <1>1, <1>6, StrictGrowth DEF TypeInv
  <2>2. active_proposal_number[p] <= Cardinality(SentValue(p))
    BY DEF IInv, RefinementsBounded
  <2>3. proposed_value[p] \subseteq Procs /\ SentValue(p) \subseteq Procs
    BY <1>1, <1>6 DEF TypeInv
  <2>4. Cardinality(SentValue(p)) \in Nat /\ Cardinality(proposed_value[p]) \in Nat
    BY <2>3, ProcSets
  <2>5. QED BY <1>1, <2>1, <2>2, <2>4 DEF TypeInv
<1>8. IsProposal(x) /\ About(x, p, active_proposal_number[p] + 1) /\ x.value = proposed_value[p]
  BY DEF IsProposal, About
<1>9. proposed_value[p] \subseteq Started'
  BY <1>5 DEF IInv, OriginInv
<1>10. /\ pc' = [pc EXCEPT ![p] = pc'[p]]
       /\ proposed_value' = [proposed_value EXCEPT ![p] = proposed_value[p]]
       /\ ack_count' = [ack_count EXCEPT ![p] = 0]
       /\ nack_count' = [nack_count EXCEPT ![p] = 0]
       /\ active_proposal_number' = [active_proposal_number EXCEPT ![p] = @ + 1]
       /\ UNCHANGED <<result, accepted_value, received>>
  BY <1>1 DEF Refine, TypeInv
<1> HIDE DEF x
<1>11. InitialValue(p) \subseteq x.value /\ x.value \subseteq Started'
  BY <1>6, <1>8, <1>9
<1>12. QED
  BY <1>3, <1>4, <1>5, <1>7, <1>8, <1>10, <1>11, NewProposalStep

-----------------------------------------------------------------------------
(* The steps of the network thread.                                        *)

(* The acceptor of a handles the proposal m, holds r.value from then on    *)
(* and answers r: what accept() and reject() have in common.               *)
LEMMA AnswerStep ==
  ASSUME IInv, NEW a \in Procs, NEW m \in ToAcceptor(a), NEW r \in Messages,
         IsReply(r), r.from = a, r.proposer = m.proposer, Answers(r, m),
         Leq(accepted_value[a], r.value), r.value \subseteq Started,
         accepted_value' = [accepted_value EXCEPT ![a] = r.value],
         msgs' = msgs \cup {r},
         received' = [received EXCEPT ![a] = @ \cup {m}],
         UNCHANGED <<mainVars, proposerVars>>
  PROVE  IInv'
<1> USE DEF mainVars, proposerVars, counters
<1>1. TypeInv /\ m \in msgs /\ m \notin received[a] /\ IsProposal(m) /\ r.value \subseteq Procs
  BY DEF IInv, ToAcceptor, IsProposal, TypeInv, Started
<1>2. TypeInv'
  BY <1>1 DEF TypeInv
<1>3. Started' = Started /\ Started \subseteq Procs
  BY DEF Started
<1>4. ~ IsProposal(r)
  BY DEF IsReply, IsProposal
<1>5. \A q \in Procs : SentValue(q)' = SentValue(q)
  BY <1>4, SentValueStable
<1>6. NumberInv'
  <2>1. 1 <= r.num /\ r.num <= active_proposal_number[r.proposer]
    BY <1>1 DEF Answers, About, IInv, NumberInv
  <2>2. QED BY <1>3, <1>4, <2>1 DEF IInv, NumberInv, IsProposal, About
<1>7. \A s \in msgs : IsReply(s) /\ s.from = a => ~ About(s, m.proposer, m.num)
  BY <1>1 DEF IInv, ReplyInv, NumberInv, Answers, About, TypeInv
<1>8. ReplyInv'
  <2>1. r.proposer = m.proposer /\ r.num = m.num
    BY DEF Answers, About
  <2>2. m \in received'[a] /\ \A q \in Procs : received[q] \subseteq received'[q]
    BY <1>1 DEF TypeInv
  <2>3. \A s \in msgs : IsReply(s) => s.from \in Procs
    BY <1>1 DEF TypeInv, Messages, IsReply
  <2>4. \A s \in msgs' : IsReply(s) => \E x \in received'[s.from] : Answers(s, x)
    BY <2>2, <2>3 DEF IInv, ReplyInv
  <2>5. \A s, t \in msgs' :
          IsReply(s) /\ IsReply(t) /\ t.from = s.from /\ About(t, s.proposer, s.num) => t = s
    BY <1>7, <2>1 DEF IInv, ReplyInv, About
  <2>6. QED BY <2>4, <2>5 DEF ReplyInv, IsReply, Answers, About, IsProposal
<1>9. AcksFormChain'
  <2>1. \A s \in msgs : s.type = "ack" => /\ s.from \in Procs
                                         /\ Leq(s.value, accepted_value[s.from])
    BY <1>1 DEF IInv, AcksFormChain, TypeInv, Messages
  <2>2. \A s \in msgs' : s.type = "ack" => Leq(s.value, accepted_value'[s.from])
    BY <1>1, <2>1 DEF TypeInv
  <2>3. \A s, t \in msgs' : s.type = "ack" /\ t.type = "ack" /\ s.from = t.from
                              => Comparable(s.value, t.value)
    BY <2>1 DEF IInv, AcksFormChain, Comparable
  <2>4. QED BY <2>2, <2>3 DEF AcksFormChain, Comparable
<1>10. CountsMatchAnswers'
  <2>1. \A q \in Procs : received'[q] = received[q] \/ received'[q] = received[q] \cup {m}
    BY <1>1 DEF TypeInv
  <2>2. \A q \in Procs, t \in {"ack", "nack"} : Answered(q, t)' = Answered(q, t)
    BY <1>1, <2>1, AnsweredStable DEF IsProposal
  <2>3. QED BY <2>2 DEF IInv, CountsMatchAnswers
<1>11. ValueInv' /\ RefinementsBounded' /\ ReturnInv'
  BY <1>3, <1>5 DEF IInv, ValueInv, RefinementsBounded, ReturnInv
<1>12. OriginInv'
  BY <1>1, <1>3 DEF IInv, OriginInv, TypeInv
<1>13. QED BY <1>2, <1>6, <1>8, <1>9, <1>10, <1>11, <1>12 DEF IInv

(* The reply of a to m is a message and refers to m.                       *)
LEMMA ReplyType ==
  ASSUME TypeInv, NEW a \in Procs, NEW m \in msgs, NEW t \in {"ack", "nack"},
         NEW v \in SUBSET Procs
  PROVE  LET r == Reply(t, a, m, v)
         IN  /\ r \in Messages /\ IsReply(r) /\ r.type = t /\ r.from = a
             /\ r.value = v /\ About(r, m.proposer, m.num)
<1>1. m.proposer \in Procs /\ m.num \in Nat
  BY DEF TypeInv, Messages
<1>2. QED BY <1>1 DEF Reply, Messages, IsReply, About

LEMMA AcceptStep ==
  ASSUME IInv, NEW a \in Procs, NEW m \in ToAcceptor(a), Accept(a, m) PROVE IInv'
<1> DEFINE r == Reply("ack", a, m, m.value)
<1>1. m \in msgs /\ IsProposal(m) /\ TypeInv
  BY DEF ToAcceptor, IsProposal, IInv
<1>2. m.value \subseteq Started /\ m.value \in SUBSET Procs
  BY <1>1 DEF IInv, OriginInv, TypeInv, Messages
<1>3. /\ r \in Messages /\ IsReply(r) /\ r.type = "ack" /\ r.from = a
      /\ r.value = m.value /\ About(r, m.proposer, m.num)
  BY <1>1, <1>2, ReplyType
<1>4. Answers(r, m) /\ r.proposer = m.proposer
  BY <1>1, <1>3 DEF Answers, About
<1>5. /\ Leq(accepted_value[a], m.value)
      /\ accepted_value' = [accepted_value EXCEPT ![a] = m.value]
      /\ msgs' = msgs \cup {r}
      /\ received' = [received EXCEPT ![a] = @ \cup {m}]
      /\ UNCHANGED <<mainVars, proposerVars>>
  BY DEF Accept, Send, Handled
<1> HIDE DEF r
<1>6. QED BY <1>2, <1>3, <1>4, <1>5, AnswerStep

LEMMA RejectStep ==
  ASSUME IInv, NEW a \in Procs, NEW m \in ToAcceptor(a), Reject(a, m) PROVE IInv'
<1> DEFINE v == Join(accepted_value[a], m.value)
           r == Reply("nack", a, m, v)
<1>1. m \in msgs /\ IsProposal(m) /\ TypeInv
  BY DEF ToAcceptor, IsProposal, IInv
<1>2. v \subseteq Started /\ v \in SUBSET Procs
  BY <1>1 DEF IInv, OriginInv, TypeInv, Messages
<1>3. /\ r \in Messages /\ IsReply(r) /\ r.type = "nack" /\ r.from = a
      /\ r.value = v /\ About(r, m.proposer, m.num)
  BY <1>1, <1>2, ReplyType
<1>4. Less(m.value, v) /\ Leq(accepted_value[a], v)
  BY DEF Reject
<1>5. Answers(r, m) /\ r.proposer = m.proposer
  BY <1>1, <1>3, <1>4 DEF Answers, About
<1>6. /\ accepted_value' = [accepted_value EXCEPT ![a] = v]
      /\ msgs' = msgs \cup {r}
      /\ received' = [received EXCEPT ![a] = @ \cup {m}]
      /\ UNCHANGED <<mainVars, proposerVars>>
  BY DEF Reject, Send, Handled
<1> HIDE DEF r, v
<1>7. QED BY <1>2, <1>3, <1>4, <1>5, <1>6, AnswerStep

(* What handling the answer m at p leaves alone, counted or not.           *)
LEMMA HandleReply ==
  ASSUME IInv, NEW p \in Procs, NEW m \in ToProposer(p), Handled(p, m),
         UNCHANGED <<active_proposal_number, accepted_value, msgs, pc>>
  PROVE  /\ m \in msgs /\ m \notin received[p] /\ m.proposer = p /\ m.from \in Procs
         /\ Started' = Started /\ Started \subseteq Procs
         /\ received'[p] = received[p] \cup {m}
         /\ received' \in [Procs -> SUBSET msgs]
         /\ NumberInv' /\ ReplyInv' /\ AcksFormChain'
         /\ \A q \in Procs : SentValue(q)' = SentValue(q)
         /\ \A q \in Procs \ {p}, t \in {"ack", "nack"} : Answered(q, t)' = Answered(q, t)
<1>1. /\ m \in msgs /\ m \notin received[p] /\ m.proposer = p /\ m.type \in {"ack", "nack"}
      /\ TypeInv
  BY DEF ToProposer, IInv
<1>2. m.from \in Procs
  BY <1>1 DEF TypeInv, Messages
<1>3. Started' = Started /\ Started \subseteq Procs
  BY DEF Started
<1>4. /\ received'[p] = received[p] \cup {m}
      /\ received' \in [Procs -> SUBSET msgs]
      /\ \A q \in Procs : received[q] \subseteq received'[q]
      /\ \A q \in Procs \ {p} : received'[q] = received[q]
  BY <1>1 DEF Handled, TypeInv
<1>5. NumberInv'
  BY <1>3 DEF IInv, NumberInv, IsProposal, About
<1>6. ReplyInv'
  <2>1. \A r \in msgs : IsReply(r) => r.from \in Procs
    BY <1>1 DEF TypeInv, Messages, IsReply
  <2>2. \A r \in msgs : IsReply(r) => \E x \in received'[r.from] : Answers(r, x)
    BY <1>4, <2>1 DEF IInv, ReplyInv
  <2>3. QED BY <2>2 DEF IInv, ReplyInv, IsReply, Answers, About, IsProposal
<1>7. AcksFormChain'
  BY DEF IInv, AcksFormChain, Comparable
<1>8. \A q \in Procs : SentValue(q)' = SentValue(q)
  BY DEF SentValue
<1>9. \A q \in Procs \ {p}, t \in {"ack", "nack"} : Answered(q, t)' = Answered(q, t)
  BY <1>4 DEF Answered
<1>10. QED BY <1>1, <1>2, <1>3, <1>4, <1>5, <1>6, <1>7, <1>8, <1>9

(* notify_one releases the waiter or is lost.                              *)
LEMMA NotifyType ==
  ASSUME TypeInv, NEW p \in Procs, Notify(p) \/ UNCHANGED notified
  PROVE  notified' \in [Procs -> BOOLEAN]
<1>1. CASE UNCHANGED notified
  BY <1>1 DEF TypeInv
<1>2. CASE Notify(p)
  <2>1. (notified[p] \/ pc[p] = "waiting") \in BOOLEAN
    OBVIOUS
  <2> DEFINE b == notified[p] \/ pc[p] = "waiting"
  <2>2. notified' = [notified EXCEPT ![p] = b] /\ b \in BOOLEAN
    BY <1>2, <2>1 DEF Notify
  <2> HIDE DEF b
  <2>3. QED BY <2>2 DEF TypeInv
<1>3. QED BY <1>1, <1>2

(* An answer that is being handled is the first of its acceptor to the     *)
(* proposal it is about.                                                   *)
LEMMA FirstAnswer ==
  ASSUME IInv, NEW p \in Procs, NEW m \in ToProposer(p)
  PROVE  \A y \in received[p] :
           IsReply(y) /\ y.from = m.from => ~ About(y, m.proposer, m.num)
BY DEF IInv, ReplyInv, TypeInv, ToProposer, IsReply

LEMMA ProcessAckStep ==
  ASSUME IInv, NEW p \in Procs, NEW m \in ToProposer(p), ProcessAck(p, m)
  PROVE  IInv'
<1>1. TypeInv /\ m.type = "ack"
  BY DEF IInv, ProcessAck
<1>2. /\ m \in msgs /\ m.proposer = p /\ m.from \in Procs
      /\ Started' = Started /\ Started \subseteq Procs
      /\ received'[p] = received[p] \cup {m}
      /\ received' \in [Procs -> SUBSET msgs]
      /\ NumberInv' /\ ReplyInv' /\ AcksFormChain'
      /\ \A q \in Procs : SentValue(q)' = SentValue(q)
      /\ \A q \in Procs \ {p}, t \in {"ack", "nack"} : Answered(q, t)' = Answered(q, t)
  BY HandleReply DEF ProcessAck
<1>3. TypeInv'
  <2>1. notified' \in [Procs -> BOOLEAN]
    BY <1>1, NotifyType DEF ProcessAck
  <2>2. ack_count' \in [Procs -> Nat]
    BY <1>1 DEF ProcessAck, TypeInv
  <2>3. QED BY <1>1, <1>2, <2>1, <2>2 DEF ProcessAck, TypeInv
<1>4. Answered(p, "nack")' = Answered(p, "nack")
  BY <1>1, <1>2 DEF Answered, ProcessAck
<1>5. ack_count'[p] = Cardinality(Answered(p, "ack")')
  <2>1. CASE m.num = active_proposal_number[p]
    <3>1. \A y \in received[p] : y.type = m.type /\ y.from = m.from
                                   => ~ About(y, p, active_proposal_number[p])
      BY <1>1, <1>2, <2>1, FirstAnswer DEF IsReply
    <3>2. About(m, p, active_proposal_number[p]) /\ active_proposal_number' = active_proposal_number
      BY <1>2, <2>1 DEF About, ProcessAck
    <3>3. Cardinality(Answered(p, m.type)') = Cardinality(Answered(p, m.type)) + 1
      BY <1>2, <3>1, <3>2, AnsweredGrows
    <3>4. ack_count'[p] = ack_count[p] + 1
      BY <1>1, <2>1 DEF ProcessAck, TypeInv
    <3>5. QED BY <1>1, <3>3, <3>4 DEF IInv, CountsMatchAnswers
  <2>2. CASE m.num # active_proposal_number[p]
    <3>1. Answered(p, "ack")' = Answered(p, "ack")
      BY <1>1, <1>2, <2>2, AnsweredStable DEF ProcessAck
    <3>2. QED BY <2>2, <3>1 DEF ProcessAck, IInv, CountsMatchAnswers
  <2>3. QED BY <2>1, <2>2
<1>6. /\ \A q \in Procs \ {p} : ack_count'[q] = ack_count[q]
      /\ ack_count'[p] >= ack_count[p]
      /\ UNCHANGED <<pc, result, nack_count, active_proposal_number, proposed_value,
                     accepted_value, msgs>>
  BY <1>1 DEF ProcessAck, TypeInv
<1>7. CountsMatchAnswers'
  BY <1>2, <1>4, <1>5, <1>6 DEF IInv, CountsMatchAnswers
<1>8. ValueInv' /\ RefinementsBounded'
  BY <1>2, <1>6 DEF IInv, ValueInv, RefinementsBounded
<1>9. ReturnInv'
  <2>1. \A q \in Procs : ack_count[q] >= Majority => ack_count'[q] >= Majority
    BY <1>1, <1>3, <1>6, MajorityType DEF TypeInv
  <2>2. QED BY <1>2, <1>6, <2>1 DEF IInv, ReturnInv
<1>10. OriginInv'
  BY <1>2, <1>6 DEF IInv, OriginInv
<1>11. QED BY <1>2, <1>3, <1>7, <1>8, <1>9, <1>10 DEF IInv

(* A nack makes the next value strictly larger than the active proposal.   *)
LEMMA NackGrows ==
  ASSUME IInv, NEW p \in Procs, NEW m \in ToProposer(p), m.type = "nack",
         m.num = active_proposal_number[p]
  PROVE  Less(SentValue(p), m.value) /\ m.value \subseteq Started
<1>1. m \in msgs /\ m.proposer = p /\ IsReply(m) /\ m.from \in Procs
  BY DEF ToProposer, IsReply, IInv, TypeInv, Messages
<1>2. PICK x \in received[m.from] : Answers(m, x)
  BY <1>1 DEF IInv, ReplyInv
<1>3. x \in msgs /\ IsProposal(x) /\ About(x, p, active_proposal_number[p])
  BY <1>1, <1>2 DEF IInv, TypeInv, Answers, About
<1>4. SentValue(p) = x.value
  BY <1>3, SentValueIs DEF IInv
<1>5. QED BY <1>1, <1>2, <1>4 DEF Answers, IInv, OriginInv

LEMMA ProcessNackStep ==
  ASSUME IInv, NEW p \in Procs, NEW m \in ToProposer(p), ProcessNack(p, m)
  PROVE  IInv'
<1>1. TypeInv /\ m.type = "nack"
  BY DEF IInv, ProcessNack
<1>2. /\ m \in msgs /\ m.proposer = p /\ m.from \in Procs
      /\ Started' = Started /\ Started \subseteq Procs
      /\ received'[p] = received[p] \cup {m}
      /\ received' \in [Procs -> SUBSET msgs]
      /\ NumberInv' /\ ReplyInv' /\ AcksFormChain'
      /\ \A q \in Procs : SentValue(q)' = SentValue(q)
      /\ \A q \in Procs \ {p}, t \in {"ack", "nack"} : Answered(q, t)' = Answered(q, t)
  BY HandleReply DEF ProcessNack
<1>3. m.value \subseteq Procs
  BY <1>1, <1>2 DEF TypeInv, Messages
<1>4. TypeInv'
  <2>1. notified' \in [Procs -> BOOLEAN]
    BY <1>1, NotifyType DEF ProcessNack
  <2>2. nack_count' \in [Procs -> Nat] /\ proposed_value' \in [Procs -> SUBSET Procs]
    BY <1>1, <1>3 DEF ProcessNack, TypeInv
  <2>3. QED BY <1>1, <1>2, <2>1, <2>2 DEF ProcessNack, TypeInv
<1>5. Answered(p, "ack")' = Answered(p, "ack")
  BY <1>1, <1>2 DEF Answered, ProcessNack
<1>6. /\ \A q \in Procs \ {p} : /\ nack_count'[q] = nack_count[q]
                                /\ proposed_value'[q] = proposed_value[q]
      /\ UNCHANGED <<pc, result, ack_count, active_proposal_number, accepted_value, msgs>>
  BY <1>1 DEF ProcessNack, TypeInv
<1>7. nack_count'[p] = Cardinality(Answered(p, "nack")')
  <2>1. CASE m.num = active_proposal_number[p]
    <3>1. \A y \in received[p] : y.type = m.type /\ y.from = m.from
                                   => ~ About(y, p, active_proposal_number[p])
      BY <1>1, <1>2, <2>1, FirstAnswer DEF IsReply
    <3>2. About(m, p, active_proposal_number[p])
      BY <1>2, <2>1 DEF About
    <3>3. Cardinality(Answered(p, m.type)') = Cardinality(Answered(p, m.type)) + 1
      BY <1>2, <1>6, <3>1, <3>2, AnsweredGrows
    <3>4. nack_count'[p] = nack_count[p] + 1
      BY <1>1, <2>1 DEF ProcessNack, TypeInv
    <3>5. QED BY <1>1, <3>3, <3>4 DEF IInv, CountsMatchAnswers
  <2>2. CASE m.num # active_proposal_number[p]
    <3>1. Answered(p, "nack")' = Answered(p, "nack")
      BY <1>1, <1>2, <1>6, <2>2, AnsweredStable
    <3>2. QED BY <2>2, <3>1 DEF ProcessNack, IInv, CountsMatchAnswers
  <2>3. QED BY <2>1, <2>2
<1>8. CountsMatchAnswers'
  BY <1>2, <1>5, <1>6, <1>7 DEF IInv, CountsMatchAnswers
<1>9. ValueInv' /\ OriginInv'
  <2>1. CASE m.num = active_proposal_number[p]
    <3>1. Less(SentValue(p), m.value) /\ m.value \subseteq Started
      BY <1>1, <2>1, NackGrows
    <3>2. /\ proposed_value'[p] = proposed_value[p] \cup m.value
          /\ nack_count'[p] # 0
      BY <1>1, <2>1 DEF ProcessNack, TypeInv
    <3>3. ValueInv'
      <4>1. \A q \in Started : q # p =>
              /\ nack_count'[q] = nack_count[q]
              /\ proposed_value'[q] = proposed_value[q]
        BY <1>2, <1>6
      <4>2. Less(SentValue(p), proposed_value'[p]) \/ p \notin Started
        BY <3>1, <3>2 DEF IInv, ValueInv
      <4>3. \A q \in Started : SentValue(q)' = SentValue(q)
        BY <1>2
      <4>4. QED BY <1>2, <3>2, <4>1, <4>2, <4>3 DEF IInv, ValueInv
    <3>4. OriginInv'
      BY <1>2, <1>6, <3>1, <3>2 DEF IInv, OriginInv
    <3>5. QED BY <3>3, <3>4
  <2>2. CASE m.num # active_proposal_number[p]
    <3>1. UNCHANGED <<proposed_value, nack_count>>
      BY <2>2 DEF ProcessNack
    <3>2. QED BY <1>2, <1>6, <3>1 DEF IInv, ValueInv, OriginInv
  <2>3. QED BY <2>1, <2>2
<1>10. RefinementsBounded' /\ ReturnInv'
  <2>1. \A q \in Procs : nack_count'[q] = 0 => nack_count[q] = 0
    BY <1>1 DEF ProcessNack, TypeInv
  <2>2. QED BY <1>2, <1>6, <2>1 DEF IInv, RefinementsBounded, ReturnInv
<1>11. QED BY <1>2, <1>4, <1>8, <1>9, <1>10 DEF IInv

-----------------------------------------------------------------------------
(* The invariant, and the safety properties that follow from it.           *)

LEMMA NextIInv == IInv /\ [Next]_vars => IInv'
<1> SUFFICES ASSUME IInv, [Next]_vars PROVE IInv'
  OBVIOUS
<1>1. ASSUME NEW p \in Proposers, Main(p) PROVE IInv'
  BY <1>1, ProcsAssumption, ProposeStep, EnterWaitStep, DecideStep, RefineStep,
     WaitAgainStep DEF Main, Turn
<1>2. ASSUME NEW p \in Procs, Network(p) PROVE IInv'
  BY <1>2, AcceptStep, RejectStep, ProcessAckStep, ProcessNackStep DEF Network
<1>3. CASE UNCHANGED vars
  <2> USE <1>3 DEF vars, mainVars, proposerVars, counters, netVars
  <2>1. TypeInv' /\ Started' = Started /\ OriginInv'
    BY DEF IInv, TypeInv, Started, OriginInv
  <2>2. NumberInv' /\ ReplyInv' /\ AcksFormChain'
    BY <2>1 DEF IInv, NumberInv, ReplyInv, AcksFormChain, IsReply, IsProposal, Answers,
                About, Comparable
  <2>3. \A p \in Procs : SentValue(p)' = SentValue(p)
    BY DEF SentValue
  <2>4. \A p \in Procs, t \in {"ack", "nack"} : Answered(p, t)' = Answered(p, t)
    BY DEF Answered
  <2>5. Started \subseteq Procs
    BY DEF Started
  <2>6. CountsMatchAnswers' /\ ValueInv' /\ RefinementsBounded' /\ ReturnInv'
    BY <2>1, <2>3, <2>4, <2>5 DEF IInv, CountsMatchAnswers, ValueInv, RefinementsBounded,
                                  ReturnInv
  <2>7. QED BY <2>1, <2>2, <2>6 DEF IInv
<1>4. QED BY <1>1, <1>2, <1>3 DEF Next

(* The conjunction of all parts of the invariant holds in every reachable  *)
(* state.                                                                  *)
THEOREM Invariance == Spec => []IInv
BY InitIInv, NextIInv, PTL DEF Spec

(* Neither counter of a proposer exceeds N: no acceptor is counted twice   *)
(* for a proposal, however its answers are delayed or reordered.           *)
THEOREM TypeCorrect == Spec => []TypeOK
<1>1. IInv => TypeOK
  <2> SUFFICES ASSUME IInv PROVE TypeOK
    OBVIOUS
  <2>1. N \in Nat
    BY ProcsAssumption, FS_CardinalityType DEF N
  <2>2. \A p \in Procs : ack_count[p] \in 0..N /\ nack_count[p] \in 0..N
    <3> SUFFICES ASSUME NEW p \in Procs, NEW t \in {"ack", "nack"}
                 PROVE  Cardinality(Answered(p, t)) \in 0..N
      BY DEF IInv, CountsMatchAnswers
    <3>1. Answered(p, t) \subseteq Procs
      BY DEF Answered
    <3>2. QED BY <2>1, <3>1, ProcSets
  <2>3. ack_count \in [Procs -> 0..N] /\ nack_count \in [Procs -> 0..N]
    BY <2>2 DEF IInv, TypeInv
  <2>4. QED BY <2>3 DEF IInv, TypeInv, TypeOK
<1>2. QED BY <1>1, Invariance, PTL

(* The majority that acknowledged what p proposed last.                    *)
LEMMA AckQuorum ==
  ASSUME IInv, NEW p \in Procs, pc[p] = "returned"
  PROVE  /\ Cardinality(Answered(p, "ack")) >= Majority
         /\ Answered(p, "ack") \subseteq Procs
         /\ \A a \in Answered(p, "ack") : \E m \in msgs :
              m.type = "ack" /\ m.from = a /\ m.value = SentValue(p)
<1>1. Cardinality(Answered(p, "ack")) >= Majority /\ Answered(p, "ack") \subseteq Procs
  BY DEF IInv, ReturnInv, CountsMatchAnswers, Answered
<1>2. ASSUME NEW a \in Answered(p, "ack")
      PROVE  \E m \in msgs : m.type = "ack" /\ m.from = a /\ m.value = SentValue(p)
  <2>1. PICK m \in received[p] : m.type = "ack" /\ m.from = a
                                 /\ About(m, p, active_proposal_number[p])
    BY <1>2 DEF Answered, About
  <2>2. m \in msgs /\ IsReply(m) /\ m.from \in Procs
    BY <1>1, <2>1 DEF IInv, TypeInv, IsReply
  <2>3. PICK x \in received[m.from] : Answers(m, x)
    BY <2>2 DEF IInv, ReplyInv
  <2>4. x \in msgs /\ IsProposal(x) /\ About(x, p, active_proposal_number[p])
    BY <2>1, <2>2, <2>3 DEF IInv, TypeInv, Answers, About
  <2>5. SentValue(p) = x.value
    BY <2>4, SentValueIs DEF IInv
  <2>6. QED BY <2>1, <2>2, <2>3, <2>5 DEF Answers
<1>3. QED BY <1>1, <1>2

LEMMA InvComparable == IInv => DecidedComparable
<1> SUFFICES ASSUME IInv, NEW p \in Procs, NEW q \in Procs,
                    pc[p] = "returned", pc[q] = "returned"
             PROVE  Comparable(SentValue(p), SentValue(q))
  BY DEF DecidedComparable
<1>1. PICK a \in Procs : a \in Answered(p, "ack") /\ a \in Answered(q, "ack")
  BY AckQuorum, QuorumsMeet
<1>2. PICK m1 \in msgs : m1.type = "ack" /\ m1.from = a /\ m1.value = SentValue(p)
  BY <1>1, AckQuorum
<1>3. PICK m2 \in msgs : m2.type = "ack" /\ m2.from = a /\ m2.value = SentValue(q)
  BY <1>1, AckQuorum
<1>4. QED BY <1>2, <1>3 DEF IInv, AcksFormChain

(* Agreement: the proposals on which start returned form a chain, for any  *)
(* number of processes, any losses and any order of delivery.              *)
THEOREM Agreement == Spec => []DecidedComparable
BY InvComparable, Invariance, PTL

(* Without a late nack the returned values themselves form a chain.        *)
THEOREM CleanAgreement == Spec => []CleanResultsComparable
<1>1. IInv => CleanResultsComparable
  BY InvComparable DEF IInv, ReturnInv, DecidedComparable, CleanResultsComparable
<1>2. QED BY <1>1, Invariance, PTL

(* A majority of the acceptors holds a decided proposal for ever.          *)
THEOREM Durability == Spec => []DecidedIsHeld
<1>1. IInv => DecidedIsHeld
  <2> SUFFICES ASSUME IInv, NEW p \in Procs, pc[p] = "returned"
               PROVE  Cardinality({a \in Procs : Leq(SentValue(p), accepted_value[a])})
                        >= Majority
    BY DEF DecidedIsHeld
  <2> DEFINE H == {a \in Procs : Leq(SentValue(p), accepted_value[a])}
             A == Answered(p, "ack")
  <2>1. A \subseteq H
    BY AckQuorum DEF IInv, AcksFormChain
  <2>2. Cardinality(A) >= Majority
    BY AckQuorum
  <2>3. IsFiniteSet(H) /\ Cardinality(H) \in Nat
    BY ProcSets
  <2>4. Cardinality(A) <= Cardinality(H) /\ Cardinality(A) \in Nat
    BY <2>1, <2>3, AckQuorum, ProcSets, FS_Subset
  <2>5. QED BY <2>2, <2>3, <2>4, MajorityType
<1>2. QED BY <1>1, Invariance, PTL

(* start returns values that were proposed, its own among them.            *)
THEOREM ResultsValid == Spec => []Validity
<1>1. IInv => Validity
  BY DEF IInv, Validity, ReturnInv, ValueInv, OriginInv, Started
<1>2. QED BY <1>1, Invariance, PTL

(* No process proposes more often than there are values to add.            *)
THEOREM FewRefinements == Spec => []RefinementsBounded
<1>1. IInv => RefinementsBounded
  BY DEF IInv
<1>2. QED BY <1>1, Invariance, PTL

(* What an acceptor acknowledged is a chain below what it holds now.       *)
THEOREM PromisesKept == Spec => []AcksFormChain
<1>1. IInv => AcksFormChain
  BY DEF IInv
<1>2. QED BY <1>1, Invariance, PTL

(* The counters of a proposer are the numbers of distinct acceptors that   *)
(* answered the proposal it is at, never those of an earlier one.          *)
THEOREM CountersSound == Spec => []CountsMatchAnswers
<1>1. IInv => CountsMatchAnswers
  BY DEF IInv
<1>2. QED BY <1>1, Invariance, PTL

-----------------------------------------------------------------------------
(* Refinement.                                                             *)

Learnt == [p \in Procs |-> IF pc[p] = "returned" THEN SentValue(p) ELSE Bottom]

(* Whatever happens afterwards, what p learnt stays what it was.           *)
LEMMA LearntStable ==
  ASSUME IInv, Next, NEW q \in Procs, pc[q] = "returned"
  PROVE  pc'[q] = "returned" /\ SentValue(q)' = SentValue(q)
<1> USE DEF proposerVars, counters, mainVars, netVars
<1>1. TypeInv
  BY DEF IInv
<1>2. ASSUME NEW p \in Procs, Propose(p) \/ Refine(p)
      PROVE  pc'[q] = "returned" /\ SentValue(q)' = SentValue(q)
  <2>1. p # q
    BY <1>2 DEF Propose, Refine
  <2>2. PICK num \in Nat, value \in SUBSET Procs :
          msgs' = msgs \cup {[type |-> "proposal", num |-> num, value |-> value,
                             proposer |-> p]}
    <3>1. CASE Propose(p)
      <4>1. 1 \in Nat /\ InitialValue(p) \in SUBSET Procs
        BY DEF InitialValue
      <4>2. QED BY <3>1, <4>1 DEF Propose, SendProposal, Send
    <3>2. CASE Refine(p)
      <4>1. active_proposal_number[p] + 1 \in Nat /\ proposed_value[p] \in SUBSET Procs
        BY <1>1 DEF TypeInv
      <4>2. QED BY <3>2, <4>1 DEF Refine, SendProposal, Send
    <3>3. QED BY <1>2, <3>1, <3>2
  <2>3. active_proposal_number'[q] = active_proposal_number[q] /\ pc'[q] = pc[q]
    BY <1>1, <1>2, <2>1 DEF Propose, Refine, TypeInv
  <2> DEFINE x == [type |-> "proposal", num |-> num, value |-> value, proposer |-> p]
  <2>4. ~ (IsProposal(x) /\ About(x, q, active_proposal_number[q])) /\ msgs' = msgs \cup {x}
    BY <2>1, <2>2 DEF About
  <2> HIDE DEF x
  <2>5. QED BY <2>3, <2>4, SentValueStable
<1>3. ASSUME NEW p \in Procs, EnterWait(p) \/ Decide(p) \/ WaitAgain(p)
      PROVE  pc'[q] = "returned" /\ SentValue(q)' = SentValue(q)
  BY <1>1, <1>3 DEF EnterWait, Decide, WaitAgain, SentValue, TypeInv
<1>4. ASSUME NEW a \in Procs, NEW m \in ToAcceptor(a), Accept(a, m) \/ Reject(a, m)
      PROVE  pc'[q] = "returned" /\ SentValue(q)' = SentValue(q)
  <2>1. PICK t \in {"ack", "nack"}, v \in {m.value, Join(accepted_value[a], m.value)} :
          msgs' = msgs \cup {Reply(t, a, m, v)}
    BY <1>4 DEF Accept, Reject, Send
  <2>2. active_proposal_number' = active_proposal_number /\ pc' = pc
    BY <1>4 DEF Accept, Reject
  <2>3. ~ IsProposal(Reply(t, a, m, v))
    BY DEF Reply, IsProposal
  <2>4. QED BY <2>1, <2>2, <2>3, SentValueStable
<1>5. ASSUME NEW p \in Procs, NEW m \in ToProposer(p), ProcessAck(p, m) \/ ProcessNack(p, m)
      PROVE  pc'[q] = "returned" /\ SentValue(q)' = SentValue(q)
  BY <1>5 DEF ProcessAck, ProcessNack, SentValue
<1>6. QED
  BY <1>2, <1>3, <1>4, <1>5, ProcsAssumption DEF Next, Main, Turn, Network

(* A step that calls nothing and returns nothing changes nothing abstract. *)
LEMMA SilentStep ==
  ASSUME IInv, Next, UNCHANGED Started,
         \A q \in Procs : pc'[q] = "returned" => pc[q] = "returned"
  PROVE  UNCHANGED <<Started, Learnt>>
BY LearntStable DEF Learnt

LEMMA CallStep ==
  ASSUME IInv, IInv', Next, NEW p \in Procs, Propose(p) PROVE LA!Call(p)
<1>1. Started' = Started \cup {p} /\ p \notin Started
  BY DEF Propose, IInv, TypeInv, Started
<1>2. \A q \in Procs : pc'[q] = "returned" <=> pc[q] = "returned"
  BY DEF Propose, IInv, TypeInv
<1>3. Learnt' = Learnt
  BY <1>2, LearntStable DEF Learnt
<1>4. QED BY <1>1, <1>3 DEF LA!Call, Started, Learnt

LEMMA ReturnStep ==
  ASSUME IInv, IInv', Next, NEW p \in Procs, Decide(p)
  PROVE  LA!Return(p, SentValue(p)) /\ SentValue(p) \in SUBSET Started
<1> DEFINE v == SentValue(p)
<1>1. pc[p] = "waiting" /\ p \in Started /\ Started' = Started
      /\ pc' = [pc EXCEPT ![p] = "returned"]
  BY DEF Decide, IInv, TypeInv, Started
<1>2. SentValue(p)' = v /\ pc'[p] = "returned"
  BY <1>1 DEF Decide, SentValue, netVars, IInv, TypeInv
<1>3. Learnt[p] = Bottom
  BY <1>1 DEF Learnt
<1>4. Leq({p}, v) /\ v \subseteq Started
  BY <1>1 DEF IInv, ValueInv, OriginInv, InitialValue
<1>5. \A q \in Procs \ {p} : Learnt'[q] = Learnt[q]
  BY <1>1, LearntStable DEF Learnt, IInv, TypeInv
<1>6. Learnt'[p] = v
  BY <1>2 DEF Learnt
<1>7. Learnt' = [Learnt EXCEPT ![p] = v]
  BY <1>5, <1>6 DEF Learnt
<1>8. \A q \in Procs : Comparable(v, Learnt[q])
  <2> SUFFICES ASSUME NEW q \in Procs PROVE Comparable(v, Learnt[q])
    OBVIOUS
  <2>1. CASE pc[q] = "returned"
    <3>1. pc'[q] = "returned" /\ SentValue(q)' = SentValue(q)
      BY <2>1, LearntStable
    <3>2. DecidedComparable'
      BY InvComparable, PTL
    <3>3. Comparable(SentValue(p)', SentValue(q)')
      BY <3>1, <3>2, <1>2 DEF DecidedComparable, Comparable
    <3>4. QED BY <2>1, <3>1, <3>3, <1>2 DEF Learnt
  <2>2. CASE pc[q] # "returned"
    BY <2>2 DEF Learnt, Comparable
  <2>3. QED BY <2>1, <2>2
<1>9. LA!Return(p, v)
  <2>1. \A q \in Procs : LA!Comparable(v, Learnt[q])
    BY <1>8 DEF LA!Comparable, LA!Leq, Comparable
  <2>2. LA!Leq({p}, v) /\ Learnt[p] = LA!Bottom
    BY <1>3, <1>4 DEF LA!Leq, LA!Bottom
  <2> HIDE DEF v
  <2>3. QED
    BY <1>1, <1>7, <2>1, <2>2 DEF LA!Return, Started, Learnt
<1>10. QED BY <1>4, <1>9

LEMMA NextSimulates == IInv /\ IInv' /\ [Next]_vars => [LA!AbsNext]_(LA!absvars)
<1> SUFFICES ASSUME IInv, IInv', [Next]_vars PROVE [LA!AbsNext]_(LA!absvars)
  OBVIOUS
<1>1. UNCHANGED <<Started, Learnt>> => UNCHANGED LA!absvars
  BY DEF LA!absvars, Started, Learnt
<1>2. CASE UNCHANGED vars
  BY <1>1, <1>2 DEF vars, mainVars, proposerVars, netVars, LA!absvars, SentValue
<1>3. CASE \E p \in Procs : Propose(p) /\ Next
  BY <1>3, CallStep DEF LA!AbsNext
<1>4. CASE \E p \in Procs : Decide(p) /\ Next
  <2>1. PICK p \in Procs : Decide(p) /\ Next
    BY <1>4
  <2>2. LA!Return(p, SentValue(p)) /\ SentValue(p) \in SUBSET Started
    BY <2>1, ReturnStep
  <2>3. \E v \in SUBSET {q \in Procs : pc[q] # "idle"} : LA!Return(p, v)
    <3> DEFINE v == SentValue(p)
    <3>1. LA!Return(p, v) /\ v \in SUBSET {q \in Procs : pc[q] # "idle"}
      BY <2>2 DEF Started
    <3> HIDE DEF v
    <3>2. QED BY <3>1, Zenon DEF LA!Return
  <2>4. QED BY <2>3 DEF LA!AbsNext
<1>5. CASE Next /\ ~ (\E p \in Procs : Propose(p) \/ Decide(p))
  <2>1. UNCHANGED Started /\ \A q \in Procs : pc'[q] = "returned" => pc[q] = "returned"
    <3>1. ASSUME NEW p \in Proposers, Main(p)
          PROVE  UNCHANGED Started /\ \A q \in Procs : pc'[q] = "returned" => pc[q] = "returned"
      BY <1>5, <3>1, ProcsAssumption
         DEF Main, Turn, EnterWait, Refine, WaitAgain, Started, IInv, TypeInv
    <3>2. ASSUME NEW p \in Procs, Network(p) PROVE pc' = pc
      BY <3>2 DEF Network, Accept, Reject, ProcessAck, ProcessNack, mainVars
    <3>3. QED BY <1>5, <3>1, <3>2 DEF Next, Started
  <2>2. QED BY <1>1, <1>5, <2>1, SilentStep
<1>6. QED BY <1>2, <1>3, <1>4, <1>5

(* The proposals on which start returned implement lattice agreement.      *)
THEOREM Refinement == Spec => ImplementsLA
<1>1. Init => LA!AbsInit
  BY DEF Init, LA!AbsInit, LA!Bottom
<1>2. QED
  BY <1>1, NextSimulates, Invariance, PTL DEF Spec, ImplementsLA, LA!AbsSpec

-----------------------------------------------------------------------------
(* Where the system can come to rest.                                      *)

(* A process that a step leaves alone is where it was.                     *)
LEMMA Undisturbed ==
  ASSUME NEW q \in Procs, Awake(q),
         pc'[q] = pc[q], status'[q] = status[q], notified'[q] = notified[q],
         ack_count'[q] = ack_count[q], nack_count'[q] = nack_count[q],
         active_proposal_number'[q] = active_proposal_number[q]
  PROVE  Awake(q)'
BY DEF Awake, CanDecide, CanRefine

(* No proposal is handled: answers stay where they are.                    *)
LEMMA RepliedKept ==
  ASSUME RepliedInv, msgs \subseteq msgs',
         \A q \in Procs : \A m \in received'[q] : m \in received[q] \/ ~ IsProposal(m)
  PROVE  RepliedInv'
BY DEF RepliedInv, IsProposal, IsReply, About

(* Initially nobody waits.                                                 *)
LEMMA InitProgress == Init => ProgressInv
BY DEF Init, ProgressInv, Awake, RepliedInv

(* Stuttering changes nothing.                                             *)
LEMMA StutterProgress == ASSUME ProgressInv, UNCHANGED vars PROVE ProgressInv'
<1> USE DEF vars, mainVars, proposerVars, counters, netVars
<1>1. \A q \in Procs : Awake(q)'
  BY Undisturbed DEF ProgressInv
<1>2. RepliedInv'
  BY RepliedKept DEF ProgressInv
<1>3. QED BY <1>1, <1>2 DEF ProgressInv

(* start() before its loop: the number of the proposal is 1.               *)
LEMMA StartProgress ==
  ASSUME IInv, ProgressInv, NEW p \in Procs, Propose(p) \/ EnterWait(p)
  PROVE  ProgressInv'
<1> USE DEF mainVars, proposerVars, counters, netVars
<1>1. TypeInv /\ Awake(p)
  BY DEF IInv, ProgressInv
<1>2. /\ UNCHANGED <<notified, ack_count, nack_count, received>> /\ msgs \subseteq msgs'
      /\ \A q \in Procs \ {p} : /\ pc'[q] = pc[q] /\ status'[q] = status[q]
                                /\ active_proposal_number'[q] = active_proposal_number[q]
  BY <1>1 DEF Propose, EnterWait, SendProposal, Send, TypeInv
<1>3. \/ pc'[p] = "proposed" /\ active_proposal_number'[p] = 1 /\ status'[p] = "Active"
      \/ /\ pc[p] = "proposed" /\ pc'[p] = "waiting" /\ UNCHANGED <<active_proposal_number, status>>
  BY <1>1 DEF Propose, EnterWait, TypeInv
<1>4. pc[p] = "proposed" => active_proposal_number[p] = 1 /\ status[p] = "Active"
  BY <1>1 DEF Awake
<1>5. Awake(p)'
  BY <1>3, <1>4 DEF Awake
<1>6. ASSUME NEW q \in Procs \ {p} PROVE Awake(q)'
  BY <1>2, <1>6, Undisturbed DEF ProgressInv
<1>7. RepliedInv'
  BY <1>2, RepliedKept DEF ProgressInv
<1>8. QED BY <1>5, <1>6, <1>7 DEF ProgressInv

(* A turn of the loop ends it, counts from zero or finds too few answers.  *)
LEMMA TurnProgress ==
  ASSUME IInv, ProgressInv, NEW p \in Procs, Turn(p)
  PROVE  ProgressInv'
<1> USE DEF mainVars, proposerVars, counters, netVars
<1>1. TypeInv /\ Awake(p) /\ Majority >= 1 /\ Majority \in Nat
  BY MajorityType DEF IInv, ProgressInv
<1>2. /\ UNCHANGED received /\ msgs \subseteq msgs'
      /\ \A q \in Procs \ {p} :
           /\ pc'[q] = pc[q] /\ status'[q] = status[q] /\ notified'[q] = notified[q]
           /\ ack_count'[q] = ack_count[q] /\ nack_count'[q] = nack_count[q]
           /\ active_proposal_number'[q] = active_proposal_number[q]
  BY <1>1 DEF Turn, Decide, Refine, WaitAgain, SendProposal, Send, TypeInv
<1>3. Awake(p)'
  <2>1. CASE Decide(p)
    <3>1. pc'[p] = "returned"
      BY <1>1, <2>1 DEF Decide, TypeInv
    <3>2. QED BY <3>1 DEF Awake
  <2>2. CASE Refine(p)
    <3>1. /\ pc'[p] = "waiting" /\ status'[p] = "Active"
          /\ ack_count'[p] = 0 /\ nack_count'[p] = 0
          /\ active_proposal_number'[p] = active_proposal_number[p] + 1
          /\ active_proposal_number[p] \in Nat
      BY <1>1, <2>2 DEF Refine, CanRefine, TypeInv
    <3>2. active_proposal_number'[p] # 0
      BY <3>1
    <3>3. ~ (ack_count'[p] >= Majority) /\ ~ (nack_count'[p] > 0)
      BY <1>1, <3>1
    <3>4. QED BY <3>1, <3>2, <3>3 DEF Awake, CanDecide, CanRefine, Majority, N
  <2>3. CASE WaitAgain(p)
    <3>1. ~ CanDecide(p) /\ ~ CanRefine(p) /\ UNCHANGED <<pc, proposerVars>>
      BY <2>3 DEF WaitAgain
    <3>2. QED BY <1>1, <3>1 DEF Awake, CanDecide, CanRefine, Majority, N
  <2>4. QED BY <2>1, <2>2, <2>3 DEF Turn
<1>4. ASSUME NEW q \in Procs \ {p} PROVE Awake(q)'
  BY <1>2, <1>4, Undisturbed DEF ProgressInv
<1>5. RepliedInv'
  BY <1>2, RepliedKept DEF ProgressInv
<1>6. QED BY <1>3, <1>4, <1>5 DEF ProgressInv

(* An acceptor answers whatever it handles.                                *)
LEMMA AnswerProgress ==
  ASSUME IInv, ProgressInv, NEW a \in Procs, NEW m \in ToAcceptor(a),
         Accept(a, m) \/ Reject(a, m)
  PROVE  ProgressInv'
<1> USE DEF mainVars, proposerVars, counters
<1>1. TypeInv
  BY DEF IInv
<1>2. /\ UNCHANGED <<pc, notified, status, ack_count, nack_count, active_proposal_number>>
      /\ received' = [received EXCEPT ![a] = @ \cup {m}]
  BY DEF Accept, Reject, Handled
<1>3. \E r : msgs' = msgs \cup {r} /\ IsReply(r) /\ r.from = a /\ About(r, m.proposer, m.num)
  <2>1. \E t \in {"ack", "nack"} : \E v : msgs' = msgs \cup {Reply(t, a, m, v)}
    BY DEF Accept, Reject, Send
  <2>2. PICK t \in {"ack", "nack"} : \E v : msgs' = msgs \cup {Reply(t, a, m, v)}
    BY <2>1
  <2>3. PICK v : msgs' = msgs \cup {Reply(t, a, m, v)}
    BY <2>2
  <2> DEFINE r == Reply(t, a, m, v)
  <2>4. IsReply(r) /\ r.from = a /\ About(r, m.proposer, m.num)
    BY DEF Reply, IsReply, About
  <2>5. QED BY <2>3, <2>4
<1>4. \A q \in Procs : Awake(q)'
  BY <1>2, Undisturbed DEF ProgressInv
<1>5. \A q \in Procs : \A x \in received'[q] : x \in received[q] \/ (x = m /\ q = a)
  BY <1>1, <1>2 DEF TypeInv
<1>6. RepliedInv'
  <2> SUFFICES ASSUME NEW q \in Procs, NEW x \in received'[q], IsProposal(x)
               PROVE  \E r \in msgs' : IsReply(r) /\ r.from = q /\ About(r, x.proposer, x.num)
    BY DEF RepliedInv, IsProposal, IsReply, About
  <2>1. CASE x \in received[q]
    BY <1>3, <2>1 DEF ProgressInv, RepliedInv
  <2>2. CASE x = m /\ q = a
    BY <1>3, <2>2
  <2>3. QED BY <1>5, <2>1, <2>2
<1>7. QED BY <1>4, <1>6 DEF ProgressInv

(* notify_one releases the waiter.                                         *)
LEMMA NotifyWakes ==
  ASSUME TypeInv, NEW p \in Procs, Notify(p)
  PROVE  /\ pc[p] = "waiting" => notified'[p]
         /\ \A q \in Procs \ {p} : notified'[q] = notified[q]
<1> DEFINE b == notified[p] \/ pc[p] = "waiting"
<1>1. notified' = [notified EXCEPT ![p] = b] /\ notified \in [Procs -> BOOLEAN]
  BY DEF Notify, TypeInv
<1>2. pc[p] = "waiting" => b
  OBVIOUS
<1> HIDE DEF b
<1>3. notified'[p] = b /\ \A q \in Procs \ {p} : notified'[q] = notified[q]
  BY <1>1
<1>4. QED BY <1>2, <1>3

(* A counted answer wakes the waiter up.                                   *)
LEMMA CountProgress ==
  ASSUME IInv, ProgressInv, NEW p \in Procs, NEW m \in ToProposer(p),
         ProcessAck(p, m) \/ ProcessNack(p, m)
  PROVE  ProgressInv'
<1>1. TypeInv /\ Awake(p) /\ ~ IsProposal(m)
  BY DEF IInv, ProgressInv, ToProposer, IsProposal
<1>2. /\ UNCHANGED <<pc, status, active_proposal_number, msgs>>
      /\ \A q \in Procs : \A x \in received'[q] : x \in received[q] \/ x = m
      /\ \A q \in Procs \ {p} : /\ ack_count'[q] = ack_count[q]
                                /\ nack_count'[q] = nack_count[q]
  BY <1>1 DEF ProcessAck, ProcessNack, Handled, TypeInv
<1>3. Notify(p) \/ UNCHANGED <<ack_count, nack_count, notified>>
  BY DEF ProcessAck, ProcessNack
<1>4. \A q \in Procs \ {p} : notified'[q] = notified[q]
  BY <1>1, <1>3, NotifyWakes
<1>5. Awake(p)'
  <2>1. CASE Notify(p)
    <3>1. pc[p] = "waiting" => notified'[p]
      BY <1>1, <2>1, NotifyWakes
    <3>2. QED BY <1>1, <1>2, <3>1 DEF Awake
  <2>2. CASE UNCHANGED <<ack_count, nack_count, notified>>
    BY <1>1, <1>2, <2>2, Undisturbed
  <2>3. QED BY <1>3, <2>1, <2>2
<1>6. ASSUME NEW q \in Procs \ {p} PROVE Awake(q)'
  BY <1>2, <1>4, <1>6, Undisturbed DEF ProgressInv
<1>7. RepliedInv'
  BY <1>1, <1>2, RepliedKept DEF ProgressInv
<1>8. QED BY <1>5, <1>6, <1>7 DEF ProgressInv

(* Every step leaves the wakeups that are owed to their waiters.           *)
LEMMA NextProgress == IInv /\ ProgressInv /\ [Next]_vars => ProgressInv'
<1> SUFFICES ASSUME IInv, ProgressInv, [Next]_vars PROVE ProgressInv'
  OBVIOUS
<1>1. CASE UNCHANGED vars
  BY <1>1, StutterProgress
<1>2. ASSUME NEW p \in Proposers, Main(p) PROVE ProgressInv'
  BY <1>2, ProcsAssumption, StartProgress, TurnProgress DEF Main
<1>3. ASSUME NEW p \in Procs, Network(p) PROVE ProgressInv'
  BY <1>3, AnswerProgress, CountProgress DEF Network
<1>4. QED BY <1>1, <1>2, <1>3 DEF Next

(* From the first refinement on, no wakeup that is owed is lost.           *)
THEOREM Progress == Spec => []ProgressInv
BY InitIInv, NextIInv, InitProgress, NextProgress, PTL DEF Spec

(* When nothing is left to handle, a majority has answered the active      *)
(* proposal of a process that exchanges messages with one.                 *)
LEMMA MajorityAnswered ==
  ASSUME IInv, ProgressInv, Quiet, NEW p \in Served, pc[p] = "waiting"
  PROVE  ack_count[p] + nack_count[p] >= Majority
<1> DEFINE S == {a \in Procs : {<<"proposal", p, a>>, <<"reply", a, p>>} \subseteq Links}
           A == Answered(p, "ack")
           B == Answered(p, "nack")
<1>1. p \in Procs /\ Cardinality(S) >= Majority /\ TypeInv
  BY DEF Served, IInv
<1>2. PICK m \in msgs : IsProposal(m) /\ About(m, p, active_proposal_number[p])
  BY <1>1 DEF IInv, NumberInv, Started
<1>3. ASSUME NEW a \in S PROVE a \in A \cup B
  <2>1. a \in Procs /\ <<"proposal", m.proposer, a>> \in Links /\ <<"reply", a, p>> \in Links
    BY <1>2 DEF About
  <2>2. m \in received[a]
    BY <1>2, <2>1 DEF Quiet, ToAcceptor, IsProposal
  <2>3. PICK r \in msgs : IsReply(r) /\ r.from = a /\ About(r, p, active_proposal_number[p])
    BY <1>2, <2>1, <2>2 DEF ProgressInv, RepliedInv, About
  <2>4. r \in received[p]
    BY <1>1, <2>1, <2>3 DEF Quiet, ToProposer, IsReply, About
  <2>5. QED BY <2>1, <2>3, <2>4 DEF Answered, IsReply, About
<1>4. ack_count[p] = Cardinality(A) /\ nack_count[p] = Cardinality(B)
  BY <1>1 DEF IInv, CountsMatchAnswers
<1>5. S \subseteq A \cup B /\ S \subseteq Procs /\ A \subseteq Procs /\ B \subseteq Procs
  BY <1>3 DEF Answered
<1> HIDE DEF S, A, B
<1>6. /\ IsFiniteSet(A) /\ IsFiniteSet(B) /\ A \cup B \subseteq Procs /\ A \cap B \subseteq Procs
  BY <1>5, ProcSets
<1>7. /\ Cardinality(A) \in Nat /\ Cardinality(B) \in Nat /\ Cardinality(S) \in Nat
      /\ Cardinality(A \cup B) \in Nat /\ Cardinality(A \cap B) \in Nat
      /\ IsFiniteSet(A \cup B) /\ Majority \in Nat
  BY <1>5, <1>6, ProcSets, MajorityType
<1>8. Cardinality(A \cup B) = Cardinality(A) + Cardinality(B) - Cardinality(A \cap B)
  BY <1>6, FS_Union
<1>9. Cardinality(S) <= Cardinality(A \cup B)
  BY <1>5, <1>7, FS_Subset
<1>10. QED BY <1>1, <1>4, <1>7, <1>8, <1>9

(* Whenever the system comes to rest, a process that a majority hears and  *)
(* that is still in cv.wait has lost the wakeups of its first proposal; no *)
(* later proposal is left waiting.                                         *)
THEOREM StallsAreEarly == Spec => []OnlyFirstStalls
<1>1. IInv /\ ProgressInv => OnlyFirstStalls
  <2> SUFFICES ASSUME IInv, ProgressInv, Quiet,
                      NEW p \in Proposers \cap Served, pc[p] = "waiting"
               PROVE  /\ active_proposal_number[p] = 1
                      /\ ack_count[p] + nack_count[p] >= Majority
    BY DEF OnlyFirstStalls
  <2>1. p \in Procs /\ p \in Served /\ p \in Proposers
    BY DEF Served
  <2>2. ack_count[p] + nack_count[p] >= Majority
    BY <2>1, MajorityAnswered
  <2>3. ack_count[p] \in Nat /\ nack_count[p] \in Nat /\ Majority \in Nat
    BY <2>1, MajorityType DEF IInv, TypeInv
  <2>4. nack_count[p] > 0 \/ ack_count[p] >= Majority
    BY <2>2, <2>3
  <2>5. status[p] = "Active" /\ ~ notified[p]
    BY <2>1 DEF ProgressInv, Awake, Quiet
  <2>6. CanDecide(p) \/ CanRefine(p)
    BY <2>2, <2>3, <2>4, <2>5 DEF CanDecide, CanRefine
  <2>7. active_proposal_number[p] = 1
    BY <2>1, <2>5, <2>6 DEF ProgressInv, Awake
  <2>8. QED BY <2>2, <2>7
<1>2. QED BY <1>1, Invariance, Progress, PTL

=============================================================================
