------------------------ MODULE FaleiroGeneralizedInv ----------------------
(***************************************************************************)
(* The inductive invariant behind the safety properties of                 *)
(* FaleiroGeneralized.                                                     *)
(***************************************************************************)
EXTENDS FaleiroGeneralized

TypeInv ==
  /\ pc \in [Procs -> {"next", "start", "waiting", "learn", "learning"}]
  /\ round \in [Procs -> Nat]
  /\ results \in [Procs -> Seq(SUBSET AllValues)]
  /\ notified \in [Procs -> BOOLEAN]
  /\ status \in [Procs -> {"Passive", "Active"}]
  /\ ack_count \in [Procs -> Nat]
  /\ nack_count \in [Procs -> Nat]
  /\ active_proposal_number \in [Procs -> Nat]
  /\ proposed_value \in [Procs -> SUBSET AllValues]
  /\ buffered_values \in [Procs -> SUBSET AllValues]
  /\ accepted_value \in [Procs -> SUBSET AllValues]
  /\ learnt_value \in [Procs -> SUBSET AllValues]
  /\ learn_count \in [Procs -> [Procs -> [Numbers -> Nat]]]
  /\ msgs \subseteq Messages
  /\ received \in [Procs -> SUBSET msgs]

\* Every value taken so far has been answered, but the one of this round.
PhaseInv ==
  \A p \in Procs :
    /\ round[p] <= Rounds[p]
    /\ pc[p] = "next" => round[p] = Len(results[p])
    /\ pc[p] # "next" => round[p] = Len(results[p]) + 1

IsProposal(m) == m.type = "proposal"
IsReply(m) == m.type \in {"ack", "nack"}

\* m is about the proposal of p numbered num.
About(m, p, num) == m.proposer = p /\ m.num = num

\* Proposal numbers are used once and in order.
NumberInv ==
  /\ \A m \in msgs : m.type # "internal" =>
       1 <= m.num /\ m.num <= active_proposal_number[m.proposer]
  /\ \A m1, m2 \in msgs :
       IsProposal(m1) /\ IsProposal(m2) /\ About(m1, m2.proposer, m2.num) => m1 = m2
  /\ \A p \in Procs : active_proposal_number[p] # 0 =>
       \E m \in msgs : IsProposal(m) /\ About(m, p, active_proposal_number[p])

\* What the reply r of an acceptor says about the proposal m it answers.
Answers(r, m) == /\ IsProposal(m)
                 /\ About(r, m.proposer, m.num)
                 /\ r.type = "ack" => r.value = m.value
                 /\ r.type = "nack" => Less(m.value, r.value)

\* r is the copy for the learners of the ack s.
CopyOf(r, s) == /\ s.type = "ack" /\ s.from = r.from /\ s.value = r.value
                /\ About(s, r.proposer, r.num)

\* An acceptor answers proposals it has handled, each of them once, and tells
\* the learners what it tells the proposer.
ReplyInv ==
  /\ \A r \in msgs : IsReply(r) => \E m \in received[r.from] : Answers(r, m)
  /\ \A r, s \in msgs :
       IsReply(r) /\ IsReply(s) /\ s.from = r.from /\ About(s, r.proposer, r.num) => s = r
  /\ \A r \in msgs : r.type = "learn" => \E s \in msgs : CopyOf(r, s)

\* What an acceptor acknowledged is a chain below what it holds.
AcksFormChain ==
  \A r \in msgs : r.type = "ack" =>
    /\ Leq(r.value, accepted_value[r.from])
    /\ \A s \in msgs : s.type = "ack" /\ s.from = r.from => Comparable(r.value, s.value)

\* The answers p has handled to its active proposal, and the copies of acks for
\* the proposal of q numbered i.
Answered(p, type) ==
  {m \in received[p] : m.type = type /\ m.num = active_proposal_number[p]}
Copies(p, q, i) == {m \in received[p] : m.type = "learn" /\ m.proposer = q /\ m.num = i}

\* Counters are right, also while no proposal is active.
CountInv ==
  \A p \in Procs :
    /\ \A m \in received[p] : IsReply(m) => m.proposer = p
    /\ ack_count[p] = Cardinality(Answered(p, "ack"))
    /\ nack_count[p] = Cardinality(Answered(p, "nack"))
    /\ \A q \in Procs : \A i \in Numbers :
         learn_count[p][q][i] = Cardinality(Copies(p, q, i))

\* The value of the proposal of p that was sent last.
SentValue(p) ==
  UNION {m.value : m \in {x \in msgs : /\ x.type = "proposal"
                                       /\ x.proposer = p
                                       /\ x.num = active_proposal_number[p]}}

\* A nack of the last proposal, and nothing else, adds to what is proposed next,
\* and there are no more proposals than values in the last one.
ValueInv ==
  \A p \in Procs :
    /\ Leq(SentValue(p), proposed_value[p])
    /\ nack_count[p] # 0 => SentValue(p) # proposed_value[p]
    /\ nack_count[p] = 0 => SentValue(p) = proposed_value[p]
    /\ active_proposal_number[p] <= Cardinality(SentValue(p))

\* The values the main threads have taken so far, and nothing else, are in the
\* system.
Submitted == UNION {{<<p, i>> : i \in 1..round[p]} : p \in Procs}

OriginInv ==
  /\ \A m \in msgs : m.value \subseteq Submitted
  /\ \A p \in Procs : /\ proposed_value[p] \subseteq Submitted
                      /\ buffered_values[p] \subseteq Submitted
                      /\ accepted_value[p] \subseteq Submitted
                      /\ learnt_value[p] \subseteq Submitted

\* A majority has acknowledged v.
Acknowledged(v) ==
  \E Q \in SUBSET Procs :
    /\ Cardinality(Q) >= Majority
    /\ \A a \in Q : \E r \in msgs : r.type = "ack" /\ r.from = a /\ r.value = v

\* A learner knows what a majority has acknowledged, and does not go back.
LearntInv ==
  \A p \in Procs :
    /\ learnt_value[p] # Bottom => Acknowledged(learnt_value[p])
    /\ \A i \in 1..Len(results[p]) : /\ Leq(results[p][i], learnt_value[p])
                                     /\ results[p][i] # Bottom => Acknowledged(results[p][i])

IInv == /\ TypeInv
        /\ PhaseInv
        /\ NumberInv
        /\ ReplyInv
        /\ AcksFormChain
        /\ CountInv
        /\ ValueInv
        /\ ProposalsGrow
        /\ OriginInv
        /\ LearntInv
        /\ ResultsGrow

-----------------------------------------------------------------------------
(* Why the system does not come to rest too early.                         *)

\* A main thread in a cv.wait whose condition holds has been notified.
Awake(p) ==
  /\ pc[p] = "waiting" /\ (CanDecide(p) \/ CanRefine(p)) => notified[p]
  /\ pc[p] = "learning" /\ HasLearnt(p) => notified[p]

\* The value of this round is in the buffer, then in the last proposal, which a
\* majority has acknowledged once start() has returned.
InRound(p) ==
  /\ pc[p] = "start" => InitialValue(p, round[p]) \subseteq buffered_values[p]
  /\ status[p] = "Active" => pc[p] = "waiting" /\ active_proposal_number[p] # 0
  /\ status[p] = "Active" \/ pc[p] \in {"learn", "learning"} =>
       InitialValue(p, round[p]) \subseteq SentValue(p)
  /\ pc[p] \in {"learn", "learning"} => ack_count[p] >= Majority

\* Every proposal that was handled has its answer, and every ack its copy for
\* the learners.
RepliedInv ==
  /\ \A m \in msgs : IsProposal(m) => m.from = m.proposer
  /\ \A a \in Procs : \A m \in received[a] : IsProposal(m) =>
       \E r \in msgs : IsReply(r) /\ r.from = a /\ About(r, m.proposer, m.num)
  /\ \A s \in msgs : s.type = "ack" => \E r \in msgs : r.type = "learn" /\ CopyOf(r, s)
  /\ \A p \in Procs : \A m \in received[p] : <<m.type, m.from, p>> \in Links

\* A learner knows what a majority of the acceptors told it.
LearnerInv ==
  \A p \in Procs : \A m \in received[p] :
    m.type = "learn" /\ learn_count[p][m.proposer][m.num] >= Majority =>
      Leq(m.value, learnt_value[p])

ProgressInv == /\ \A p \in Procs : Awake(p) /\ InRound(p)
               /\ RepliedInv
               /\ LearnerInv

=============================================================================
