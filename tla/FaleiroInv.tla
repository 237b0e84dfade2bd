---------------------------- MODULE FaleiroInv -----------------------------
(***************************************************************************)
(* The inductive invariant behind the safety properties of Faleiro.        *)
(***************************************************************************)
EXTENDS Faleiro

TypeInv ==
  /\ pc \in [Procs -> {"idle", "proposed", "waiting", "returned"}]
  /\ notified \in [Procs -> BOOLEAN]
  /\ result \in [Procs -> SUBSET Procs]
  /\ status \in [Procs -> {"Passive", "Active"}]
  /\ ack_count \in [Procs -> Nat]
  /\ nack_count \in [Procs -> Nat]
  /\ active_proposal_number \in [Procs -> Nat]
  /\ proposed_value \in [Procs -> SUBSET Procs]
  /\ accepted_value \in [Procs -> SUBSET Procs]
  /\ msgs \subseteq Messages
  /\ received \in [Procs -> SUBSET msgs]

\* The processes that have called start.
Started == {p \in Procs : pc[p] # "idle"}

IsProposal(m) == m.type = "proposal"
IsReply(m) == m.type \in {"ack", "nack"}

\* m is about the proposal of p numbered num.
About(m, p, num) == m.proposer = p /\ m.num = num

\* Proposal numbers are used once and in order, and only after start.
NumberInv ==
  /\ \A m \in msgs : 1 <= m.num /\ m.num <= active_proposal_number[m.proposer]
  /\ \A m1, m2 \in msgs :
       IsProposal(m1) /\ IsProposal(m2) /\ About(m1, m2.proposer, m2.num) => m1 = m2
  /\ \A p \in Procs : pc[p] = "idle" <=> active_proposal_number[p] = 0
  /\ \A p \in Started :
       \E m \in msgs : IsProposal(m) /\ About(m, p, active_proposal_number[p])

\* What the reply r of an acceptor says about the proposal m it answers.
Answers(r, m) == /\ IsProposal(m)
                 /\ About(r, m.proposer, m.num)
                 /\ r.type = "ack" => r.value = m.value
                 /\ r.type = "nack" => Less(m.value, r.value)

\* An acceptor answers proposals it has handled, each of them once.
ReplyInv ==
  \A r \in msgs : IsReply(r) =>
    /\ \E m \in received[r.from] : Answers(r, m)
    /\ \A s \in msgs :
         IsReply(s) /\ s.from = r.from /\ About(s, r.proposer, r.num) => s = r

\* A nack of the active proposal, and nothing else, adds to what is proposed.
ValueInv ==
  \A p \in Started :
    /\ InitialValue(p) \subseteq SentValue(p)
    /\ Leq(SentValue(p), proposed_value[p])
    /\ nack_count[p] > 0 => Less(SentValue(p), proposed_value[p])
    /\ nack_count[p] = 0 => SentValue(p) = proposed_value[p]

\* Every value in the system is made of initial values of started processes.
OriginInv ==
  /\ \A m \in msgs : m.value \subseteq Started
  /\ \A p \in Procs : /\ proposed_value[p] \subseteq Started
                      /\ accepted_value[p] \subseteq Started
                      /\ result[p] \subseteq Started

\* What start checked when it returned stays true.
ReturnInv ==
  \A p \in Procs : pc[p] = "returned" =>
    /\ ack_count[p] >= Majority
    /\ Leq(SentValue(p), result[p])
    /\ nack_count[p] = 0 => SentValue(p) = result[p]

IInv == /\ TypeInv
        /\ NumberInv
        /\ ReplyInv
        /\ AcksFormChain
        /\ CountsMatchAnswers
        /\ ValueInv
        /\ RefinementsBounded
        /\ OriginInv
        /\ ReturnInv

-----------------------------------------------------------------------------
(* Where the system can come to rest.                                      *)

\* From the first refinement on, a main thread that could go on is notified.
Awake(p) ==
  /\ pc[p] = "proposed" => active_proposal_number[p] = 1 /\ status[p] = "Active"
  /\ pc[p] = "waiting" => active_proposal_number[p] # 0 /\ status[p] = "Active"
  /\ pc[p] = "waiting" /\ active_proposal_number[p] # 1 /\ (CanDecide(p) \/ CanRefine(p)) =>
       notified[p]

\* Every proposal that was handled has its answer.
RepliedInv ==
  \A a \in Procs : \A m \in received[a] : IsProposal(m) =>
    \E r \in msgs : IsReply(r) /\ r.from = a /\ About(r, m.proposer, m.num)

ProgressInv == (\A p \in Procs : Awake(p)) /\ RepliedInv

=============================================================================
