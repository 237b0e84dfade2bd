------------------------- MODULE FaleiroGeneralized -------------------------
(***************************************************************************)
(* Generalized lattice agreement of the faleiro_generalized/ program.      *)
(*                                                                         *)
(* Every process has a list of initial values.  For each, its main thread  *)
(* hands the value to the proposer (receive_value), runs one agreement     *)
(* (start) and waits until its learner has learnt it (learn_value).  The   *)
(* network thread runs the handlers of proposer, acceptor and learner one  *)
(* at a time.  Messages travel as in Faleiro: in any order, at most once,  *)
(* or never.                                                               *)
(***************************************************************************)
EXTENDS Naturals, FiniteSets, Sequences, Lattice

CONSTANTS
  Procs,      \* identifiers the coordinator gave out
  Rounds,     \* Rounds[p]: the number of initial values of p
  Links       \* <<t, p, q>> \in Links: messages of type t from p can reach q

Types == {"proposal", "ack", "nack", "learn", "internal"}

ASSUME GeneralizedAssumption == /\ IsFiniteSet(Procs)
                                /\ Rounds \in [Procs -> Nat]
                                /\ Links \subseteq Types \X Procs \X Procs

N == Cardinality(Procs)

\* Mutants of Majority: a plain half, half rounded up.
Half == N \div 2
HalfRoundedUp == (N + 1) \div 2

Majority == (N + 2) \div 2

\* GLACoordinator numbers the i-th value of process p i * n + p: different
\* pairs, different numbers.
InitialValue(p, i) == {<<p, i>>}
AllValues == UNION {{<<p, i>> : i \in 1..Rounds[p]} : p \in Procs}

\* A proposer's proposals grow strictly, so there are no more than values.
Numbers == 1..Cardinality(AllValues)

VARIABLES
  \* main thread
  pc,         \* "next": top of the loop; "start": before start(); "waiting":
              \* in its cv.wait; "learn": before learn_value(); "learning": in
              \* its cv.wait
  round,      \* round[p]: initial values taken so far
  results,    \* results[p]: what learn_value returned, in order
  notified,   \* notify_one released the waiter, which has not run yet
  \* Proposer
  status, ack_count, nack_count, active_proposal_number, proposed_value,
  buffered_values,
  \* Acceptor
  accepted_value,
  \* Learner
  learnt_value,
  learn_count,   \* Learner::ack_count[proposer][number]
  \* Server
  msgs,       \* every message handed to Server::send
  received    \* received[p]: those whose handler has run at p

mainVars == <<pc, round, results, notified>>
counters == <<ack_count, nack_count>>
proposerVars == <<status, counters, active_proposal_number, proposed_value,
                  buffered_values>>
learnerVars == <<learnt_value, learn_count>>
netVars == <<msgs, received>>
vars == <<mainVars, proposerVars, accepted_value, learnerVars, netVars>>

\* proposer: whose proposal the message is about; from: who sends it.
Messages == [type : Types, num : Nat, value : SUBSET AllValues,
             proposer : Procs, from : Procs]

Message(type, num, value, proposer, from) ==
  [type |-> type, num |-> num, value |-> value, proposer |-> proposer, from |-> from]

Init == /\ pc = [p \in Procs |-> "next"]
        /\ round = [p \in Procs |-> 0]
        /\ results = [p \in Procs |-> <<>>]
        /\ notified = [p \in Procs |-> FALSE]
        /\ status = [p \in Procs |-> "Passive"]
        /\ ack_count = [p \in Procs |-> 0]
        /\ nack_count = [p \in Procs |-> 0]
        /\ active_proposal_number = [p \in Procs |-> 0]
        /\ proposed_value = [p \in Procs |-> Bottom]
        /\ buffered_values = [p \in Procs |-> Bottom]
        /\ accepted_value = [p \in Procs |-> Bottom]
        /\ learnt_value = [p \in Procs |-> Bottom]
        /\ learn_count = [p \in Procs |-> [q \in Procs |-> [i \in Numbers |-> 0]]]
        /\ msgs = {}
        /\ received = [p \in Procs |-> {}]

-----------------------------------------------------------------------------
(* Network: replies go to the proposer, "learn" copies of an ack to every  *)
(* learner, "internal" values to every proposer but the sender's own.      *)

Send(ms) == msgs' = msgs \cup ms

Deliverable(p, type) ==
  {m \in msgs \ received[p] : /\ m.type = type
                              /\ <<type, m.from, p>> \in Links
                              /\ type \in {"ack", "nack"} => m.proposer = p
                              /\ type = "internal" => m.from # p}

Handled(p, m) == received' = [received EXCEPT ![p] = @ \cup {m}]

-----------------------------------------------------------------------------
(* Main thread.                                                            *)

\* Proposer::receive_value: share the next value, then buffer it.
ReceiveValue(p) ==
  /\ pc[p] = "next"
  /\ round[p] < Rounds[p]
  /\ LET value == InitialValue(p, round[p] + 1)
     IN  /\ Send({Message("internal", 0, value, p, p)})
         /\ buffered_values' = [buffered_values EXCEPT ![p] = Join(value, @)]
  /\ round' = [round EXCEPT ![p] = @ + 1]
  /\ pc' = [pc EXCEPT ![p] = "start"]
  /\ UNCHANGED <<results, notified, status, counters, active_proposal_number,
                 proposed_value, accepted_value, learnerVars, received>>

\* Mutant of ResetCounters: the counters go on.
KeepCounters(p) == UNCHANGED counters

ResetCounters(p) == /\ ack_count' = [ack_count EXCEPT ![p] = 0]
                    /\ nack_count' = [nack_count EXCEPT ![p] = 0]

\* Mutant of Grown: only what the process itself was given.
OwnValueOnly(p) == Join(proposed_value[p], InitialValue(p, round[p]))

\* The proposal with everything that was buffered.
Grown(p) == Join(proposed_value[p], buffered_values[p])

CanPropose(p) == status[p] = "Passive" /\ Less(proposed_value[p], Grown(p))

\* start() holds mt from propose() until it is inside cv.wait.
Propose(p) ==
  /\ pc[p] = "start"
  /\ CanPropose(p)
  /\ proposed_value' = [proposed_value EXCEPT ![p] = Grown(p)]
  /\ Send({Message("proposal", active_proposal_number[p] + 1, Grown(p), p, p)})
  /\ status' = [status EXCEPT ![p] = "Active"]
  /\ active_proposal_number' = [active_proposal_number EXCEPT ![p] = @ + 1]
  /\ ResetCounters(p)
  /\ buffered_values' = [buffered_values EXCEPT ![p] = Bottom]
  /\ pc' = [pc EXCEPT ![p] = "waiting"]
  /\ UNCHANGED <<round, results, notified, accepted_value, learnerVars, received>>

\* propose() finds nothing new to propose, and start() waits all the same.
ProposeNothing(p) ==
  /\ pc[p] = "start"
  /\ ~ CanPropose(p)
  /\ pc' = [pc EXCEPT ![p] = "waiting"]
  /\ UNCHANGED <<round, results, notified, proposerVars, accepted_value,
                 learnerVars, netVars>>

CanDecide(p) == ack_count[p] >= Majority /\ status[p] = "Active"

\* Mutant of CanRefine: only when a majority refuses.
CanRefineWhenRefused(p) == nack_count[p] >= Majority /\ status[p] = "Active"

CanRefine(p) == /\ nack_count[p] > 0
                /\ status[p] = "Active"
                /\ nack_count[p] + ack_count[p] >= Majority

\* decide() ends start(); main drops the value start() returns.
Decide(p) ==
  /\ pc[p] = "waiting"
  /\ CanDecide(p)
  /\ status' = [status EXCEPT ![p] = "Passive"]
  /\ pc' = [pc EXCEPT ![p] = "learn"]
  /\ notified' = [notified EXCEPT ![p] = FALSE]
  /\ UNCHANGED <<round, results, counters, active_proposal_number,
                 proposed_value, buffered_values, accepted_value, learnerVars, netVars>>

Refine(p) ==
  /\ pc[p] = "waiting"
  /\ ~ CanDecide(p)
  /\ CanRefine(p)
  /\ active_proposal_number' = [active_proposal_number EXCEPT ![p] = @ + 1]
  /\ ResetCounters(p)
  /\ Send({Message("proposal", active_proposal_number[p] + 1, proposed_value[p], p, p)})
  /\ notified' = [notified EXCEPT ![p] = FALSE]
  /\ UNCHANGED <<pc, round, results, status, proposed_value, buffered_values,
                 accepted_value, learnerVars, received>>

WaitAgain(p) ==
  /\ pc[p] = "waiting"
  /\ notified[p]
  /\ ~ CanDecide(p)
  /\ ~ CanRefine(p)
  /\ notified' = [notified EXCEPT ![p] = FALSE]
  /\ UNCHANGED <<pc, round, results, proposerVars, accepted_value, learnerVars, netVars>>

Turn(p) == Decide(p) \/ Refine(p) \/ WaitAgain(p)

\* Mutant of HasLearnt: any learnt value will do.
HasLearntSomething(p) == learnt_value[p] # Bottom

\* proposal <= learnt_value
HasLearnt(p) == Leq(InitialValue(p, round[p]), learnt_value[p])

\* Learner::learn_value returns, at once or after a wakeup.
LearnValue(p) ==
  /\ pc[p] \in {"learn", "learning"}
  /\ HasLearnt(p)
  /\ results' = [results EXCEPT ![p] = Append(@, learnt_value[p])]
  /\ pc' = [pc EXCEPT ![p] = "next"]
  /\ notified' = [notified EXCEPT ![p] = FALSE]
  /\ UNCHANGED <<round, proposerVars, accepted_value, learnerVars, netVars>>

\* learn_value enters cv.wait, or goes back into it.
AwaitLearnt(p) ==
  /\ pc[p] = "learn" \/ (pc[p] = "learning" /\ notified[p])
  /\ ~ HasLearnt(p)
  /\ pc' = [pc EXCEPT ![p] = "learning"]
  /\ notified' = [notified EXCEPT ![p] = FALSE]
  /\ UNCHANGED <<round, results, proposerVars, accepted_value, learnerVars, netVars>>

-----------------------------------------------------------------------------
(* Network thread: FaleiroProtocol::on_message_received dispatches a       *)
(* message m to its handler; see Network below.                            *)

\* Mutant of Accept: the acknowledged value is not stored.
AcceptForgetful(a, m) ==
  /\ Leq(accepted_value[a], m.value)
  /\ Send({Message(type, m.num, m.value, m.proposer, a) : type \in {"ack", "learn"}})
  /\ Handled(a, m)
  /\ UNCHANGED <<mainVars, proposerVars, accepted_value, learnerVars>>

\* Acceptor::process_proposal and send_response: an ack goes to the proposer
\* and, as a message of its own, to every learner.
Accept(a, m) ==
  /\ Leq(accepted_value[a], m.value)
  /\ accepted_value' = [accepted_value EXCEPT ![a] = m.value]
  /\ Send({Message(type, m.num, m.value, m.proposer, a) : type \in {"ack", "learn"}})
  /\ Handled(a, m)
  /\ UNCHANGED <<mainVars, proposerVars, learnerVars>>

Reject(a, m) ==
  /\ ~ Leq(accepted_value[a], m.value)
  /\ LET value == Join(accepted_value[a], m.value)
     IN  /\ accepted_value' = [accepted_value EXCEPT ![a] = value]
         /\ Send({Message("nack", m.num, value, m.proposer, a)})
  /\ Handled(a, m)
  /\ UNCHANGED <<mainVars, proposerVars, learnerVars>>

\* Mutant of Notify: the learner tells nobody.
NotifyProposer(p, place) ==
  notified' = [notified EXCEPT ![p] = @ \/ (pc[p] = place /\ place = "waiting")]

\* notify_one on the condition variable the main thread waits on at place.
Notify(p, place) == notified' = [notified EXCEPT ![p] = @ \/ pc[p] = place]

\* Mutant of IsCurrent: answers to earlier proposals count.
AnyNumber(p, m) == TRUE

\* proposal_number == active_proposal_number
IsCurrent(p, m) == m.num = active_proposal_number[p]

ProcessAck(p, m) ==
  /\ IF IsCurrent(p, m)
     THEN /\ ack_count' = [ack_count EXCEPT ![p] = @ + 1]
          /\ Notify(p, "waiting")
     ELSE UNCHANGED <<ack_count, notified>>
  /\ Handled(p, m)
  /\ UNCHANGED <<pc, round, results, status, nack_count, active_proposal_number,
                 proposed_value, buffered_values, accepted_value, learnerVars, msgs>>

\* The status is not looked at: a nack counts after decide() as well.
ProcessNack(p, m) ==
  /\ IF IsCurrent(p, m)
     THEN /\ proposed_value' = [proposed_value EXCEPT ![p] = Join(@, m.value)]
          /\ nack_count' = [nack_count EXCEPT ![p] = @ + 1]
          /\ Notify(p, "waiting")
     ELSE UNCHANGED <<proposed_value, nack_count, notified>>
  /\ Handled(p, m)
  /\ UNCHANGED <<pc, round, results, status, ack_count, active_proposal_number,
                 buffered_values, accepted_value, learnerVars, msgs>>

\* process_internal_receive
InternalReceive(p, m) ==
  /\ buffered_values' = [buffered_values EXCEPT ![p] = Join(m.value, @)]
  /\ Handled(p, m)
  /\ UNCHANGED <<mainVars, status, counters, active_proposal_number,
                 proposed_value, accepted_value, learnerVars, msgs>>

\* Learner::process_ack
LearnAck(p, m) ==
  /\ learn_count' = [learn_count EXCEPT ![p][m.proposer][m.num] = @ + 1]
  /\ IF learn_count'[p][m.proposer][m.num] >= Majority /\ Less(learnt_value[p], m.value)
     THEN /\ learnt_value' = [learnt_value EXCEPT ![p] = m.value]
          /\ Notify(p, "learning")
     ELSE UNCHANGED <<learnt_value, notified>>
  /\ Handled(p, m)
  /\ UNCHANGED <<pc, round, results, proposerVars, accepted_value, msgs>>

-----------------------------------------------------------------------------
Main(p) == \/ ReceiveValue(p) \/ Propose(p) \/ ProposeNothing(p)
           \/ Turn(p)
           \/ LearnValue(p) \/ AwaitLearnt(p)

Network(p) == \/ \E m \in Deliverable(p, "proposal") : Accept(p, m) \/ Reject(p, m)
              \/ \E m \in Deliverable(p, "ack") : ProcessAck(p, m)
              \/ \E m \in Deliverable(p, "nack") : ProcessNack(p, m)
              \/ \E m \in Deliverable(p, "internal") : InternalReceive(p, m)
              \/ \E m \in Deliverable(p, "learn") : LearnAck(p, m)

Next == \E p \in Procs : Main(p) \/ Network(p)

Spec == Init /\ [][Next]_vars

-----------------------------------------------------------------------------
(* Properties.                                                             *)

Proposals(p) == {m \in msgs : m.type = "proposal" /\ m.proposer = p}

\* Values some learner has seen acknowledged by a majority.
Learnt == {learnt_value[p] : p \in Procs} \cup
          UNION {{results[p][i] : i \in 1..Len(results[p])} : p \in Procs}

(* Types.  Every acceptor answers a proposal once, so no counter exceeds N; *)
(* proposals grow, so no proposal number exceeds the number of values.     *)
TypeOK ==
  /\ pc \in [Procs -> {"next", "start", "waiting", "learn", "learning"}]
  /\ round \in [Procs -> Nat] /\ \A p \in Procs : round[p] <= Rounds[p]
  /\ results \in [Procs -> Seq(SUBSET AllValues)]
  /\ notified \in [Procs -> BOOLEAN]
  /\ status \in [Procs -> {"Passive", "Active"}]
  /\ ack_count \in [Procs -> 0..N]
  /\ nack_count \in [Procs -> 0..N]
  /\ active_proposal_number \in [Procs -> {0} \cup Numbers]
  /\ proposed_value \in [Procs -> SUBSET AllValues]
  /\ buffered_values \in [Procs -> SUBSET AllValues]
  /\ accepted_value \in [Procs -> SUBSET AllValues]
  /\ learnt_value \in [Procs -> SUBSET AllValues]
  /\ learn_count \in [Procs -> [Procs -> [Numbers -> 0..N]]]
  /\ msgs \subseteq Messages
  /\ received \in [Procs -> SUBSET msgs]

(* All values ever returned by learn_value, and those the learners hold,   *)
(* form a chain: GLACoordinator checks it for the results it collects.     *)
LearntChain == \A v, w \in Learnt : Comparable(v, w)

(* Learning ignores no proposal and forgets nothing: the i-th result of a  *)
(* process contains its first i values and the results before it.          *)
ResultsGrow ==
  \A p \in Procs : \A i \in 1..Len(results[p]) :
    /\ InitialValue(p, i) \subseteq results[p][i]
    /\ i > 1 => Leq(results[p][i - 1], results[p][i])

(* The buffer is emptied without losing anything: every value a process    *)
(* was given or was told by another one, also while it was waiting in      *)
(* start(), is in its proposal or still buffered for the next one.         *)
NothingDropped ==
  \A p \in Procs :
    LET kept == proposed_value[p] \cup buffered_values[p]
    IN  /\ \A i \in 1..round[p] : InitialValue(p, i) \subseteq kept
        /\ \A m \in received[p] : m.type = "internal" => m.value \subseteq kept

(* What a learner knows is held by a majority of the acceptors for good.   *)
LearntIsHeld ==
  \A v \in Learnt : v # Bottom =>
    Cardinality({a \in Procs : Leq(v, accepted_value[a])}) >= Majority

(* The proposals of a process grow strictly from number to number, over    *)
(* refinements and over rounds.                                            *)
ProposalsGrow ==
  \A p \in Procs : \A m1, m2 \in Proposals(p) :
    m1.num < m2.num => Less(m1.value, m2.value)

(* Late or reordered answers are never counted for another proposal:       *)
(* neither by the proposer, whose counters are reset, nor by the learner.  *)
CountsMatchAnswers ==
  \A p \in Procs :
    /\ status[p] = "Active" =>
         /\ ack_count[p] = Cardinality({m \in received[p] :
              m.type = "ack" /\ m.num = active_proposal_number[p]})
         /\ nack_count[p] = Cardinality({m \in received[p] :
              m.type = "nack" /\ m.num = active_proposal_number[p]})
    /\ \A q \in Procs, i \in Numbers :
         learn_count[p][q][i] = Cardinality({m \in received[p] :
           m.type = "learn" /\ m.proposer = q /\ m.num = i})

\* The processes that exchange proposals and answers with a majority.
Served == {p \in Procs :
             Cardinality({a \in Procs : {<<"proposal", p, a>>, <<"ack", a, p>>,
                                         <<"nack", a, p>>} \subseteq Links}) >= Majority}

\* The processes whose learner hears everybody their proposer hears.
Attentive == {p \in Procs : \A a \in Procs :
                <<"ack", a, p>> \in Links => <<"learn", a, p>> \in Links}

\* Nothing more will happen by itself: every message that is not lost has been
\* handled, and every main thread is in a cv.wait, not notified, or through its
\* list.
Quiet == \A p \in Procs : /\ \A type \in Types : Deliverable(p, type) = {}
                          /\ ~ notified[p]
                          /\ \/ pc[p] \in {"waiting", "learning"}
                             \/ pc[p] = "next" /\ round[p] = Rounds[p]

\* start() waits although it has proposed nothing.
WaitsForNothing(p) == pc[p] = "waiting" /\ status[p] = "Passive"

(* The system never comes to rest while it owes an answer: no notification *)
(* is lost, no answer dropped and no proposal stuck halfway between the    *)
(* acceptors, its proposer and the learner.  A main thread that a majority *)
(* hears is then through its list, but for the start() that propose() gave *)
(* nothing to wait for.                                                    *)
NothingOwed ==
  Quiet => \A p \in Served \cap Attentive : pc[p] = "next" \/ WaitsForNothing(p)

(* The learners implement generalized lattice agreement.                   *)
GLA == INSTANCE GeneralizedLatticeAgreement WITH
         submitted <- round, learnt <- learnt_value, answers <- results

ImplementsGLA == GLA!AbsSpec

=============================================================================
