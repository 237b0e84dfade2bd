------------------------------ MODULE Faleiro ------------------------------
(***************************************************************************)
(* One-shot lattice agreement of the faleiro/ program.                     *)
(*                                                                         *)
(* Every process runs a Proposer and an Acceptor on two threads: the main  *)
(* thread is inside Proposer::start, the network thread (Server's asio     *)
(* context) runs the message handlers one at a time.  Proposer::mt makes   *)
(* each handler, and each turn of start's loop, atomic; so each is one     *)
(* action here.  Messages are sent on one TCP connection each, after a     *)
(* random delay: they arrive in any order, at most once, or never.         *)
(***************************************************************************)
EXTENDS Naturals, FiniteSets, Lattice

CONSTANTS
  Procs,      \* identifiers the coordinator gave out; every process accepts
  Proposers,  \* the processes whose main thread is let into start()
  Links       \* <<k, p, q>> \in Links: the connections that carry messages
              \* of kind k from p to q can succeed; all others are lost

ASSUME ProcsAssumption == /\ IsFiniteSet(Procs)
                          /\ Proposers \subseteq Procs
                          /\ Links \subseteq
                               {"proposal", "reply"} \X Procs \X Procs

N == Cardinality(Procs)

\* Mutants of Majority: a plain half, half rounded up, everybody.
Half == N \div 2
Everybody == N

\* (acc_cnt + 2) / 2 in unsigned arithmetic: a strict majority of acceptors.
Majority == (N + 2) \div 2

\* The initial value LACoordinator sends to process p: its identifier.
InitialValue(p) == {p}

VARIABLES
  \* Proposer, main thread
  pc,         \* "idle": start not called; "proposed": propose() has run, mt is
              \* not taken yet; "waiting": in cv.wait; "returned": start is over
  notified,   \* notified[p]: notify_one released the waiter, which has not
              \* reacquired mt yet
  result,     \* the value start returned, Bottom before
  \* Proposer, shared with the network thread
  status, ack_count, nack_count, active_proposal_number, proposed_value,
  \* Acceptor
  accepted_value,
  \* Server
  msgs,       \* every message handed to Server::send
  received    \* received[p]: those whose handler has run at p

mainVars == <<pc, notified, result>>
counters == <<ack_count, nack_count>>
proposerVars == <<status, counters, active_proposal_number, proposed_value>>
netVars == <<msgs, received>>
vars == <<mainVars, proposerVars, accepted_value, netVars>>

\* Replies do not carry the acceptor's identity on the wire: "from" stands
\* for the connection and tells apart replies with the same content.
Messages ==
  [type : {"proposal"}, num : Nat, value : SUBSET Procs, proposer : Procs]
    \cup
  [type : {"ack", "nack"}, num : Nat, value : SUBSET Procs, proposer : Procs,
   from : Procs]

Init == /\ pc = [p \in Procs |-> "idle"]
        /\ notified = [p \in Procs |-> FALSE]
        /\ result = [p \in Procs |-> Bottom]
        /\ status = [p \in Procs |-> "Passive"]
        /\ ack_count = [p \in Procs |-> 0]
        /\ nack_count = [p \in Procs |-> 0]
        /\ active_proposal_number = [p \in Procs |-> 0]
        /\ proposed_value = [p \in Procs |-> Bottom]
        /\ accepted_value = [p \in Procs |-> Bottom]
        /\ msgs = {}
        /\ received = [p \in Procs |-> {}]

-----------------------------------------------------------------------------
(* Network.  A proposal goes to every descriptor, the proposer's own       *)
(* included; a reply goes to its proposer.                                 *)

Send(m) == msgs' = msgs \cup {m}

Handled(p, m) == received' = [received EXCEPT ![p] = @ \cup {m}]

\* The undelivered messages for the acceptor and for the proposer of p.
ToAcceptor(p) == {m \in msgs \ received[p] : /\ m.type = "proposal"
                                            /\ <<"proposal", m.proposer, p>> \in Links}
ToProposer(p) == {m \in msgs \ received[p] : /\ m.type \in {"ack", "nack"}
                                            /\ m.proposer = p
                                            /\ <<"reply", m.from, p>> \in Links}

\* send_proposal: the detached thread works on copies of its arguments.
SendProposal(p, num, value) ==
  Send([type |-> "proposal", num |-> num, value |-> value, proposer |-> p])

-----------------------------------------------------------------------------
(* Main thread: Proposer::start.                                           *)

\* start() calls propose() before it takes mt.
Propose(p) ==
  /\ pc[p] = "idle"
  /\ active_proposal_number[p] = 0
  /\ proposed_value' = [proposed_value EXCEPT ![p] = InitialValue(p)]
  /\ status' = [status EXCEPT ![p] = "Active"]
  /\ active_proposal_number' = [active_proposal_number EXCEPT ![p] = 1]
  /\ SendProposal(p, 1, InitialValue(p))
  /\ pc' = [pc EXCEPT ![p] = "proposed"]
  /\ UNCHANGED <<notified, result, counters, accepted_value, received>>

\* start() locks mt and enters cv.wait, which has no predicate: replies
\* handled before this step notified nobody.
EnterWait(p) ==
  /\ pc[p] = "proposed"
  /\ pc' = [pc EXCEPT ![p] = "waiting"]
  /\ UNCHANGED <<notified, result, proposerVars, accepted_value, netVars>>

\* Mutant of CanDecide: every answer counts.
CanDecideOnAnswers(p) == /\ ack_count[p] + nack_count[p] >= Majority
                         /\ status[p] = "Active"

CanDecide(p) == ack_count[p] >= Majority /\ status[p] = "Active"

CanRefine(p) == /\ nack_count[p] > 0
                /\ status[p] = "Active"
                /\ nack_count[p] + ack_count[p] >= Majority

\* Mutant of ResetCounters: the counters go on.
KeepCounters(p) == UNCHANGED counters

ResetCounters(p) == /\ ack_count' = [ack_count EXCEPT ![p] = 0]
                    /\ nack_count' = [nack_count EXCEPT ![p] = 0]

\* cv.wait returned with mt held and decide() has a value.
Decide(p) ==
  /\ pc[p] = "waiting"
  /\ CanDecide(p)
  /\ status' = [status EXCEPT ![p] = "Passive"]
  /\ result' = [result EXCEPT ![p] = proposed_value[p]]
  /\ pc' = [pc EXCEPT ![p] = "returned"]
  /\ notified' = [notified EXCEPT ![p] = FALSE]
  /\ UNCHANGED <<counters, active_proposal_number, proposed_value,
                 accepted_value, netVars>>

\* decide() had none and refine() proposes again.
Refine(p) ==
  /\ pc[p] = "waiting"
  /\ ~ CanDecide(p)
  /\ CanRefine(p)
  /\ active_proposal_number' = [active_proposal_number EXCEPT ![p] = @ + 1]
  /\ ResetCounters(p)
  /\ SendProposal(p, active_proposal_number[p] + 1, proposed_value[p])
  /\ notified' = [notified EXCEPT ![p] = FALSE]
  /\ UNCHANGED <<pc, result, status, proposed_value, accepted_value, received>>

\* Neither: back into cv.wait.
WaitAgain(p) ==
  /\ pc[p] = "waiting"
  /\ notified[p]
  /\ ~ CanDecide(p)
  /\ ~ CanRefine(p)
  /\ notified' = [notified EXCEPT ![p] = FALSE]
  /\ UNCHANGED <<pc, result, proposerVars, accepted_value, netVars>>

\* One turn of the loop in start(), after a notification or spuriously.
Turn(p) == Decide(p) \/ Refine(p) \/ WaitAgain(p)

-----------------------------------------------------------------------------
(* Network thread: FaleiroProtocol::on_message_received dispatches a       *)
(* message m to its handler; see Network below.                            *)

Reply(type, a, m, value) ==
  [type |-> type, num |-> m.num, value |-> value, proposer |-> m.proposer,
   from |-> a]

\* Mutant of Accept: the acknowledged value is not stored.
AcceptForgetful(a, m) ==
  /\ Leq(accepted_value[a], m.value)
  /\ Send(Reply("ack", a, m, m.value))
  /\ Handled(a, m)
  /\ UNCHANGED <<mainVars, proposerVars, accepted_value>>

\* Acceptor::process_proposal answering Ack.
Accept(a, m) ==
  /\ Leq(accepted_value[a], m.value)
  /\ accepted_value' = [accepted_value EXCEPT ![a] = m.value]
  /\ Send(Reply("ack", a, m, m.value))
  /\ Handled(a, m)
  /\ UNCHANGED <<mainVars, proposerVars>>

\* Acceptor::process_proposal answering Nack with the joined value.
Reject(a, m) ==
  /\ ~ Leq(accepted_value[a], m.value)
  /\ accepted_value' = [accepted_value EXCEPT ![a] = Join(@, m.value)]
  /\ Send(Reply("nack", a, m, Join(accepted_value[a], m.value)))
  /\ Handled(a, m)
  /\ UNCHANGED <<mainVars, proposerVars>>

\* Mutant of Notify: only once a majority had answered before this answer.
NotifyLate(p) ==
  LET enough == ack_count[p] + nack_count[p] >= Majority
  IN  notified' = [notified EXCEPT ![p] = @ \/ (pc[p] = "waiting" /\ enough)]

\* cv.notify_one: lost unless the main thread is waiting.
Notify(p) == notified' = [notified EXCEPT ![p] = @ \/ pc[p] = "waiting"]

\* Mutant of IsCurrent: answers to earlier proposals count.
AnyNumber(p, m) == TRUE

\* proposal_number == active_proposal_number
IsCurrent(p, m) == m.num = active_proposal_number[p]

ProcessAck(p, m) ==
  /\ m.type = "ack"
  /\ IF IsCurrent(p, m)
     THEN /\ ack_count' = [ack_count EXCEPT ![p] = @ + 1]
          /\ Notify(p)
     ELSE UNCHANGED <<ack_count, notified>>
  /\ Handled(p, m)
  /\ UNCHANGED <<pc, result, status, nack_count, active_proposal_number,
                 proposed_value, accepted_value, msgs>>

ProcessNack(p, m) ==
  /\ m.type = "nack"
  /\ IF IsCurrent(p, m)
     THEN /\ proposed_value' = [proposed_value EXCEPT ![p] = Join(@, m.value)]
          /\ nack_count' = [nack_count EXCEPT ![p] = @ + 1]
          /\ Notify(p)
     ELSE UNCHANGED <<proposed_value, nack_count, notified>>
  /\ Handled(p, m)
  /\ UNCHANGED <<pc, result, status, ack_count, active_proposal_number,
                 accepted_value, msgs>>

-----------------------------------------------------------------------------
Main(p) == Propose(p) \/ EnterWait(p) \/ Turn(p)

Network(p) == \/ \E m \in ToAcceptor(p) : Accept(p, m) \/ Reject(p, m)
              \/ \E m \in ToProposer(p) : ProcessAck(p, m) \/ ProcessNack(p, m)

Next == \/ \E p \in Proposers : Main(p)
        \/ \E p \in Procs : Network(p)

Spec == Init /\ [][Next]_vars

-----------------------------------------------------------------------------
(* Properties.                                                             *)

\* The value p last proposed, i.e. under its active proposal number.
SentValue(p) ==
  UNION {m.value : m \in {x \in msgs : /\ x.type = "proposal"
                                       /\ x.proposer = p
                                       /\ x.num = active_proposal_number[p]}}

\* The acceptors whose answer of that type to the active proposal p handled.
Answered(p, type) ==
  {a \in Procs : \E m \in received[p] : /\ m.type = type
                                       /\ m.proposer = p
                                       /\ m.num = active_proposal_number[p]
                                       /\ m.from = a}

(* Types; a proposal is answered at most once by each of the N acceptors,  *)
(* so neither counter of a proposer exceeds N.                             *)
TypeOK ==
  /\ pc \in [Procs -> {"idle", "proposed", "waiting", "returned"}]
  /\ notified \in [Procs -> BOOLEAN]
  /\ result \in [Procs -> SUBSET Procs]
  /\ status \in [Procs -> {"Passive", "Active"}]
  /\ ack_count \in [Procs -> 0..N]
  /\ nack_count \in [Procs -> 0..N]
  /\ active_proposal_number \in [Procs -> Nat]
  /\ proposed_value \in [Procs -> SUBSET Procs]
  /\ accepted_value \in [Procs -> SUBSET Procs]
  /\ msgs \subseteq Messages
  /\ received \in [Procs -> SUBSET msgs]

(* The values any two processes proposed last before start returned are    *)
(* comparable: whatever the order of deliveries, decide() only succeeds on *)
(* proposals that form a chain.                                            *)
DecidedComparable ==
  \A p, q \in Procs : pc[p] = "returned" /\ pc[q] = "returned"
                        => Comparable(SentValue(p), SentValue(q))

(* start returns a value that contains the caller's own and that is made   *)
(* of values other processes really proposed.                              *)
Validity ==
  \A p \in Procs : pc[p] = "returned"
                      => /\ SentValue(p) \subseteq result[p]
                         /\ InitialValue(p) \subseteq SentValue(p)
                         /\ result[p] \subseteq {q \in Procs : pc[q] # "idle"}

(* Once start returned, a majority of acceptors holds the decided proposal *)
(* for good: later proposals below it are rejected by them.                *)
DecidedIsHeld ==
  \A p \in Procs : pc[p] = "returned" =>
    Cardinality({a \in Procs : Leq(SentValue(p), accepted_value[a])}) >= Majority

(* An acceptor keeps its promises: everything it acknowledged is below     *)
(* what it holds, and two values it acknowledged are comparable.           *)
AcksFormChain ==
  \A m1, m2 \in msgs :
    m1.type = "ack" /\ m2.type = "ack" /\ m1.from = m2.from
      => /\ Leq(m1.value, accepted_value[m1.from])
         /\ Comparable(m1.value, m2.value)

(* The counters count distinct acceptors that answered the active          *)
(* proposal; answers to earlier proposals of p, however late, are left out. *)
CountsMatchAnswers ==
  \A p \in Procs : /\ ack_count[p] = Cardinality(Answered(p, "ack"))
                     /\ nack_count[p] = Cardinality(Answered(p, "nack"))

(* Every refinement proposes strictly more, so a process proposes at most  *)
(* as often as there are values: start cannot refine for ever.             *)
RefinementsBounded ==
  \A p \in Procs : active_proposal_number[p] <= Cardinality(SentValue(p))

(* The values returned by processes that counted no nack of the proposal   *)
(* they decided on are comparable: only a late nack, joined between the    *)
(* majority of acks and decide(), makes a result differ from what was      *)
(* acknowledged.                                                           *)
CleanResultsComparable ==
  \A p, q \in {r \in Procs : pc[r] = "returned" /\ nack_count[r] = 0} :
    Comparable(result[p], result[q])

(* What LACoordinator verifies on the values start returned.               *)
ResultsComparable == \A p, q \in Procs : Comparable(result[p], result[q])

\* The processes that exchange proposals and answers with a majority.
Served == {p \in Procs :
             Cardinality({a \in Procs : {<<"proposal", p, a>>, <<"reply", a, p>>}
                                         \subseteq Links}) >= Majority}

\* Nothing more will happen by itself: every message that is not lost has been
\* handled, and every main thread has returned or is in cv.wait, not notified.
Quiet == /\ \A p \in Procs : ToAcceptor(p) = {} /\ ToProposer(p) = {}
         /\ \A p \in Proposers : pc[p] \in {"waiting", "returned"} /\ ~ notified[p]

(* Only answers to the first proposal of start() can be lost on the main   *)
(* thread: when the system comes to rest with a process in cv.wait that a  *)
(* majority hears, that majority has answered its first proposal.  From    *)
(* the first refinement on, mt is held from the proposal to the wait, and  *)
(* no wakeup is lost.                                                      *)
OnlyFirstStalls ==
  Quiet => \A p \in Proposers \cap Served : pc[p] = "waiting" =>
             /\ active_proposal_number[p] = 1
             /\ ack_count[p] + nack_count[p] >= Majority

(* The proposals on which decide() succeeded implement lattice agreement.  *)
LA == INSTANCE LatticeAgreement WITH
        proposed <- {p \in Procs : pc[p] # "idle"},
        learnt <- [p \in Procs |-> IF pc[p] = "returned" THEN SentValue(p)
                                                         ELSE Bottom]

ImplementsLA == LA!AbsSpec

=============================================================================
