---------------------------- MODULE FaleiroFair ----------------------------
(***************************************************************************)
(* Fairness for Faleiro, and what it is enough for.                        *)
(*                                                                         *)
(* The processes of Correct are up and reach each other.  Their two        *)
(* threads are scheduled by the operating system, a handler never blocks   *)
(* for longer than the other thread holds mt, and the asio context runs    *)
(* every handler it was given: main threads and deliveries are weakly      *)
(* fair.  cv.wait is only left for a notification; a spurious wakeup may   *)
(* happen but is not owed.                                                 *)
(***************************************************************************)
EXTENDS Faleiro

CONSTANT Correct

ASSUME CorrectAssumption ==
  /\ Correct \subseteq Procs
  /\ {"proposal", "reply"} \X Correct \X Correct \subseteq Links

WokenTurn(p) == notified[p] /\ Turn(p)

\* The deliveries at p of what a process of Correct sent.
CorrectDelivery(p) ==
  \/ \E m \in ToAcceptor(p) : m.proposer \in Correct /\ (Accept(p, m) \/ Reject(p, m))
  \/ \E m \in ToProposer(p) : m.from \in Correct /\ (ProcessAck(p, m) \/ ProcessNack(p, m))

Fairness == \A p \in Correct :
              /\ WF_vars(p \in Proposers /\ (Propose(p) \/ EnterWait(p)))
              /\ WF_vars(p \in Proposers /\ WokenTurn(p))
              /\ WF_vars(CorrectDelivery(p))

FairSpec == Spec /\ Fairness

-----------------------------------------------------------------------------
(* A process that is inside cv.wait before the answers of a majority have  *)
(* come in returns from start, however many refinements that takes and     *)
(* whatever the processes outside Correct do.                              *)
WaitingReturns ==
  \A p \in Correct :
    pc[p] = "waiting" /\ ack_count[p] + nack_count[p] < Majority
      ~> pc[p] = "returned"

(* What the interface promises: start returns a learnt value.  The         *)
(* notifications of answers that arrive before cv.wait is entered are lost, *)
(* so a process may wait for ever.                                         *)
StartReturns == \A p \in Correct : pc[p] = "proposed" ~> pc[p] = "returned"

=============================================================================
