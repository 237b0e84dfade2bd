----------------------- MODULE FaleiroGeneralizedFair ----------------------
(***************************************************************************)
(* Fairness for FaleiroGeneralized: while a main thread can run, was       *)
(* notified, or a message that is not lost has not been handled, some      *)
(* thread takes a step.  That is enough, because no execution goes on for  *)
(* ever.  Spurious wakeups may happen but are not owed.                    *)
(***************************************************************************)
EXTENDS FaleiroGeneralized

\* The steps of the main thread that wait for nobody.
OwnStep(p) == \/ ReceiveValue(p) \/ Propose(p) \/ ProposeNothing(p)
              \/ pc[p] = "learn" /\ (LearnValue(p) \/ AwaitLearnt(p))

WokenTurn(p) == notified[p] /\ (Turn(p) \/ LearnValue(p) \/ AwaitLearnt(p))

Fairness == WF_vars(\E p \in Procs : OwnStep(p) \/ WokenTurn(p) \/ Network(p))

FairSpec == Spec /\ Fairness

-----------------------------------------------------------------------------
(* Every call of start() returns, after however many refinements.          *)
StartReturns == \A p \in Served : pc[p] = "waiting" ~> pc[p] # "waiting"

(* A value that is proposed is learnt: a majority answers the proposal and *)
(* what becomes of it, start() returns after however many refinements, and *)
(* then learn_value() does too, in the second round as in the first.  So a *)
(* main thread always gets to its next value again, or to a start() that   *)
(* had nothing to propose.                                                 *)
ProposalLearnt ==
  \A p \in Served \cap Attentive : []<>(pc[p] = "next" \/ WaitsForNothing(p))

=============================================================================
