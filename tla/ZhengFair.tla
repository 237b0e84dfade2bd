----------------------------- MODULE ZhengFair -----------------------------
(***************************************************************************)
(* Fairness for Zheng, and what it is enough for.                          *)
(*                                                                         *)
(* While a thread can take a step, some thread takes one.  Nothing more is *)
(* needed, because no execution goes on for ever: a process enters each    *)
(* round once, and every message is handled once.  A wait whose condition  *)
(* holds can end: every handler notifies all waiters while it holds cv_m.  *)
(***************************************************************************)
EXTENDS Zheng

FairSpec == Spec /\ WF_vars(Next)

\* The processes that exchange all messages with at least n - f processes,
\* themselves included.
Correct ==
  {p \in Procs :
     Cardinality({p} \cup
       {q \in Others(p) : {<<k, d, x[1], x[2]>> : k \in Kinds, d \in 0..LogF, x \in {<<p, q>>, <<q, p>>}} \subseteq links})
     >= N - F}

-----------------------------------------------------------------------------
(* In the end start has returned to every process that hears n - f others, *)
(* whatever the others are doing, with no notification lost.               *)
ServedReturn == <>[](Served \subseteq Returned)

(* What running a test with f failures presumes: when f processes have     *)
(* failed, the others still return.                                        *)
CorrectReturn == \A p \in Procs : pc[p] = "idle" /\ p \in Correct ~> pc[p] = "returned"

=============================================================================
