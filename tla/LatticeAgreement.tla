-------------------------- MODULE LatticeAgreement --------------------------
(***************************************************************************)
(* What the one-shot interface LatticeAgreement<L> promises to a set of    *)
(* processes that each call start(x) at most once: the call returns a      *)
(* learnt value that is above the caller's own proposal, is built from     *)
(* proposals only, and is comparable with every other learnt value (the    *)
(* condition LACoordinator verifies on the results).                       *)
(*                                                                         *)
(* The proposal of process p is the singleton {p}: the coordinator hands   *)
(* every process its own identifier as initial value.                      *)
(***************************************************************************)
EXTENDS Lattice

CONSTANT Procs

VARIABLES
  proposed,   \* the processes that have called start
  learnt      \* learnt[p] is the value start returned to p, Bottom before

absvars == <<proposed, learnt>>

AbsTypeOK == /\ proposed \subseteq Procs
             /\ learnt \in [Procs -> SUBSET Procs]

AbsInit == /\ proposed = {}
           /\ learnt = [p \in Procs |-> Bottom]

\* p calls start with its own value.
Call(p) == /\ p \notin proposed
           /\ proposed' = proposed \cup {p}
           /\ UNCHANGED learnt

\* The call of p returns v.
Return(p, v) == /\ p \in proposed
                /\ learnt[p] = Bottom
                /\ learnt' = [learnt EXCEPT ![p] = v]
                /\ Leq({p}, v)
                /\ \A q \in Procs : Comparable(v, learnt[q])
                /\ UNCHANGED proposed

AbsNext == \E p \in Procs : \/ Call(p)
                            \/ \E v \in SUBSET proposed : Return(p, v)

AbsSpec == AbsInit /\ [][AbsNext]_absvars

=============================================================================
